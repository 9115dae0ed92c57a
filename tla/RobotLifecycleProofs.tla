------------------------ MODULE RobotLifecycleProofs ------------------------
(***************************************************************************)
(* Every step of RobotLifecycle keeps TypeInv, for every value of the      *)
(* constants: the parts TypeOK splits into, the types of the values that   *)
(* steps compute, and one lemma per action.                                *)
(***************************************************************************)
EXTENDS RobotLifecycle, TLAPS


(***************************************************************************)
(* Typing.  TypeOK needs two facts about the pass: it works on a key, and  *)
(* one that provisions works on an accepted spec, hence has a robot name.  *)
(***************************************************************************)
PassNamed ==
    /\ pc # "idle" => pass.h \in HarborAccesses
    /\ pc \in NormalPCs => Accepted(pass.ha)

TypeInv == TypeOK /\ PassNamed

HarborOK ==
    /\ robots \subseteq Robot /\ nextID \in Nat \ {0}
    /\ \A r \in robots : r.id < nextID
    /\ \A r, s \in robots : r.id = s.id => r = s

APIOK ==
    /\ ha \in [HarborAccesses -> HarborAccess]
    /\ secret \in [HarborAccesses -> Secret]

CacheOK ==
    /\ cache \in [Replicas -> [HarborAccesses -> HarborAccess]]
    /\ leader \in Replicas

PassOK == pc \in PCs /\ pass \in Pass /\ PassNamed

SweepOK == spc \in SweepPCs /\ sweep \in Sweep

SpentOK == spent \in [{"edits", "admin", "due", "faults"} -> Nat]

LEMMA Split == TypeInv <=> HarborOK /\ APIOK /\ CacheOK /\ PassOK /\ SweepOK /\ SpentOK
  BY DEF TypeInv, TypeOK, HarborOK, APIOK, CacheOK, PassOK, SweepOK, SpentOK

LEMMA Join == HarborOK' /\ APIOK' /\ CacheOK' /\ PassOK' /\ SweepOK' /\ SpentOK' => TypeInv'
  BY DEF TypeInv, TypeOK, HarborOK, APIOK, CacheOK, PassOK, SweepOK, SpentOK

\* The values that stand for nothing have their types.
LEMMA Defaults ==
    /\ NoRobot \in Robot
    /\ \A v \in Nat : Absent(v) \in HarborAccess
    /\ \A u, v \in Nat : NoSecret(v, u) \in Secret
  BY BridgeAssumption DEF NoRobot, Robot, RobotNames, Absent, HarborAccess, NoSecret, Secret

LEMMA NoPassType == NoPass \in Pass
  BY Defaults DEF NoPass, Pass

LEMMA SeenType ==
    ASSUME NEW r \in Robot
    PROVE  Seen(r) \in Robot /\ Seen(r).id = r.id
  <1>1. Seen(r) \in Robot
    <2>1. 0 \in Nat
      OBVIOUS
    <2> QED BY <2>1, Zenon DEF Seen, Robot
  <1>2. Seen(r).id = r.id
    BY Zenon DEF Seen, Robot
  <1> QED BY <1>1, <1>2

\* The pass goes on with other local variables but over the same copy.
Like(q, p) == q \in Pass /\ q.h = p.h /\ q.ha = p.ha

LEMMA PassUpdates ==
    ASSUME NEW p \in Pass
    PROVE  /\ Like(p, p)
           /\ \A x \in Secret : Like([p EXCEPT !.sec = x], p)
           /\ \A x \in Robot : Like([p EXCEPT !.rob = x], p)
           /\ \A x \in SUBSET Nat : Like([p EXCEPT !.todo = x], p)
           /\ \A x \in Nat : Like([p EXCEPT !.pw = x], p)
           /\ Like([p EXCEPT !.tries = @ + 1], p)
  <1>1. ASSUME NEW x \in Secret PROVE Like([p EXCEPT !.sec = x], p)
    BY Zenon DEF Like, Pass
  <1>2. ASSUME NEW x \in Robot PROVE Like([p EXCEPT !.rob = x], p)
    BY Zenon DEF Like, Pass
  <1>3. ASSUME NEW x \in SUBSET Nat PROVE Like([p EXCEPT !.todo = x], p)
    BY Zenon DEF Like, Pass
  <1>4. ASSUME NEW x \in Nat
        PROVE  Like([p EXCEPT !.pw = x], p) /\ Like([p EXCEPT !.tries = x], p)
    BY Zenon DEF Like, Pass
  <1>5. p.tries + 1 \in Nat
    BY DEF Pass
  <1> QED BY Zenon, <1>1, <1>2, <1>3, <1>4, <1>5 DEF Like

LEMMA PassFlags ==
    ASSUME NEW p \in Pass, NEW x \in BOOLEAN
    PROVE  /\ Like([p EXCEPT !.err = x], p)
           /\ Like([p EXCEPT !.free = x], p)
           /\ Like([p EXCEPT !.out = x], p)
  BY Zenon DEF Like, Pass

LEMMA BumpedType ==
    ASSUME APIOK, NEW h \in HarborAccesses, NEW x \in HarborAccess
    PROVE  Bumped(x, h) \in HarborAccess
  <1>1. ha[h].ver + 1 \in Nat
    BY DEF APIOK, HarborAccess
  <1> QED BY <1>1, Zenon DEF Bumped, HarborAccess

LEMMA FinType ==
    ASSUME NEW x \in HarborAccess, NEW f \in BOOLEAN
    PROVE  [x EXCEPT !.fin = f] \in HarborAccess
  BY Zenon DEF HarborAccess

LEMMA WithoutFinalizerType ==
    ASSUME APIOK, NEW h \in HarborAccesses
    PROVE  WithoutFinalizer(h) \in HarborAccess
  <1>1. ha[h] \in HarborAccess /\ ha[h].ver + 1 \in Nat
    BY DEF APIOK, HarborAccess
  <1>2. Bumped([ha[h] EXCEPT !.fin = FALSE], h) \in HarborAccess
    BY Zenon, <1>1, FinType, BumpedType
  <1> QED BY <1>1, <1>2, Defaults DEF WithoutFinalizer

LEMMA StatusAsType ==
    ASSUME pass \in Pass, NEW ready \in BOOLEAN
    PROVE  StatusAs(ready) \in HarborAccess
  <1>1. pass.ha \in HarborAccess /\ pass.rob.id \in Nat
    BY Defaults DEF Pass, Robot
  <1>2. \A i \in Nat : [pass.ha EXCEPT !.rid = i, !.observed = TRUE, !.ready = TRUE]
                           \in HarborAccess
    BY <1>1, Zenon DEF HarborAccess
  <1>3. [pass.ha EXCEPT !.ready = FALSE] \in HarborAccess
    BY <1>1, Zenon DEF HarborAccess
  <1> QED BY Zenon, <1>1, <1>2, <1>3 DEF StatusAs

\* The pass after a resume.
LEMMA ResumedLike ==
    ASSUME pass \in Pass
    PROVE  Like([pass EXCEPT !.rob.disabled = FALSE, !.rob.suspended = FALSE], pass)
  <1> DEFINE p == [pass EXCEPT !.rob.disabled = FALSE, !.rob.suspended = FALSE]
             q == [pass EXCEPT !.rob.disabled = FALSE]
  <1>1. ASSUME NEW x \in Pass, x.rob \in Robot
        PROVE  /\ Like([x EXCEPT !.rob.disabled = FALSE], x)
               /\ [x EXCEPT !.rob.disabled = FALSE].rob \in Robot
               /\ Like([x EXCEPT !.rob.suspended = FALSE], x)
    <2>1. /\ [x.rob EXCEPT !.disabled = FALSE] \in Robot
          /\ [x.rob EXCEPT !.suspended = FALSE] \in Robot
      BY <1>1, Zenon DEF Robot
    <2> QED BY <2>1, Zenon DEF Like, Pass
  <1>2. Like(q, pass) /\ q.rob \in Robot
    BY Zenon, <1>1, Defaults DEF Pass
  <1>3. Like([q EXCEPT !.rob.suspended = FALSE], q)
    BY Zenon, <1>1, <1>2 DEF Like
  <1>4. p = [q EXCEPT !.rob.suspended = FALSE]
    OBVIOUS
  <1> HIDE DEF p, q
  <1>5. Like(p, pass)
    BY <1>2, <1>3, <1>4 DEF Like
  <1> QED BY <1>5 DEF p

LEMMA WithSpecType ==
    ASSUME NEW x \in HarborAccess, NEW s \in Specs
    PROVE  /\ WithSpec(x, s) \in HarborAccess
           /\ WithSpec(x, s).exists = x.exists /\ WithSpec(x, s).ver = x.ver
           /\ WithSpec(x, s).fin = x.fin /\ WithSpec(x, s).del = x.del
  <1>1. /\ s.sa \in ServiceAccounts \cup {NoName} /\ s.ok \in BOOLEAN
        /\ s.perms \in Grants \cup {Star}
    BY DEF Specs
  <1>2. WithSpec(x, s) \in HarborAccess
    BY <1>1, Zenon DEF WithSpec, HarborAccess
  <1>3. WithSpec(x, s).exists = x.exists /\ WithSpec(x, s).ver = x.ver
    BY Zenon DEF WithSpec, HarborAccess
  <1>4. WithSpec(x, s).fin = x.fin /\ WithSpec(x, s).del = x.del
    BY Zenon DEF WithSpec, HarborAccess
  <1> QED BY <1>2, <1>3, <1>4

\* A new object: as the user wrote it, without a finalizer.
LEMMA FreshType ==
    ASSUME NEW v \in Nat, NEW s \in Specs
    PROVE  LET x == WithSpec([Absent(v) EXCEPT !.exists = TRUE, !.sel = TRUE], s) IN
           x \in HarborAccess /\ x.ver = v /\ ~x.fin /\ ~x.del
  <1> DEFINE y == [Absent(v) EXCEPT !.exists = TRUE, !.sel = TRUE]
  <1>1. Absent(v) \in HarborAccess
    BY Defaults
  <1>2. y \in HarborAccess /\ y.ver = Absent(v).ver /\ y.fin = Absent(v).fin
                          /\ y.del = Absent(v).del
    BY <1>1, Zenon DEF HarborAccess
  <1>3. Absent(v).ver = v /\ ~Absent(v).fin /\ ~Absent(v).del
    BY DEF Absent
  <1> HIDE DEF y
  <1> QED BY Zenon, <1>2, <1>3, WithSpecType DEF y

(***************************************************************************)
(* Steps.                                                                  *)
(***************************************************************************)
LEMMA NoSweepType == NoSweep \in Sweep
  BY Zenon DEF NoSweep, Sweep, SecretKey, Listed

LEMMA SpendType ==
    ASSUME SpentOK, NEW kind \in {"edits", "admin", "due", "faults"}, NEW max,
           Spend(kind, max)
    PROVE  SpentOK'
  BY DEF SpentOK, Spend

\* A returned error leaves a well-typed pass that provisions nothing more.
LEMMA FailedType ==
    ASSUME PassOK, Failed
    PROVE  PassOK' /\ pc' \notin NormalPCs
  <1>1. CASE pc \in SuspendPCs /\ Goto("refuseStatus", [pass EXCEPT !.err = TRUE])
    BY Zenon, <1>1 DEF PassOK, PassNamed, Goto, Pass, PCs, NormalPCs, SuspendPCs, ReleasePCs, DeletePCs
  <1>2. CASE Done
    BY Zenon, <1>2, NoPassType DEF PassOK, PassNamed, Done, PCs, NormalPCs
  <1>3. CASE /\ pc \in (NormalPCs \ {"addFinalizer"}) \cup (DeletePCs \ {"delPatch"})
             /\ Goto("fail", pass)
    BY Zenon, <1>3 DEF PassOK, PassNamed, Goto, PCs, NormalPCs, DeletePCs
  <1> QED BY Zenon, <1>1, <1>2, <1>3 DEF Failed

LEMMA AnsweredType ==
    ASSUME PassOK, SpentOK, NEW at \in PCs, NEW p \in Pass, Answered(at, p),
           p.h \in HarborAccesses, at \in NormalPCs => Accepted(p.ha)
    PROVE  PassOK' /\ SpentOK'
  <1>1. CASE Goto(at, p) /\ UNCHANGED spent
    BY Zenon, <1>1 DEF PassOK, PassNamed, Goto, SpentOK
  <1>2. CASE Failed /\ Fault
    BY Zenon, <1>2, FailedType, SpendType DEF Fault
  <1> QED BY Zenon, <1>1, <1>2 DEF Answered

LEMMA Unchanged ==
    /\ HarborOK /\ UNCHANGED harborVars => HarborOK'
    /\ APIOK /\ UNCHANGED apiVars => APIOK'
    /\ CacheOK /\ UNCHANGED <<cache, leader>> => CacheOK'
    /\ PassOK /\ UNCHANGED passVars => PassOK'
    /\ SweepOK /\ UNCHANGED sweepVars => SweepOK'
    /\ SpentOK /\ UNCHANGED spent => SpentOK'
  BY Zenon DEF HarborOK, harborVars, APIOK, apiVars, CacheOK, PassOK, PassNamed,
         passVars, SweepOK, sweepVars, SpentOK

\* Harbor's calls keep robots well-typed and their IDs unique.
LEMMA PutRobotType ==
    ASSUME HarborOK, NEW id, NEW owner \in HarborAccesses \cup {Foreign, Unclaimed},
           NEW suspended \in BOOLEAN, NEW disabled \in BOOLEAN,
           NEW perms \in Grants \cup {Star},
           PutRobot(id, owner, suspended, disabled, perms), UNCHANGED nextID
    PROVE  HarborOK'
  <1> DEFINE Put(r) == IF r.id = id
                       THEN [r EXCEPT !.owner = owner, !.suspended = suspended,
                                      !.disabled = disabled, !.perms = perms,
                                      !.oldPw = @ \/ suspended]
                       ELSE r
  <1>1. ASSUME NEW r \in robots
        PROVE  Put(r) \in Robot /\ Put(r).id = r.id
    <2>1. r \in Robot /\ (r.oldPw \/ suspended) \in BOOLEAN
      BY Zenon DEF HarborOK, Robot
    <2>2. ASSUME NEW w \in BOOLEAN
          PROVE  LET q == [r EXCEPT !.owner = owner, !.suspended = suspended,
                                    !.disabled = disabled, !.perms = perms, !.oldPw = w]
                 IN  q \in Robot /\ q.id = r.id
      BY <2>1, ZenonT(30) DEF Robot
    <2> QED BY <2>1, <2>2, Zenon
  <1>2. robots' = {Put(r) : r \in robots}
    BY Zenon DEF PutRobot
  <1> HIDE DEF Put
  <1> QED BY <1>1, <1>2 DEF HarborOK

LEMMA RefreshSecType ==
    ASSUME HarborOK, NEW id, RefreshSec(id), UNCHANGED nextID
    PROVE  HarborOK'
  <1> DEFINE New(r) == IF r.id = id THEN [r EXCEPT !.pw = NewPassword(@), !.oldPw = FALSE] ELSE r
  <1>1. ASSUME NEW r \in robots
        PROVE  New(r) \in Robot /\ New(r).id = r.id
    <2>1. r \in Robot /\ NewPassword(r.pw) \in Nat
      BY BridgeAssumption DEF HarborOK, Robot, NewPassword
    <2> QED BY <2>1, Zenon DEF Robot
  <1>2. robots' = {New(r) : r \in robots}
    BY Zenon DEF RefreshSec
  <1> HIDE DEF New
  <1> QED BY <1>1, <1>2 DEF HarborOK

LEMMA DeleteRobotsType ==
    ASSUME HarborOK, NEW ids, DeleteRobots(ids), UNCHANGED nextID
    PROVE  HarborOK'
  BY Zenon DEF HarborOK, DeleteRobots

LEMMA AddRobotType ==
    ASSUME HarborOK, NEW new \in Robot, new.id = nextID,
           robots' = robots \cup {new}, nextID' = nextID + 1
    PROVE  HarborOK'
  BY DEF HarborOK, Robot

LEMMA DeleteSecretType ==
    ASSUME APIOK, NEW h, DeleteSecret(h), UNCHANGED ha
    PROVE  APIOK'
  <1>1. ASSUME h \in HarborAccesses
        PROVE  NoSecret(secret[h].ver + 1, secret[h].uid) \in Secret
    <2>1. secret[h].ver + 1 \in Nat /\ secret[h].uid \in Nat
      BY <1>1 DEF APIOK, Secret
    <2> QED BY Zenon, <2>1, Defaults
  <1> QED BY Zenon, <1>1 DEF APIOK, DeleteSecret

\* A pass step that ends in Goto.
LEMMA GotoType ==
    ASSUME PassOK, NEW at \in PCs, NEW p, Like(p, pass), Goto(at, p),
           pass.h \in HarborAccesses, at \in NormalPCs => Accepted(pass.ha)
    PROVE  PassOK'
  BY Zenon DEF PassOK, PassNamed, Like, Goto

LEMMA DoneType == Done => PassOK'
  BY Zenon, NoPassType DEF Done, PassOK, PassNamed, PCs, NormalPCs

(***************************************************************************)
(* The actions of the Reconciler keep the types.                           *)
(***************************************************************************)
LEMMA ReconcileType ==
    ASSUME TypeInv, NEW h \in HarborAccesses, Reconcile(h)
    PROVE  TypeInv'
  <1> DEFINE a == cache[leader][h]
             p == [NoPass EXCEPT !.h = h, !.ha = a]
             at == IF a.del THEN "delList" ELSE IF Accepted(a) THEN "getSecret" ELSE "refuse"
  <1>1. a \in HarborAccess
    BY Zenon, Split DEF CacheOK
  <1>2. p \in Pass /\ p.h = h /\ p.ha = a
    BY <1>1, NoPassType, Zenon DEF Pass
  <1>3. Goto(at, p)
    BY Zenon DEF Reconcile
  <1>4. at \in PCs /\ (at \in NormalPCs => Accepted(a))
    BY Zenon DEF PCs, NormalPCs, SuspendPCs, ReleasePCs, DeletePCs
  <1> HIDE DEF at, p, a
  <1>5. PassOK'
    BY Zenon, <1>2, <1>3, <1>4 DEF PassOK, PassNamed, Goto
  <1> QED BY Zenon, <1>5, Split, Join, Unchanged DEF Reconcile

LEMMA getRobotSecretType ==
    ASSUME TypeInv, getRobotSecret
    PROVE  TypeInv'
  <1> DEFINE at == IF secretConflict(secret[pass.h], pass.ha.sa) THEN "status"
                   ELSE IF pass.ha.fin THEN "lookup" ELSE "addFinalizer"
             p == [pass EXCEPT !.sec = secret[pass.h]]
  <1>1. pass.h \in HarborAccesses /\ Accepted(pass.ha) /\ pass \in Pass
    BY Zenon, Split DEF getRobotSecret, PassOK, PassNamed, NormalPCs
  <1>2. Like(p, pass)
    BY Zenon, <1>1, Split, PassUpdates DEF APIOK
  <1>3. at \in PCs /\ Goto(at, p)
    BY Zenon DEF getRobotSecret, PCs, NormalPCs
  <1> HIDE DEF at, p
  <1>4. PassOK'
    BY Zenon, <1>1, <1>2, <1>3, Split, GotoType
  <1> QED BY Zenon, <1>4, Split, Join, Unchanged DEF getRobotSecret

LEMMA lookupRobotType ==
    ASSUME TypeInv, lookupRobot
    PROVE  TypeInv'
  <1>1. pass.h \in HarborAccesses /\ Accepted(pass.ha) /\ pass \in Pass /\ PassOK
    BY Zenon, Split DEF lookupRobot, PassOK, PassNamed, NormalPCs
  <1>2. PassOK'
    <2>1. CASE Goto("create", pass)
      BY Zenon, <1>1, <2>1, GotoType DEF Like, PCs, NormalPCs
    <2>2. CASE Failed
      BY Zenon, <1>1, <2>2, FailedType
    <2>3. CASE Goto("status", pass)
      BY Zenon, <1>1, <2>3, GotoType DEF Like, PCs
    <2>4. ASSUME NEW r \in robots,
                 Goto(AfterLookup(pass, r), [pass EXCEPT !.rob = Seen(r)])
          PROVE  PassOK'
      <3>1. Like([pass EXCEPT !.rob = Seen(r)], pass)
        <4>1. r \in Robot
          BY Zenon, Split DEF HarborOK
        <4> QED BY Zenon, <1>1, <4>1, SeenType, PassUpdates
      <3>2. AfterLookup(pass, r) \in PCs
        BY Zenon DEF AfterLookup, AfterConverge, PCs, NormalPCs
      <3> QED BY Zenon, <1>1, <2>4, <3>1, <3>2, GotoType
    <2> QED BY Zenon, <2>1, <2>2, <2>3, <2>4 DEF lookupRobot
  <1> QED BY Zenon, <1>2, Split, Join, Unchanged DEF lookupRobot

LEMMA createRobotType ==
    ASSUME TypeInv, createRobot
    PROVE  TypeInv'
  <1> DEFINE new == [id |-> nextID, name |-> pass.ha.sa, owner |-> pass.h,
                     suspended |-> FALSE, disabled |-> FALSE,
                     perms |-> pass.ha.perms, pw |-> nextID,
                     adminOff |-> FALSE, oldPw |-> FALSE]
             p == [pass EXCEPT !.rob = Seen(new), !.created = TRUE, !.pw = nextID]
  <1>1. pass.h \in HarborAccesses /\ Accepted(pass.ha) /\ pass \in Pass /\ PassOK
    BY Zenon, Split DEF createRobot, PassOK, PassNamed, NormalPCs
  <1>2. new \in Robot /\ new.id = nextID
    BY Zenon, <1>1, Split DEF Pass, HarborAccess, Accepted, Robot, RobotNames, HarborOK
  <1>3. CASE Goto("relookup", pass) /\ UNCHANGED <<harborVars, spent>>
    <2>1. PassOK'
      BY Zenon, <1>1, <1>3, GotoType DEF Like, PCs, NormalPCs
    <2> QED BY Zenon, <1>3, <2>1, Split, Join, Unchanged DEF createRobot
  <1>4. CASE /\ robots' = robots \cup {new} /\ nextID' = nextID + 1
             /\ Answered("putSecret", p)
    <2>1. Like(p, pass)
      <3>1. Seen(new) \in Robot /\ nextID \in Nat
        BY Zenon, <1>2, SeenType, Split DEF HarborOK
      <3> HIDE DEF new
      <3> QED BY <1>1, <3>1, Zenon DEF Like, Pass
    <2>2. PassOK' /\ SpentOK'
      <3> HIDE DEF p
      <3>1. p \in Pass /\ p.h \in HarborAccesses /\ Accepted(p.ha)
        BY Zenon, <1>1, <2>1 DEF Like
      <3>2. "putSecret" \in PCs
        BY Zenon DEF PCs, NormalPCs
      <3> QED BY Zenon, <1>1, <1>4, <3>1, <3>2, Split, AnsweredType
    <2>3. HarborOK'
      BY Zenon, <1>2, <1>4, Split, AddRobotType
    <2> QED BY Zenon, <2>2, <2>3, Split, Join, Unchanged DEF createRobot
  <1> QED BY Zenon, <1>3, <1>4 DEF createRobot

LEMMA WrittenType ==
    ASSUME APIOK, pass \in Pass, pass.h \in HarborAccesses, NEW ready \in BOOLEAN
    PROVE  Written(StatusAs(ready)) \in HarborAccess
  BY Zenon, StatusAsType, BumpedType DEF Written

LEMMA UpdateStatusType ==
    ASSUME APIOK, pass \in Pass, pass.h \in HarborAccesses, NEW ready \in BOOLEAN,
           UpdateStatus(ready), UNCHANGED secret
    PROVE  APIOK'
  BY Zenon, WrittenType DEF UpdateStatus, APIOK

LEMMA DeleteOwnSecretType ==
    ASSUME APIOK, DeleteOwnSecret, UNCHANGED ha
    PROVE  APIOK'
  BY Zenon, DeleteSecretType DEF DeleteOwnSecret, APIOK

LEMMA ensureFinalizerType ==
    ASSUME TypeInv, ensureFinalizer
    PROVE  TypeInv'
  <1> DEFINE h == pass.h
             a == Bumped([pass.ha EXCEPT !.fin = TRUE], h)
             p == [pass EXCEPT !.ha = a]
  <1>1. h \in HarborAccesses /\ Accepted(pass.ha) /\ pass \in Pass /\ PassOK
    BY Zenon, Split DEF ensureFinalizer, PassOK, PassNamed, NormalPCs
  <1>2. CASE ~Current(pass.ha, h) /\ Failed /\ UNCHANGED <<ha, spent>>
    BY Zenon, <1>1, <1>2, FailedType, Split, Join, Unchanged DEF ensureFinalizer, apiVars
  <1>3. CASE /\ Current(pass.ha, h) /\ ha' = [ha EXCEPT ![h] = a]
             /\ Answered("lookup", p)
    <2>1. a \in HarborAccess
      <3>1. pass.ha \in HarborAccess
        BY Zenon, <1>1 DEF Pass
      <3> QED BY Zenon, <1>1, <3>1, Split, FinType, BumpedType
    <2>2. p \in Pass /\ p.h = h /\ p.ha = a
      <3> HIDE DEF a
      <3> QED BY <1>1, <2>1, Zenon DEF Pass
    <2>3. Accepted(a)
      <3>1. pass.ha \in HarborAccess
        BY <1>1 DEF Pass
      <3>2. a.ok = pass.ha.ok /\ a.sa = pass.ha.sa
        BY <3>1, Zenon DEF Bumped, HarborAccess
      <3> QED BY Zenon, <1>1, <3>2 DEF Accepted
    <2>4. "lookup" \in PCs
      BY Zenon DEF PCs, NormalPCs
    <2>5. PassOK' /\ SpentOK'
      <3> HIDE DEF a, p
      <3> QED BY Zenon, <1>1, <1>3, <2>2, <2>3, <2>4, Split, AnsweredType
    <2>6. APIOK'
      <3> HIDE DEF a
      <3> QED BY Zenon, <1>1, <1>3, <2>1, Split DEF APIOK, ensureFinalizer
    <2> QED BY Zenon, <2>5, <2>6, Split, Join, Unchanged DEF ensureFinalizer
  <1> QED BY Zenon, <1>2, <1>3 DEF ensureFinalizer

LEMMA dropSecretType ==
    ASSUME TypeInv, dropSecret
    PROVE  TypeInv'
  <1> DEFINE p == [pass EXCEPT !.sec.exists = FALSE]
  <1>1. pass.h \in HarborAccesses /\ Accepted(pass.ha) /\ pass \in Pass /\ PassOK
    BY Zenon, Split DEF dropSecret, PassOK, PassNamed, NormalPCs
  <1>2. Like(p, pass) /\ "resumeRotate" \in PCs
    <2>1. pass.sec \in Secret
      BY Zenon, <1>1 DEF Pass
    <2>2. [pass.sec EXCEPT !.exists = FALSE] \in Secret
      BY <2>1, Zenon DEF Secret
    <2>3. Like([pass EXCEPT !.sec = [pass.sec EXCEPT !.exists = FALSE]], pass)
      BY Zenon, <1>1, <2>2, PassUpdates
    <2> QED BY Zenon, <2>3 DEF PCs, NormalPCs
  <1> HIDE DEF p
  <1>3. CASE Goto("resumeRotate", p) /\ UNCHANGED <<secret, spent>>
    BY Zenon, <1>1, <1>2, <1>3, GotoType, Split, Join, Unchanged DEF dropSecret, apiVars
  <1>4. CASE DeleteSecret(pass.h) /\ Answered("resumeRotate", p)
    <2>1. PassOK' /\ SpentOK'
      BY Zenon, <1>1, <1>2, <1>4, AnsweredType, Split DEF Like
    <2>2. APIOK'
      BY Zenon, <1>4, DeleteSecretType, Split DEF dropSecret
    <2> QED BY Zenon, <2>1, <2>2, Split, Join, Unchanged DEF dropSecret
  <1>5. CASE Failed /\ UNCHANGED <<secret, spent>>
    BY Zenon, <1>1, <1>5, FailedType, Split, Join, Unchanged DEF dropSecret, apiVars
  <1> QED BY Zenon, <1>3, <1>4, <1>5 DEF dropSecret, p

LEMMA RotateRobotType ==
    ASSUME TypeInv, NEW from \in NormalPCs, NEW to \in NormalPCs, RotateRobot(from, to)
    PROVE  TypeInv'
  <1>1. /\ pass.h \in HarborAccesses /\ Accepted(pass.ha) /\ pass \in Pass
        /\ PassOK /\ to \in PCs
    BY Zenon, Split DEF RotateRobot, PassOK, PassNamed, PCs, NormalPCs
  <1>2. CASE Failed /\ UNCHANGED <<robots, spent>>
    BY Zenon, <1>1, <1>2, FailedType, Split, Join, Unchanged DEF RotateRobot, harborVars
  <1>3. ASSUME NEW r \in robots, RefreshSec(r.id),
               Answered(to, [pass EXCEPT !.pw = NewPassword(r.pw)])
        PROVE  TypeInv'
    <2> DEFINE p == [pass EXCEPT !.pw = NewPassword(r.pw)]
    <2>1. NewPassword(r.pw) \in Nat
      BY Split, BridgeAssumption DEF HarborOK, Robot, NewPassword
    <2>2. Like(p, pass)
      BY Zenon, <1>1, <2>1, PassUpdates
    <2> HIDE DEF p
    <2>3. PassOK' /\ SpentOK'
      BY Zenon, <1>1, <1>3, <2>2, AnsweredType, Split DEF Like, p
    <2>4. HarborOK'
      BY Zenon, <1>3, RefreshSecType, Split DEF RotateRobot
    <2> QED BY Zenon, <2>3, <2>4, Split, Join, Unchanged DEF RotateRobot
  <1> QED BY Zenon, <1>2, <1>3 DEF RotateRobot

LEMMA UpdateRobotType ==
    ASSUME TypeInv, pc # "idle", NEW suspended \in BOOLEAN, NEW dis \in BOOLEAN,
           NEW perms \in Grants \cup {Star}, NEW to \in PCs, NEW p, Like(p, pass),
           to \in NormalPCs => Accepted(pass.ha),
           UpdateRobot(suspended, dis, perms, to, p)
    PROVE  TypeInv'
  <1>1. pass.h \in HarborAccesses /\ pass \in Pass /\ PassOK
    BY Zenon, Split DEF PassOK, PassNamed
  <1>2. CASE Failed /\ UNCHANGED <<robots, spent>>
    BY Zenon, <1>1, <1>2, FailedType, Split, Join, Unchanged DEF UpdateRobot, harborVars
  <1>3. CASE /\ PutRobot(pass.rob.id, pass.h, suspended, dis, perms)
             /\ Answered(to, p)
    <2>1. PassOK' /\ SpentOK'
      BY Zenon, <1>1, <1>3, AnsweredType, Split DEF Like
    <2>2. HarborOK'
      BY Zenon, <1>1, <1>3, PutRobotType, Split DEF UpdateRobot
    <2> QED BY Zenon, <2>1, <2>2, Split, Join, Unchanged DEF UpdateRobot
  <1> QED BY Zenon, <1>2, <1>3 DEF UpdateRobot

LEMMA UpdatesType ==
    ASSUME TypeInv, resumeEnable \/ converge \/ disableRobot
    PROVE  TypeInv'
  <1>1. /\ pass \in Pass /\ pc # "idle"
        /\ pc \in {"resumeEnable", "converge"} => Accepted(pass.ha)
    BY Zenon, Split DEF PassOK, PassNamed, NormalPCs, resumeEnable, converge, disableRobot
  <1>2. /\ pass.rob \in Robot /\ pass.ha.perms \in Grants \cup {Star}
        /\ pass.rob.disabled \in BOOLEAN /\ pass.rob.perms \in Grants \cup {Star}
    BY Zenon, <1>1, Defaults DEF Pass, HarborAccess, Robot
  <1>3. CASE resumeEnable
    <2> DEFINE p == [pass EXCEPT !.rob.disabled = FALSE, !.rob.suspended = FALSE]
    <2>2. Like(p, pass)
      BY Zenon, <1>1, ResumedLike
    <2>3. "putSecret" \in PCs
      BY Zenon DEF PCs, NormalPCs
    <2>4. UpdateRobot(FALSE, FALSE, pass.ha.perms, "putSecret", p)
      BY Zenon, <1>3 DEF resumeEnable
    <2> HIDE DEF p
    <2> QED BY Zenon, <1>1, <1>2, <1>3, <2>2, <2>3, <2>4, UpdateRobotType DEF resumeEnable
  <1>4. CASE converge
    <2>1. AfterConverge(pass, pass.rob) \in PCs
      BY Zenon DEF AfterConverge, PCs, NormalPCs
    <2> QED BY Zenon, <1>1, <1>2, <1>4, <2>1, PassUpdates, UpdateRobotType DEF converge
  <1>5. CASE disableRobot
    <2>1. "refuseStatus" \in PCs /\ "refuseStatus" \notin NormalPCs
      BY Zenon DEF PCs, ReleasePCs, NormalPCs
    <2> QED BY Zenon, <1>1, <1>2, <1>5, <2>1, PassUpdates, UpdateRobotType DEF disableRobot
  <1> QED BY Zenon, <1>3, <1>4, <1>5

LEMMA WithCredentialsType ==
    ASSUME NEW p \in Pass
    PROVE  WithCredentials(p) \in Secret
  <1>1. p.sec \in Secret /\ p.rob \in Robot /\ p.pw \in Nat
    BY Zenon, Defaults DEF Pass
  <1>2. /\ p.rob.id \in Nat /\ p.rob.name \in RobotNames
        /\ p.sec.user \in RobotNames \cup {NoName}
        /\ p.sec.pw \in Nat /\ p.sec.due \in BOOLEAN
    BY Zenon, <1>1 DEF Robot, Secret
  <1>3. ASSUME NEW i \in Nat, NEW u \in RobotNames \cup {NoName}, NEW w \in Nat,
               NEW d \in BOOLEAN
        PROVE  [p.sec EXCEPT !.stamp = "this", !.rid = i, !.user = u, !.pw = w, !.due = d]
                 \in Secret
    BY <1>1, Zenon DEF Secret
  <1> DEFINE u == IF p.pw # 0 THEN p.rob.name ELSE p.sec.user
             w == IF p.pw # 0 THEN p.pw ELSE p.sec.pw
             d == IF p.pw # 0 THEN FALSE ELSE p.sec.due
  <1>4. u \in RobotNames \cup {NoName} /\ w \in Nat /\ d \in BOOLEAN
    BY Zenon, <1>1, <1>2
  <1>5. WithCredentials(p) = [p.sec EXCEPT !.stamp = "this", !.rid = p.rob.id,
                                           !.user = u, !.pw = w, !.due = d]
    BY Zenon DEF WithCredentials
  <1> HIDE DEF u, w, d
  <1>6. [p.sec EXCEPT !.stamp = "this", !.rid = p.rob.id, !.user = u, !.pw = w, !.due = d]
          \in Secret
    BY <1>2, <1>3, <1>4, ZenonT(30)
  <1> QED BY <1>5, <1>6, Zenon

LEMMA putRobotSecretType ==
    ASSUME TypeInv, putRobotSecret
    PROVE  TypeInv'
  <1> DEFINE h == pass.h
             new == WithCredentials(pass)
             done == [pass EXCEPT !.out = ~pass.rob.disabled]
             stored == [new EXCEPT !.exists = TRUE, !.ver = secret[h].ver + 1,
                            !.uid = IF secret[h].exists THEN @ ELSE secret[h].uid + 1]
  <1>1. h \in HarborAccesses /\ Accepted(pass.ha) /\ pass \in Pass /\ PassOK
    BY Zenon, Split DEF putRobotSecret, PassOK, PassNamed, NormalPCs
  <1>2. Like(done, pass) /\ AfterSecret(pass) \in PCs
    <2>1. (~pass.rob.disabled) \in BOOLEAN
      OBVIOUS
    <2>2. AfterSecret(pass) \in PCs
      BY Zenon DEF AfterSecret, PCs, NormalPCs
    <2> QED BY Zenon, <1>1, <2>1, <2>2, PassFlags
  <1>3. stored \in Secret
    <2>1. new \in Secret
      BY Zenon, <1>1, WithCredentialsType
    <2> HIDE DEF new
    <2>2. /\ secret[h].ver + 1 \in Nat
          /\ (IF secret[h].exists THEN new.uid ELSE secret[h].uid + 1) \in Nat
      BY <1>1, <2>1, Split DEF APIOK, Secret
    <2>3. ASSUME NEW v \in Nat, NEW u \in Nat
          PROVE  [new EXCEPT !.exists = TRUE, !.ver = v, !.uid = u] \in Secret
      BY <2>1, Zenon DEF Secret
    <2> DEFINE v == secret[h].ver + 1
               u == IF secret[h].exists THEN new.uid ELSE secret[h].uid + 1
    <2>4. stored = [new EXCEPT !.exists = TRUE, !.ver = v, !.uid = u]
      BY Zenon
    <2>5. v \in Nat /\ u \in Nat
      BY Zenon, <2>2
    <2> HIDE DEF u, v, stored
    <2> QED BY Zenon, <2>3, <2>4, <2>5
  <1>4. CASE Goto(AfterSecret(pass), done) /\ UNCHANGED <<secret, spent>>
    <2> HIDE DEF done
    <2> QED BY Zenon, <1>1, <1>2, <1>4, GotoType, Split, Join, Unchanged DEF putRobotSecret, apiVars
  <1>5. CASE /\ secret' = [secret EXCEPT ![h] = stored]
             /\ Answered(AfterSecret(pass), done)
    <2>1. APIOK'
      <3> HIDE DEF stored
      <3> QED BY Zenon, <1>1, <1>3, <1>5, Split DEF APIOK, putRobotSecret
    <2>2. PassOK' /\ SpentOK'
      <3> HIDE DEF done
      <3> QED BY Zenon, <1>1, <1>2, <1>5, AnsweredType, Split DEF Like
    <2> QED BY Zenon, <2>1, <2>2, Split, Join, Unchanged DEF putRobotSecret
  <1>6. CASE Failed /\ UNCHANGED <<secret, spent>>
    BY Zenon, <1>1, <1>6, FailedType, Split, Join, Unchanged DEF putRobotSecret, apiVars
  <1>7. CASE Goto("reread", [pass EXCEPT !.tries = @ + 1]) /\ UNCHANGED <<secret, spent>>
    <2>1. Like([pass EXCEPT !.tries = @ + 1], pass) /\ "reread" \in PCs
      BY Zenon, <1>1, PassUpdates DEF PCs, NormalPCs
    <2> QED BY Zenon, <1>1, <1>7, <2>1, GotoType, Split, Join, Unchanged DEF putRobotSecret, apiVars
  <1> QED BY <1>4, <1>5, <1>6, <1>7, Zenon DEF putRobotSecret

LEMMA rereadSecretType ==
    ASSUME TypeInv, rereadSecret
    PROVE  TypeInv'
  <1>1. pass.h \in HarborAccesses /\ Accepted(pass.ha) /\ pass \in Pass /\ PassOK
    BY Zenon, Split DEF rereadSecret, PassOK, PassNamed, NormalPCs
  <1>2. CASE Failed
    BY Zenon, <1>1, <1>2, FailedType, Split, Join, Unchanged DEF rereadSecret
  <1>3. CASE Goto("putSecret", [pass EXCEPT !.sec = secret[pass.h]])
    <2>1. Like([pass EXCEPT !.sec = secret[pass.h]], pass) /\ "putSecret" \in PCs
      BY Zenon, <1>1, PassUpdates, Split DEF APIOK, PCs, NormalPCs
    <2> QED BY Zenon, <1>1, <1>3, <2>1, GotoType, Split, Join, Unchanged DEF rereadSecret
  <1> QED BY Zenon, <1>2, <1>3 DEF rereadSecret

LEMMA ListRobotsType ==
    ASSUME TypeInv, NEW from \in PCs \ {"idle"}, NEW keep, NEW each \in PCs, NEW after \in PCs,
           {each, after} \cap NormalPCs # {} => from \in NormalPCs,
           ListRobots(from, keep, each, after)
    PROVE  TypeInv'
  <1> DEFINE gone == {r.id : r \in Owned(pass.h)} \ keep
             at == IF gone = {} THEN after ELSE each
             p == [pass EXCEPT !.todo = gone]
  <1>1. /\ pass.h \in HarborAccesses /\ pass \in Pass /\ PassOK
        /\ at \in PCs /\ (at \in NormalPCs => Accepted(pass.ha))
    BY Zenon, Split DEF ListRobots, PassOK, PassNamed
  <1>2. Like(p, pass)
    <2>1. gone \in SUBSET Nat
      BY Split DEF Owned, HarborOK, Robot
    <2> HIDE DEF gone
    <2> QED BY Zenon, <1>1, <2>1, PassUpdates
  <1>3. Goto(at, p)
    BY Zenon DEF ListRobots
  <1> HIDE DEF at, p
  <1> QED BY Zenon, <1>1, <1>2, <1>3, GotoType, Split, Join, Unchanged DEF ListRobots

LEMMA DeleteListedType ==
    ASSUME TypeInv, NEW from \in PCs \ {"idle"}, NEW after \in PCs,
           after \in NormalPCs => from \in NormalPCs, DeleteListed(from, after)
    PROVE  TypeInv'
  <1>1. PICK id \in pass.todo :
           /\ DeleteRobots({id})
           /\ Answered(IF pass.todo \ {id} = {} THEN after ELSE from,
                       [pass EXCEPT !.todo = pass.todo \ {id}])
    BY Zenon DEF DeleteListed
  <1> DEFINE at == IF pass.todo \ {id} = {} THEN after ELSE from
             p == [pass EXCEPT !.todo = pass.todo \ {id}]
  <1>2. /\ pass.h \in HarborAccesses /\ pass \in Pass /\ PassOK
        /\ at \in PCs /\ (at \in NormalPCs => Accepted(pass.ha))
    BY Zenon, Split DEF DeleteListed, PassOK, PassNamed
  <1>3. Like(p, pass)
    <2>1. pass.todo \ {id} \in SUBSET Nat
      BY Zenon, <1>2 DEF Pass
    <2> QED BY Zenon, <1>2, <2>1, PassUpdates
  <1>4. Answered(at, p)
    BY Zenon, <1>1
  <1> HIDE DEF at, p
  <1>5. PassOK' /\ SpentOK'
    BY Zenon, <1>2, <1>3, <1>4, AnsweredType, Split DEF Like
  <1>6. HarborOK'
    BY Zenon, <1>1, DeleteRobotsType, Split DEF DeleteListed
  <1> QED BY Zenon, <1>5, <1>6, Split, Join, Unchanged DEF DeleteListed

LEMMA markStatusType ==
    ASSUME TypeInv, markStatus
    PROVE  TypeInv'
  <1>1. pass.h \in HarborAccesses /\ pass \in Pass /\ APIOK
    BY Zenon, Split DEF markStatus, PassOK, PassNamed
  <1>2. (pc = "status" /\ pass.out) \in BOOLEAN
    OBVIOUS
  <1>3. APIOK'
    BY Zenon, <1>1, <1>2, UpdateStatusType DEF markStatus
  <1> QED BY Zenon, <1>3, DoneType, Split, Join, Unchanged DEF markStatus

LEMMA refuseSecretType ==
    ASSUME TypeInv, refuseSecret
    PROVE  TypeInv'
  <1> DEFINE at == AfterOwnSecret(pass)
             failed == [pass EXCEPT !.err = TRUE]
  <1>1. pass.h \in HarborAccesses /\ pass \in Pass /\ PassOK
    BY Zenon, Split DEF refuseSecret, PassOK, PassNamed
  <1>2. at \in PCs /\ at \notin NormalPCs /\ Like(failed, pass) /\ Like(pass, pass)
    BY Zenon, <1>1, PassFlags, PassUpdates DEF AfterOwnSecret, PCs, NormalPCs, SuspendPCs, ReleasePCs
  <1>3. APIOK'
    <2>1. CASE DeleteOwnSecret
      BY Zenon, <2>1, DeleteOwnSecretType, Split DEF refuseSecret
    <2>2. CASE UNCHANGED secret
      BY Zenon, <2>2, Split, Unchanged DEF refuseSecret, apiVars
    <2> QED BY Zenon, <2>1, <2>2 DEF refuseSecret
  <1>4. SpentOK'
    BY Zenon, Split, Unchanged, SpendType DEF refuseSecret, Fault
  <1>5. Goto(at, pass) \/ Goto(at, failed)
    BY Zenon DEF refuseSecret
  <1> HIDE DEF at, failed
  <1>6. PassOK'
    BY Zenon, <1>1, <1>2, <1>5, GotoType
  <1> QED BY Zenon, <1>3, <1>4, <1>6, Split, Join, Unchanged DEF refuseSecret

LEMMA suspendLookupType ==
    ASSUME TypeInv, suspendLookup
    PROVE  TypeInv'
  <1>1. pass.h \in HarborAccesses /\ pass \in Pass /\ PassOK
    BY Zenon, Split DEF suspendLookup, PassOK, PassNamed
  <1>2. PassOK'
    <2>1. CASE Goto("refuseStatus", [pass EXCEPT !.free = ~pass.err])
      <3>1. Like([pass EXCEPT !.free = ~pass.err], pass)
        <4>1. (~pass.err) \in BOOLEAN
          OBVIOUS
        <4> QED BY Zenon, <1>1, <4>1, PassFlags
      <3>2. "refuseStatus" \in PCs /\ "refuseStatus" \notin NormalPCs
        BY Zenon DEF PCs, NormalPCs, ReleasePCs
      <3> QED BY Zenon, <1>1, <2>1, <3>1, <3>2, GotoType
    <2>2. ASSUME NEW r \in robots, NEW at \in {"refuseStatus", "disable", "revoke"},
                 Goto(at, [pass EXCEPT !.rob = Seen(r)])
          PROVE  PassOK'
      <3>1. Like([pass EXCEPT !.rob = Seen(r)], pass)
        <4>1. r \in Robot
          BY Zenon, Split DEF HarborOK
        <4> QED BY Zenon, <1>1, <4>1, SeenType, PassUpdates
      <3>2. at \in PCs /\ at \notin NormalPCs
        BY Zenon DEF PCs, NormalPCs, ReleasePCs, SuspendPCs
      <3> QED BY Zenon, <1>1, <2>2, <3>1, <3>2, GotoType
    <2> QED BY Zenon, <2>1, <2>2 DEF suspendLookup
  <1> QED BY Zenon, <1>2, Split, Join, Unchanged DEF suspendLookup

LEMMA revokeRobotType ==
    ASSUME TypeInv, revokeRobot
    PROVE  TypeInv'
  <1> DEFINE p == [pass EXCEPT !.free = ~pass.err]
  <1>1. pass.h \in HarborAccesses /\ pass \in Pass /\ PassOK
    BY Zenon, Split DEF revokeRobot, PassOK, PassNamed
  <1>2. Like(p, pass)
    <2>1. (~pass.err) \in BOOLEAN
      OBVIOUS
    <2> QED BY Zenon, <1>1, <2>1, PassFlags
  <1>3. "refuseStatus" \in PCs /\ "refuseStatus" \notin NormalPCs
    BY DEF PCs, NormalPCs, ReleasePCs
  <1>4. Answered("refuseStatus", p)
    BY Zenon DEF revokeRobot
  <1> HIDE DEF p
  <1>5. PassOK' /\ SpentOK'
    BY Zenon, <1>1, <1>2, <1>3, <1>4, AnsweredType, Split DEF Like
  <1>6. HarborOK'
    BY Zenon, DeleteRobotsType, Split DEF revokeRobot
  <1> QED BY Zenon, <1>5, <1>6, Split, Join, Unchanged DEF revokeRobot

LEMMA refuseStatusType ==
    ASSUME TypeInv, refuseStatus
    PROVE  TypeInv'
  <1> DEFINE a == Written(StatusAs(FALSE))
             p == [pass EXCEPT !.ha = a]
  <1>1. pass.h \in HarborAccesses /\ pass \in Pass /\ APIOK
    BY Zenon, Split DEF refuseStatus, PassOK, PassNamed
  <1>2. a \in HarborAccess
    BY Zenon, <1>1, WrittenType
  <1> HIDE DEF a
  <1>3. p \in Pass /\ p.h = pass.h
    BY <1>1, <1>2, Zenon DEF Pass
  <1>4. "releaseList" \in PCs /\ "releaseList" \notin NormalPCs
    BY Zenon DEF PCs, NormalPCs, ReleasePCs
  <1>5. Goto("releaseList", p) \/ Done
    BY Zenon DEF refuseStatus, a
  <1> HIDE DEF p
  <1>6. PassOK'
    BY Zenon, <1>1, <1>3, <1>4, <1>5, DoneType DEF Goto, PassOK, PassNamed
  <1>7. APIOK'
    BY Zenon, <1>1, UpdateStatusType DEF refuseStatus
  <1> QED BY Zenon, <1>6, <1>7, Split, Join, Unchanged DEF refuseStatus

LEMMA releaseListType ==
    ASSUME TypeInv, releaseList
    PROVE  TypeInv'
  <1>1. pass.h \in HarborAccesses /\ pass \in Pass /\ PassOK
    BY Zenon, Split DEF releaseList, PassOK, PassNamed
  <1>2. "releasePatch" \in PCs /\ "releasePatch" \notin NormalPCs
    BY Zenon DEF PCs, NormalPCs, ReleasePCs
  <1>3. PassOK'
    BY Zenon, <1>1, <1>2, DoneType, GotoType, PassUpdates DEF releaseList
  <1> QED BY Zenon, <1>3, Split, Join, Unchanged DEF releaseList

LEMMA RemoveFinalizerType ==
    ASSUME TypeInv, NEW from \in PCs \ {"idle"}, RemoveFinalizer(from)
    PROVE  TypeInv'
  <1>1. pass.h \in HarborAccesses /\ APIOK
    BY Zenon, Split DEF RemoveFinalizer, PassOK, PassNamed
  <1>2. APIOK'
    BY Zenon, <1>1, WithoutFinalizerType DEF RemoveFinalizer, APIOK
  <1> QED BY Zenon, <1>2, DoneType, Split, Join, Unchanged DEF RemoveFinalizer

LEMMA deleteSecretType ==
    ASSUME TypeInv, deleteSecret
    PROVE  TypeInv'
  <1>1. pass.h \in HarborAccesses /\ pass \in Pass /\ PassOK
    BY Zenon, Split DEF deleteSecret, PassOK, PassNamed
  <1>2. "delPatch" \in PCs /\ "delPatch" \notin NormalPCs
    BY Zenon DEF PCs, NormalPCs, DeletePCs
  <1>3. PassOK' /\ SpentOK'
    BY Zenon, <1>1, <1>2, AnsweredType, Split DEF deleteSecret
  <1>4. APIOK'
    BY Zenon, DeleteOwnSecretType, Split DEF deleteSecret
  <1> QED BY Zenon, <1>3, <1>4, Split, Join, Unchanged DEF deleteSecret

LEMMA PassStepType ==
    ASSUME TypeInv, PassStep \/ CallFails
    PROVE  TypeInv'
  <1>1. CASE CallFails
    BY Zenon, <1>1, FailedType, SpendType, Split, Join, Unchanged DEF CallFails, Fault
  <1>2. CASE resumeRotate \/ rotate
    <2>1. {"resumeRotate", "resumeEnable", "rotate", "putSecret"} \subseteq NormalPCs
      BY Zenon DEF NormalPCs
    <2> QED BY Zenon, <1>2, <2>1, RotateRobotType DEF resumeRotate, rotate
  <1>3. CASE listStaleRobots \/ deleteStaleRobots
    <2>1. /\ {"listStale", "delStale", "status"} \subseteq PCs \ {"idle"}
          /\ {"listStale", "delStale"} \subseteq NormalPCs
      BY Zenon DEF PCs, NormalPCs
    <2> QED BY Zenon, <1>3, <2>1, ListRobotsType, DeleteListedType
            DEF listStaleRobots, deleteStaleRobots
  <1>4. CASE deleteList \/ deleteRobots
    <2>1. /\ {"delList", "delRobots", "delSecret"} \subseteq PCs \ {"idle"}
          /\ {"delRobots", "delSecret"} \cap NormalPCs = {}
      BY Zenon DEF PCs, NormalPCs, DeletePCs
    <2> QED BY Zenon, <1>4, <2>1, ListRobotsType, DeleteListedType DEF deleteList, deleteRobots
  <1>5. CASE releasePatch \/ deletePatch
    <2>1. {"releasePatch", "delPatch"} \subseteq PCs \ {"idle"}
      BY Zenon DEF PCs, ReleasePCs, DeletePCs
    <2> QED BY Zenon, <1>5, <2>1, RemoveFinalizerType DEF releasePatch, deletePatch
  <1> QED BY ZenonT(30), <1>1, <1>2, <1>3, <1>4, <1>5, getRobotSecretType, ensureFinalizerType,
             lookupRobotType, createRobotType, dropSecretType, UpdatesType,
             putRobotSecretType, rereadSecretType, markStatusType, refuseSecretType,
             suspendLookupType, revokeRobotType, refuseStatusType, releaseListType,
             deleteSecretType
          DEF PassStep

(***************************************************************************)
(* The actions of the Janitor keep the types.                              *)
(***************************************************************************)
LEMMA SweepOnType ==
    ASSUME NEW at \in SweepPCs, NEW s \in Sweep, Continue(at, s) \/ SweepOn(at, s) \/ SweepDone
    PROVE  SweepOK'
  BY Zenon, NoSweepType DEF Continue, SweepOn, SweepDone, SweepOK, SweepPCs

LEMMA AfterType ==
    ASSUME NEW s
    PROVE  /\ AfterRobot(s) \in SweepPCs /\ AfterRobots(s) \in SweepPCs
           /\ (IF s.owners # {} THEN "release" ELSE "idle") \in SweepPCs
  BY Zenon DEF AfterRobot, AfterRobots, AfterSecrets, SweepPCs

LEMMA SweepUpdates ==
    ASSUME NEW s \in Sweep
    PROVE  /\ \A x \in SUBSET Listed : [s EXCEPT !.robots = x] \in Sweep
           /\ \A x \in SUBSET SecretKey : [s EXCEPT !.secrets = x] \in Sweep
           /\ \A x \in SUBSET [h: HarborAccesses, ver: Nat] : [s EXCEPT !.owners = x] \in Sweep
           /\ \A x \in Nat : [s EXCEPT !.id = x] \in Sweep
           /\ \A x \in Nat : [s EXCEPT !.since = x] \in Sweep
           /\ \A x \in SecretKey : [s EXCEPT !.sec = x] \in Sweep
  <1>1. ASSUME NEW x \in SUBSET Listed PROVE [s EXCEPT !.robots = x] \in Sweep
    BY Zenon DEF Sweep
  <1>2. ASSUME NEW x \in SUBSET SecretKey PROVE [s EXCEPT !.secrets = x] \in Sweep
    BY Zenon DEF Sweep
  <1>3. ASSUME NEW x \in SUBSET [h: HarborAccesses, ver: Nat]
        PROVE  [s EXCEPT !.owners = x] \in Sweep
    BY Zenon DEF Sweep
  <1>4. ASSUME NEW x \in Nat
        PROVE  [s EXCEPT !.id = x] \in Sweep /\ [s EXCEPT !.since = x] \in Sweep
    BY Zenon DEF Sweep
  <1>5. ASSUME NEW x \in SecretKey PROVE [s EXCEPT !.sec = x] \in Sweep
    BY Zenon DEF Sweep
  <1> QED BY Zenon, <1>1, <1>2, <1>3, <1>4, <1>5

LEMMA SweepFields ==
    ASSUME SweepOK
    PROVE  /\ sweep \in Sweep /\ sweep.robots \in SUBSET Listed
           /\ sweep.secrets \in SUBSET SecretKey
           /\ sweep.owners \in SUBSET [h: HarborAccesses, ver: Nat]
  BY Zenon DEF SweepOK, Sweep

LEMMA sweepListRobotsType ==
    ASSUME TypeInv, sweepListRobots
    PROVE  TypeInv'
  <1> DEFINE n == spent.edits
             s1 == [NoSweep EXCEPT !.listed = TRUE, !.robots = Candidates, !.since = n]
             s2 == [NoSweep EXCEPT !.since = n]
  <1>1. Candidates \in SUBSET Listed
    BY Split DEF Candidates, Listed, HarborOK, Robot
  <1>2. n \in Nat
    BY Zenon, Split DEF SpentOK
  <1> HIDE DEF n
  <1>3. s1 \in Sweep /\ s2 \in Sweep
    BY <1>1, <1>2, NoSweepType, Zenon DEF Sweep
  <1>4. SweepOn("owners", s1) \/ SweepOn("owners", s2)
    BY Zenon DEF sweepListRobots, n
  <1> HIDE DEF s1, s2
  <1>5. SweepOK'
    BY Zenon, <1>3, <1>4, SweepOnType DEF SweepPCs
  <1>6. SpentOK'
    BY Zenon, SpendType, Split, Unchanged DEF sweepListRobots, Fault
  <1> QED BY Zenon, <1>5, <1>6, Split, Join, Unchanged DEF sweepListRobots

LEMMA listOwnersType ==
    ASSUME TypeInv, listOwners
    PROVE  TypeInv'
  <1> DEFINE rs == {r \in sweep.robots : robotVerdict(r, liveOwner(r.owner))}
             ks == {k \in listRobotSecrets : secretVerdict(k.stamp, liveOwner(k.h))}
             os == {[h |-> h, ver |-> liveOwner(h).ver] :
                      h \in {k \in HarborAccesses : Releasable(liveOwner(k))}}
             s == [sweep EXCEPT !.robots = rs, !.secrets = ks, !.owners = os]
  <1>1. rs \in SUBSET Listed /\ sweep \in Sweep
    BY Zenon, SweepFields, Split
  <1>2. ks \in SUBSET SecretKey
    BY Split DEF listRobotSecrets, SecretKey, APIOK, Secret
  <1>3. os \in SUBSET [h: HarborAccesses, ver: Nat]
    BY Split DEF liveOwner, APIOK, HarborAccess
  <1> HIDE DEF rs, ks, os
  <1>4. s \in Sweep
    BY <1>1, <1>2, <1>3, Zenon DEF Sweep
  <1>5. Continue(AfterRobot(s), s) \/ SweepDone
    BY Zenon DEF listOwners, rs, ks, os
  <1> HIDE DEF s
  <1>6. SweepOK'
    BY Zenon, <1>4, <1>5, SweepOnType, AfterType
  <1>7. SpentOK'
    BY Zenon, SpendType, Split, Unchanged DEF listOwners, Fault
  <1> QED BY Zenon, <1>6, <1>7, Split, Join, Unchanged DEF listOwners

LEMMA recheckRobotType ==
    ASSUME TypeInv, recheckRobot
    PROVE  TypeInv'
  <1>1. PICK r \in sweep.robots :
           LET s == [sweep EXCEPT !.robots = @ \ {r}] IN
           SweepOn("delRobot", [s EXCEPT !.id = r.id]) \/ Continue(AfterRobot(s), s)
    BY Zenon DEF recheckRobot
  <1> DEFINE s == [sweep EXCEPT !.robots = sweep.robots \ {r}]
  <1>2. s \in Sweep
    <2>1. sweep.robots \ {r} \in SUBSET Listed /\ sweep \in Sweep
      BY Zenon, SweepFields, Split
    <2> QED BY Zenon, <2>1, SweepUpdates
  <1>3. SweepOn("delRobot", [s EXCEPT !.id = r.id]) \/ Continue(AfterRobot(s), s)
    BY Zenon, <1>1
  <1> HIDE DEF s
  <1>4. [s EXCEPT !.id = r.id] \in Sweep
    <2>1. r.id \in Nat
      BY Zenon, SweepFields, Split DEF Listed
    <2> QED BY Zenon, <1>2, <2>1, SweepUpdates
  <1>5. SweepOK'
    BY Zenon, <1>2, <1>3, <1>4, SweepOnType, AfterType DEF SweepPCs
  <1>6. SpentOK'
    BY Zenon, SpendType, Split, Unchanged DEF recheckRobot, Fault
  <1> QED BY Zenon, <1>5, <1>6, Split, Join, Unchanged DEF recheckRobot

LEMMA deleteRobotType ==
    ASSUME TypeInv, deleteRobot
    PROVE  TypeInv'
  <1> DEFINE s == [sweep EXCEPT !.id = 0]
  <1>1. s \in Sweep
    BY Zenon, SweepFields, SweepUpdates, Split
  <1>2. Continue(AfterRobot(s), s)
    BY Zenon DEF deleteRobot
  <1> HIDE DEF s
  <1>3. SweepOK'
    BY Zenon, <1>1, <1>2, SweepOnType, AfterType
  <1>4. HarborOK' /\ SpentOK'
    <2>1. CASE DeleteRobots({sweep.id}) /\ UNCHANGED spent
      BY Zenon, <2>1, DeleteRobotsType, Split, Unchanged DEF deleteRobot
    <2>2. CASE UNCHANGED robots /\ Fault
      BY Zenon, <2>2, SpendType, Split, Unchanged DEF deleteRobot, harborVars, Fault
    <2> QED BY Zenon, <2>1, <2>2 DEF deleteRobot
  <1> QED BY Zenon, <1>3, <1>4, Split, Join, Unchanged DEF deleteRobot

LEMMA recheckSecretType ==
    ASSUME TypeInv, recheckSecret
    PROVE  TypeInv'
  <1>1. PICK k \in sweep.secrets :
           LET s == [sweep EXCEPT !.secrets = @ \ {k}] IN
           SweepOn("delSecret", [s EXCEPT !.sec = k]) \/ Continue(AfterRobots(s), s)
    BY Zenon DEF recheckSecret
  <1> DEFINE s == [sweep EXCEPT !.secrets = sweep.secrets \ {k}]
  <1>2. s \in Sweep
    <2>1. sweep.secrets \ {k} \in SUBSET SecretKey /\ sweep \in Sweep
      BY Zenon, SweepFields, Split
    <2> QED BY Zenon, <2>1, SweepUpdates
  <1>3. SweepOn("delSecret", [s EXCEPT !.sec = k]) \/ Continue(AfterRobots(s), s)
    BY Zenon, <1>1
  <1> HIDE DEF s
  <1>4. [s EXCEPT !.sec = k] \in Sweep
    <2>1. k \in SecretKey
      BY Zenon, SweepFields, Split
    <2> QED BY Zenon, <1>2, <2>1, SweepUpdates
  <1>5. SweepOK'
    BY Zenon, <1>2, <1>3, <1>4, SweepOnType, AfterType DEF SweepPCs
  <1>6. SpentOK'
    BY Zenon, SpendType, Split, Unchanged DEF recheckSecret, Fault
  <1> QED BY Zenon, <1>5, <1>6, Split, Join, Unchanged DEF recheckSecret

LEMMA deleteOrphanSecretType ==
    ASSUME TypeInv, deleteOrphanSecret
    PROVE  TypeInv'
  <1> DEFINE s == [sweep EXCEPT !.sec = NoSweep.sec]
  <1>1. s \in Sweep
    <2>1. NoSweep.sec \in SecretKey
      BY Zenon, NoSweepType DEF Sweep
    <2> QED BY Zenon, <2>1, SweepFields, SweepUpdates, Split
  <1>2. Continue(AfterRobots(s), s)
    BY Zenon DEF deleteOrphanSecret
  <1> HIDE DEF s
  <1>3. SweepOK'
    BY Zenon, <1>1, <1>2, SweepOnType, AfterType
  <1>4. APIOK'
    <2>1. CASE DeleteSecret(sweep.sec.h)
      BY Zenon, <2>1, DeleteSecretType, Split DEF deleteOrphanSecret
    <2>2. CASE UNCHANGED secret
      BY Zenon, <2>2, Split, Unchanged DEF deleteOrphanSecret, apiVars
    <2> QED BY Zenon, <2>1, <2>2 DEF deleteOrphanSecret
  <1>5. SpentOK'
    BY Zenon, SpendType, Split, Unchanged DEF deleteOrphanSecret, Fault
  <1> QED BY Zenon, <1>3, <1>4, <1>5, Split, Join, Unchanged DEF deleteOrphanSecret

LEMMA relistRobotsType ==
    ASSUME TypeInv, relistRobots
    PROVE  TypeInv'
  <1> DEFINE os == {k \in sweep.owners : Owned(k.h) = {}}
             s == [sweep EXCEPT !.owners = os]
             at == IF s.owners # {} THEN "release" ELSE "idle"
  <1>1. s \in Sweep
    <2>1. os \in SUBSET [h: HarborAccesses, ver: Nat] /\ sweep \in Sweep
      BY Zenon, SweepFields, Split
    <2> HIDE DEF os
    <2> QED BY Zenon, <2>1, SweepUpdates
  <1>2. Continue(at, s) \/ SweepDone
    BY Zenon DEF relistRobots
  <1>3. at \in SweepPCs
    BY Zenon DEF SweepPCs
  <1> HIDE DEF s, at
  <1>4. SweepOK'
    BY Zenon, <1>1, <1>2, <1>3, SweepOnType
  <1>5. SpentOK'
    BY Zenon, SpendType, Split, Unchanged DEF relistRobots, Fault
  <1> QED BY Zenon, <1>4, <1>5, Split, Join, Unchanged DEF relistRobots

LEMMA releaseUnselectedType ==
    ASSUME TypeInv, releaseUnselected
    PROVE  TypeInv'
  <1>1. PICK k \in sweep.owners :
           /\ \/ ha' = IF Current([ver |-> k.ver], k.h)
                       THEN [ha EXCEPT ![k.h] = WithoutFinalizer(k.h)] ELSE ha
              \/ UNCHANGED ha
           /\ LET s == [sweep EXCEPT !.owners = @ \ {k}] IN
              Continue(IF s.owners # {} THEN "release" ELSE "idle", s)
    BY Zenon DEF releaseUnselected
  <1> DEFINE s == [sweep EXCEPT !.owners = sweep.owners \ {k}]
             at == IF s.owners # {} THEN "release" ELSE "idle"
  <1>2. s \in Sweep
    <2>1. sweep.owners \ {k} \in SUBSET [h: HarborAccesses, ver: Nat] /\ sweep \in Sweep
      BY Zenon, SweepFields, Split
    <2> QED BY Zenon, <2>1, SweepUpdates
  <1>3. Continue(at, s) /\ at \in SweepPCs
    BY Zenon, <1>1 DEF SweepPCs
  <1> HIDE DEF s, at
  <1>4. SweepOK'
    BY Zenon, <1>2, <1>3, SweepOnType
  <1>5. APIOK'
    <2>1. k.h \in HarborAccesses /\ APIOK
      BY Zenon, SweepFields, Split
    <2>2. WithoutFinalizer(k.h) \in HarborAccess
      BY Zenon, <2>1, WithoutFinalizerType
    <2> QED BY ZenonT(30), <1>1, <2>1, <2>2 DEF APIOK, releaseUnselected
  <1>6. SpentOK'
    BY Zenon, SpendType, Split, Unchanged DEF releaseUnselected, Fault
  <1> QED BY Zenon, <1>4, <1>5, <1>6, Split, Join, Unchanged DEF releaseUnselected

(***************************************************************************)
(* Users, administrators, time and crashes keep the types.                 *)
(***************************************************************************)
LEMMA UserType ==
    ASSUME TypeInv, NEW h \in HarborAccesses,
           CreateHA(h) \/ EditSpec(h) \/ Relabel(h) \/ DeleteHA(h)
    PROVE  TypeInv'
  <1>1. APIOK /\ ha[h] \in HarborAccess /\ ha[h].ver + 1 \in Nat
    BY Split DEF APIOK, HarborAccess
  <1>2. \E x \in HarborAccess : ha' = [ha EXCEPT ![h] = x]
    <2>1. CASE CreateHA(h)
      BY Zenon, <1>1, <2>1, FreshType DEF CreateHA
    <2>2. CASE EditSpec(h)
      <3>1. PICK s \in Specs : ha' = [ha EXCEPT ![h] = Bumped(WithSpec(ha[h], s), h)]
        BY Zenon, <1>1, <2>2 DEF EditSpec, APIOK
      <3> QED BY Zenon, <1>1, <3>1, WithSpecType, BumpedType
    <2>3. CASE Relabel(h)
      <3> DEFINE x == [ha[h] EXCEPT !.sel = ~ha[h].sel]
      <3>1. x \in HarborAccess
        <4>1. (~ha[h].sel) \in BOOLEAN
          OBVIOUS
        <4> QED BY <1>1, <4>1, ZenonT(30) DEF HarborAccess
      <3>2. ha' = [ha EXCEPT ![h] = Bumped(x, h)]
        BY <2>3, Zenon DEF Relabel
      <3> HIDE DEF x
      <3> QED BY Zenon, <1>1, <3>1, <3>2, BumpedType
    <2>4. CASE DeleteHA(h)
      <3>1. [ha[h] EXCEPT !.del = TRUE] \in HarborAccess
        BY <1>1, Zenon DEF HarborAccess
      <3>2. \/ ha' = [ha EXCEPT ![h] = Bumped([ha[h] EXCEPT !.del = TRUE], h)]
            \/ ha' = [ha EXCEPT ![h] = Absent(ha[h].ver + 1)]
        BY Zenon, <1>1, <2>4 DEF DeleteHA, APIOK
      <3> QED BY Zenon, <1>1, <3>1, <3>2, BumpedType, Defaults
    <2> QED BY Zenon, <2>1, <2>2, <2>3, <2>4
  <1>3. APIOK'
    BY Zenon, <1>1, <1>2 DEF APIOK, CreateHA, EditSpec, Relabel, DeleteHA, UserVars
  <1>4. SpentOK'
    BY Zenon, SpendType, Split DEF CreateHA, EditSpec, Relabel, DeleteHA
  <1> QED BY Zenon, <1>3, <1>4, Split, Join, Unchanged
          DEF CreateHA, EditSpec, Relabel, DeleteHA, UserVars

LEMMA AdminRobotType ==
    ASSUME TypeInv, AdminRobot
    PROVE  TypeInv'
  <1>1. PICK r \in robots :
           \/ RobotAsOf(r, [r EXCEPT !.disabled = TRUE, !.adminOff = TRUE])
           \/ RobotAsOf(r, [r EXCEPT !.disabled = FALSE, !.adminOff = FALSE])
           \/ DeleteRobots({r.id})
           \/ RobotAsOf(r, [r EXCEPT !.perms = Star])
    BY Zenon DEF AdminRobot
  <1>2. r \in Robot /\ HarborOK
    BY Zenon, Split DEF HarborOK
  <1>3. ASSUME NEW b \in BOOLEAN
        PROVE  LET q == [r EXCEPT !.disabled = b, !.adminOff = b] IN
               q \in Robot /\ q.id = r.id
    BY <1>2, Zenon DEF Robot
  <1>4. [r EXCEPT !.perms = Star] \in Robot /\ [r EXCEPT !.perms = Star].id = r.id
    BY <1>2, Zenon DEF Robot
  <1>5. ASSUME NEW q \in Robot, q.id = r.id, RobotAsOf(r, q)
        PROVE  HarborOK'
    BY Zenon, <1>2, <1>5 DEF RobotAsOf, HarborOK, AdminRobot
  <1>6. HarborOK'
    <2>1. CASE DeleteRobots({r.id})
      BY Zenon, <1>2, <2>1, DeleteRobotsType DEF AdminRobot
    <2>2. CASE \E b \in BOOLEAN : RobotAsOf(r, [r EXCEPT !.disabled = b, !.adminOff = b])
      BY Zenon, <1>3, <1>5, <2>2
    <2>3. CASE RobotAsOf(r, [r EXCEPT !.perms = Star])
      BY Zenon, <1>4, <1>5, <2>3
    <2> QED BY <1>1, <2>1, <2>2, <2>3, Zenon
  <1>7. SpentOK'
    BY Zenon, SpendType, Split DEF AdminRobot, ByAdmin
  <1> QED BY Zenon, <1>6, <1>7, Split, Join, Unchanged DEF AdminRobot

LEMMA PlantRobotType ==
    ASSUME TypeInv, PlantRobot
    PROVE  TypeInv'
  <1>1. PICK n \in RobotNames, o \in {Foreign, Unclaimed} :
           robots' = robots \cup {[NoRobot EXCEPT !.id = nextID, !.name = n, !.owner = o, !.pw = nextID]}
    BY Zenon DEF PlantRobot
  <1> DEFINE new == [NoRobot EXCEPT !.id = nextID, !.name = n, !.owner = o, !.pw = nextID]
  <1>2. new \in Robot /\ new.id = nextID
    <2>1. NoRobot \in Robot /\ nextID \in Nat
      BY Zenon, Defaults, Split DEF HarborOK
    <2> QED BY <2>1, Zenon DEF Robot
  <1>3. robots' = robots \cup {new} /\ nextID' = nextID + 1
    BY Zenon, <1>1 DEF PlantRobot
  <1> HIDE DEF new
  <1>4. HarborOK'
    BY Zenon, <1>2, <1>3, AddRobotType, Split
  <1>5. SpentOK'
    BY Zenon, SpendType, Split DEF PlantRobot, ByAdmin
  <1> QED BY Zenon, <1>4, <1>5, Split, Join, Unchanged DEF PlantRobot

LEMMA AdminSecretType ==
    ASSUME TypeInv, AdminSecret
    PROVE  TypeInv'
  <1>1. PICK h \in HarborAccesses :
           \/ DeleteSecret(h)
           \/ \E st \in {"peer", "other", "none"} :
                 secret' = [secret EXCEPT ![h] =
                    [NoSecret(secret[h].ver + 1, secret[h].uid + 1)
                       EXCEPT !.exists = TRUE, !.stamp = st]]
    BY Zenon DEF AdminSecret
  <1>2. APIOK'
    <2>1. CASE DeleteSecret(h)
      BY Zenon, <2>1, DeleteSecretType, Split DEF AdminSecret
    <2>2. ASSUME NEW st \in {"peer", "other", "none"},
                 secret' = [secret EXCEPT ![h] =
                    [NoSecret(secret[h].ver + 1, secret[h].uid + 1)
                       EXCEPT !.exists = TRUE, !.stamp = st]]
          PROVE  APIOK'
      <3> DEFINE x == NoSecret(secret[h].ver + 1, secret[h].uid + 1)
                 y == [x EXCEPT !.exists = TRUE, !.stamp = st]
      <3>1. secret[h].ver + 1 \in Nat /\ secret[h].uid + 1 \in Nat
        BY Split DEF APIOK, Secret
      <3>2. x \in Secret
        BY Zenon, <3>1, Defaults
      <3> HIDE DEF x
      <3>3. y \in Secret
        <4>1. st \in {"this", "peer", "other", "none"}
          OBVIOUS
        <4> QED BY <3>2, <4>1, Zenon DEF Secret
      <3>4. secret' = [secret EXCEPT ![h] = y]
        BY Zenon, <2>2 DEF x
      <3> HIDE DEF y
      <3> QED BY Zenon, <3>3, <3>4, Split DEF APIOK, AdminSecret
    <2> QED BY Zenon, <1>1, <2>1, <2>2
  <1>3. SpentOK'
    BY Zenon, SpendType, Split DEF AdminSecret, ByAdmin
  <1> QED BY Zenon, <1>2, <1>3, Split, Join, Unchanged DEF AdminSecret

LEMMA ReleaseByHandType ==
    ASSUME TypeInv, ReleaseByHand
    PROVE  TypeInv'
  <1>1. APIOK'
    BY Zenon, WithoutFinalizerType, Split DEF ReleaseByHand, UserVars, APIOK
  <1>2. SpentOK'
    BY Zenon, SpendType, Split DEF ReleaseByHand, ByAdmin
  <1> QED BY Zenon, <1>1, <1>2, Split, Join, Unchanged DEF ReleaseByHand, UserVars

LEMMA PromisePassesType ==
    ASSUME TypeInv, NEW h \in HarborAccesses, PromisePasses(h)
    PROVE  TypeInv'
  <1>1. [secret[h] EXCEPT !.due = TRUE] \in Secret
    <2>1. secret[h] \in Secret
      BY Zenon, Split DEF APIOK
    <2> QED BY <2>1, Zenon DEF Secret
  <1>2. secret' = [secret EXCEPT ![h] = [secret[h] EXCEPT !.due = TRUE]]
    BY Zenon DEF PromisePasses
  <1>3. APIOK'
    BY Zenon, <1>1, <1>2, Split DEF APIOK, PromisePasses
  <1>4. SpentOK'
    BY Zenon, SpendType, Split DEF PromisePasses
  <1> QED BY Zenon, <1>3, <1>4, Split, Join, Unchanged DEF PromisePasses

LEMMA SyncCacheType ==
    ASSUME TypeInv, NEW r \in Replicas, NEW h \in HarborAccesses, SyncCache(r, h)
    PROVE  TypeInv'
  <1>1. CacheOK'
    BY Zenon, Split DEF SyncCache, CacheOK, APIOK
  <1> QED BY Zenon, <1>1, Split, Join, Unchanged DEF SyncCache

LEMMA TakeoverType ==
    ASSUME TypeInv, NEW r \in Replicas, Takeover(r)
    PROVE  TypeInv'
  <1>1. CacheOK'
    BY Zenon, Split DEF Takeover, CacheOK, APIOK
  <1>2. SweepOK'
    BY Zenon, NoSweepType DEF Takeover, SweepDone, SweepOK, SweepPCs
  <1>3. SpentOK'
    BY Zenon, SpendType, Split DEF Takeover, Fault
  <1> QED BY Zenon, <1>1, <1>2, <1>3, DoneType, Split, Join, Unchanged DEF Takeover

LEMMA InitType == Init => TypeInv
  <1> SUFFICES ASSUME Init PROVE TypeInv
    OBVIOUS
  <1>1. ha \in [HarborAccesses -> HarborAccess]
    <2>1. PICK s \in [HarborAccesses -> Specs] :
             ha = [h \in HarborAccesses |->
                     WithSpec([Absent(1) EXCEPT !.exists = TRUE, !.sel = TRUE], s[h])]
      BY Zenon DEF Init
    <2>2. \A h \in HarborAccesses :
             WithSpec([Absent(1) EXCEPT !.exists = TRUE, !.sel = TRUE], s[h]) \in HarborAccess
      BY Zenon, FreshType
    <2> QED BY Zenon, <2>1, <2>2
  <1>2. APIOK
    BY Zenon, <1>1, Defaults DEF Init, APIOK
  <1>3. CacheOK
    BY Zenon, <1>1 DEF Init, CacheOK
  <1>4. HarborOK
    BY DEF Init, HarborOK
  <1>5. PassOK
    BY Zenon, NoPassType DEF Init, PassOK, PassNamed, PCs, NormalPCs
  <1>6. SweepOK
    BY Zenon, NoSweepType DEF Init, SweepOK, SweepPCs
  <1>7. SpentOK
    BY Zenon DEF Init, SpentOK
  <1> QED BY Zenon, <1>2, <1>3, <1>4, <1>5, <1>6, <1>7, Split

LEMMA NextType ==
    ASSUME TypeInv, [Next]_vars
    PROVE  TypeInv'
  <1>1. CASE UNCHANGED vars
    BY Zenon, <1>1, Split, Join, Unchanged
       DEF vars, harborVars, apiVars, passVars, sweepVars
  <1>2. CASE Bridge
    <2>1. CASE SweepStep
      BY Zenon, <2>1, listOwnersType, recheckRobotType, deleteRobotType, recheckSecretType,
         deleteOrphanSecretType, relistRobotsType, releaseUnselectedType DEF SweepStep
    <2> QED BY Zenon, <1>2, <2>1, ReconcileType, PassStepType, sweepListRobotsType DEF Bridge
  <1>3. CASE Environment
    BY Zenon, <1>3, UserType, PromisePassesType, AdminRobotType, PlantRobotType, AdminSecretType,
       ReleaseByHandType, TakeoverType, SyncCacheType DEF Environment
  <1> QED BY Zenon, <1>1, <1>2, <1>3 DEF Next

\* Types hold, and robot IDs stay unique, in every instance: whatever the
\* reconciler, the janitor, users, administrators and crashes do.
THEOREM TypeCorrect == Spec => []TypeOK
  <1>1. TypeInv => TypeOK
    BY Zenon DEF TypeInv
  <1> QED BY <1>1, InitType, NextType, PTL DEF Spec
=============================================================================
