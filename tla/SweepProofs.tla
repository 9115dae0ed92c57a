---------------------------- MODULE SweepProofs ----------------------------
(***************************************************************************)
(* The janitor spares the robot its owner uses (SweepSparesWanted), in     *)
(* every instance.  A sweep judges a robot by its owner as read before the *)
(* deletion; SweepInv says that the verdict still stands when the robot    *)
(* goes, unless a user edited an object meanwhile.  That a write of the    *)
(* bridge itself does not overturn it hangs on the copy the write is made  *)
(* from: it carries the spec of the version it replaces (CopiesAsOf).      *)
(***************************************************************************)
EXTENDS RobotProofs

\* Every copy of an object, in a cache or held by the pass, is an old
\* version of it or the object itself.
CopiesAsOf == CachesAsOf /\ (pc # "idle" => AsOf(pass.ha, pass.h))

EditedSince == sweep.since < spent.edits

\* What a sweep knows of the names of the robots it listed, and of the one
\* it is about to delete.
SweepNames ==
    spc \in {"owners", "robots", "delRobot"} =>
        \A k \in sweep.robots : \A r \in robots : r.id = k.id => r.name = k.name

Condemned ==
    spc = "delRobot" => \A r \in robots :
        r.id = sweep.id => EditedSince \/ robotVerdict(r, ha[r.owner])

SweepInv ==
    /\ RobotInv /\ CopiesAsOf /\ SweepNames /\ Condemned
    /\ spc # "idle" => sweep.since <= spent.edits

(***************************************************************************)
(* What steps do to objects.                                               *)
(***************************************************************************)
\* Object y came of x without a user: gone, or with the same spec and labels.
Meant(y, x) == y.exists => x.exists /\ y.sa = x.sa /\ y.sel = x.sel

Revised(y, x) ==
    y = x \/ (x.ver < y.ver /\ (Meant(y, x) \/ spent.edits < spent'.edits))

ObjectsKept == \A h \in HarborAccesses : Revised(ha'[h], ha[h])

EditsGrow == spent.edits <= spent'.edits

\* The pass goes on over the copy it holds, or ends.
Hold(q, p) == q.h = p.h /\ q.ha = p.ha

Holds == pc' = "idle" \/ (pc # "idle" /\ Hold(pass', pass))

\* No step of the sweep removes a robot but the one it is about to delete.
OneGoes ==
    \A r \in robots : spc = "delRobot" /\ sweep' # sweep /\ Same(r) = {} => r.id = sweep.id

(***************************************************************************)
(* Facts about objects and their versions.                                 *)
(***************************************************************************)
LEMMA Versions ==
    /\ \A n \in Nat : n <= n /\ n < n + 1
    /\ \A k, m, n \in Nat : k <= m /\ m < n => k <= n /\ k # n /\ k < n
    /\ \A k, m, n \in Nat : k <= m /\ m <= n => k <= n
    /\ \A k, m, n \in Nat : k < m /\ m <= n => k < n
    /\ \A m, n \in Nat : m <= n /\ m # n => m < n
  OBVIOUS

\* A write of object h.
LEMMA WriteKeeps ==
    ASSUME APIOK, NEW h \in HarborAccesses, NEW x, ha' = [ha EXCEPT ![h] = x],
           Revised(x, ha[h])
    PROVE  ObjectsKept
  BY Zenon DEF ObjectsKept, Revised, APIOK

LEMMA BumpedFacts ==
    ASSUME APIOK, NEW h \in HarborAccesses, NEW x \in HarborAccess
    PROVE  /\ ha[h].ver < Bumped(x, h).ver
           /\ Bumped(x, h).exists = x.exists /\ Bumped(x, h).sa = x.sa
           /\ Bumped(x, h).sel = x.sel
  <1>1. ha[h].ver < ha[h].ver + 1
    BY Zenon, Versions DEF APIOK, HarborAccess
  <1>2. Bumped(x, h).ver = ha[h].ver + 1
    BY Zenon DEF Bumped, HarborAccess
  <1> QED BY Zenon, <1>1, <1>2 DEF Bumped, HarborAccess

\* Taking a finalizer off leaves the spec alone, or ends the object.
LEMMA WithoutFinalizerKeeps ==
    ASSUME APIOK, NEW h \in HarborAccesses,
           ha' = [ha EXCEPT ![h] = WithoutFinalizer(h)]
    PROVE  ObjectsKept
  <1> DEFINE x == [ha[h] EXCEPT !.fin = FALSE]
  <1>1. ha[h] \in HarborAccess /\ ha[h].ver < ha[h].ver + 1
    BY Zenon, Versions DEF APIOK, HarborAccess
  <1>2. CASE ha[h].del
    <2>1. WithoutFinalizer(h).ver = ha[h].ver + 1 /\ ~WithoutFinalizer(h).exists
      BY Zenon, <1>2 DEF WithoutFinalizer, Absent
    <2> QED BY Zenon, <1>1, <2>1, WriteKeeps DEF Revised, Meant
  <1>3. CASE ~ha[h].del
    <2>1. x \in HarborAccess /\ x.exists = ha[h].exists /\ x.sa = ha[h].sa /\ x.sel = ha[h].sel
      BY Zenon, <1>1 DEF HarborAccess
    <2>2. WithoutFinalizer(h) = Bumped(x, h)
      BY Zenon, <1>3 DEF WithoutFinalizer
    <2> HIDE DEF x
    <2> QED BY Zenon, <2>1, <2>2, BumpedFacts, WriteKeeps DEF Revised, Meant
  <1> QED BY Zenon, <1>2, <1>3

\* A copy stays a copy of the past.
LEMMA AsOfKept ==
    ASSUME APIOK, APIOK', ObjectsKept, NEW h \in HarborAccesses, NEW x \in HarborAccess,
           AsOf(x, h)
    PROVE  x.ver <= ha'[h].ver /\ (x.ver = ha'[h].ver => x = ha'[h])
  <1>1. x.ver \in Nat /\ ha[h].ver \in Nat /\ ha'[h].ver \in Nat
    BY Zenon DEF APIOK, HarborAccess
  <1> QED BY Zenon, <1>1, Versions DEF AsOf, ObjectsKept, Revised

LEMMA CachesKept ==
    ASSUME SweepInv, TypeInv', ObjectsKept, UNCHANGED cache
    PROVE  CachesAsOf'
  <1> SUFFICES ASSUME NEW r \in Replicas, NEW h \in HarborAccesses
               PROVE  AsOf(cache[r][h], h)'
    BY Zenon DEF CachesAsOf
  <1>1. APIOK /\ APIOK'
    BY Zenon, Split DEF SweepInv, RobotInv, TypeInv, TypeOK, APIOK
  <1>2. cache[r][h] \in HarborAccess /\ AsOf(cache[r][h], h)
    BY Zenon, Split DEF SweepInv, RobotInv, CopiesAsOf, CachesAsOf, CacheOK
  <1> QED BY Zenon, <1>1, <1>2, AsOfKept DEF AsOf

\* The pass goes on over its copy.
LEMMA HoldsKept ==
    ASSUME SweepInv, TypeInv', ObjectsKept, Holds
    PROVE  (pc # "idle" => AsOf(pass.ha, pass.h))'
  <1> SUFFICES ASSUME pc' # "idle" PROVE AsOf(pass.ha, pass.h)'
    BY Zenon
  <1>1. pc # "idle" /\ pass'.h = pass.h /\ pass'.ha = pass.ha
    BY Zenon DEF Holds, Hold
  <1>2. /\ APIOK /\ APIOK' /\ pass.h \in HarborAccesses /\ pass.ha \in HarborAccess
        /\ AsOf(pass.ha, pass.h)
    BY Zenon, <1>1, Split
       DEF SweepInv, RobotInv, CopiesAsOf, PassOK, PassNamed, Pass, TypeInv, TypeOK, APIOK
  <1> QED BY Zenon, <1>1, <1>2, AsOfKept DEF AsOf

(***************************************************************************)
(* What the sweep knows survives the steps of others.                      *)
(***************************************************************************)
LEMMA SpendGrows ==
    ASSUME SpentOK, NEW kind \in {"edits", "admin", "due", "faults"}, NEW max,
           Spend(kind, max)
    PROVE  EditsGrow /\ (kind = "edits" => spent.edits < spent'.edits)
  BY DEF SpentOK, Spend, EditsGrow

LEMMA SameSpent == SpentOK /\ UNCHANGED spent => EditsGrow
  BY DEF SpentOK, EditsGrow

LEMMA FaultGrows == SpentOK /\ Fault => EditsGrow
  BY Zenon, SpendGrows DEF Fault

\* What a sweep listed keeps its name.
LEMMA NamesKept ==
    ASSUME SweepInv, RobotsFollow
    PROVE  spc \in {"owners", "robots", "delRobot"} =>
             \A k \in sweep.robots : \A r \in robots' : r.id = k.id => r.name = k.name
  <1> SUFFICES ASSUME spc \in {"owners", "robots", "delRobot"}, NEW k \in sweep.robots,
                      NEW r \in robots', r.id = k.id
               PROVE  r.name = k.name
    BY Zenon
  <1>1. k.id < nextID /\ \A s \in robots : s.id = k.id => s.name = k.name
    BY Zenon DEF SweepInv, RobotInv, SweepRobots, SweepNames
  <1>2. PICK s \in robots : Follows(r, s)
    BY Zenon, <1>1 DEF RobotsFollow
  <1> QED BY Zenon, <1>1, <1>2 DEF Follows

\* A verdict stands until a user edits an object.
LEMMA CondemnedKept ==
    ASSUME SweepInv, TypeInv', RobotsFollow, ObjectsKept, EditsGrow, spc = "delRobot",
           NEW r \in robots', r.id = sweep.id
    PROVE  sweep.since < spent'.edits \/ robotVerdict(r, ha'[r.owner])
  <1>1. PICK s \in robots : Follows(r, s)
    BY Zenon DEF SweepInv, RobotInv, SweepRobots, RobotsFollow
  <1>2. s.id = sweep.id /\ r.name = s.name /\ s.owner \in HarborAccesses /\ r.owner = s.owner
    BY Zenon, <1>1, BridgeAssumption DEF SweepInv, RobotInv, SweepRobots, Follows
  <1>3. sweep.since \in Nat /\ spent.edits \in Nat /\ spent'.edits \in Nat
    BY Zenon, Split DEF SweepInv, RobotInv, SweepOK, Sweep, SpentOK, TypeInv, TypeOK
  <1>4. CASE EditedSince
    BY Zenon, <1>3, <1>4, Versions DEF EditedSince, EditsGrow
  <1>5. CASE robotVerdict(s, ha[s.owner])
    <2>1. robotVerdict(r, ha'[r.owner]) \/ spent.edits < spent'.edits
      <3>1. Revised(ha'[s.owner], ha[s.owner])
        BY Zenon, <1>2 DEF ObjectsKept
      <3> QED BY Zenon, <1>2, <1>5, <3>1 DEF Revised, Meant, robotVerdict, Selects
    <2>2. sweep.since <= spent.edits
      BY Zenon DEF SweepInv
    <2> QED BY Zenon, <1>3, <2>1, <2>2, Versions
  <1> QED BY Zenon, <1>2, <1>4, <1>5 DEF SweepInv, Condemned

\* A step that leaves the sweep alone.
LEMMA SweepStays ==
    ASSUME SweepInv, TypeInv', RobotInv', RobotsFollow, ObjectsKept, EditsGrow, CopiesAsOf',
           UNCHANGED sweepVars
    PROVE  SweepInv' /\ OneGoes
  <1>1. SweepNames'
    BY Zenon, NamesKept DEF SweepNames, sweepVars
  <1>2. Condemned'
    BY Zenon, CondemnedKept DEF Condemned, EditedSince, sweepVars
  <1>3. (spc # "idle" => sweep.since <= spent.edits)'
    <2>1. sweep.since \in Nat /\ spent.edits \in Nat /\ spent'.edits \in Nat
      BY Zenon, Split DEF SweepInv, RobotInv, SweepOK, Sweep, SpentOK, TypeInv, TypeOK
    <2> QED BY Zenon, <2>1, Versions DEF SweepInv, EditsGrow, sweepVars
  <1> QED BY Zenon, <1>1, <1>2, <1>3 DEF SweepInv, OneGoes, sweepVars

(***************************************************************************)
(* Steps of the pass.                                                      *)
(***************************************************************************)
LEMMA HoldUpdates ==
    ASSUME NEW p \in Pass, NEW x
    PROVE  /\ Hold(p, p)
           /\ Hold([p EXCEPT !.sec = x], p) /\ Hold([p EXCEPT !.rob = x], p)
           /\ Hold([p EXCEPT !.pw = x], p) /\ Hold([p EXCEPT !.tries = x], p)
           /\ Hold([p EXCEPT !.todo = x], p) /\ Hold([p EXCEPT !.err = x], p)
           /\ Hold([p EXCEPT !.free = x], p) /\ Hold([p EXCEPT !.out = x], p)
  <1>1. /\ Hold([p EXCEPT !.sec = x], p) /\ Hold([p EXCEPT !.rob = x], p)
        /\ Hold([p EXCEPT !.pw = x], p) /\ Hold([p EXCEPT !.tries = x], p)
    BY Zenon DEF Hold, Pass
  <1>2. /\ Hold([p EXCEPT !.todo = x], p) /\ Hold([p EXCEPT !.err = x], p)
        /\ Hold([p EXCEPT !.free = x], p) /\ Hold([p EXCEPT !.out = x], p)
    BY Zenon DEF Hold, Pass
  <1> QED BY Zenon, <1>1, <1>2 DEF Hold

LEMMA GotoHolds ==
    ASSUME pc # "idle", NEW at, NEW p, Hold(p, pass), Goto(at, p)
    PROVE  Holds
  BY Zenon DEF Goto, Holds

LEMMA DoneHolds == Done => Holds
  BY Zenon DEF Done, Holds

LEMMA FailedHolds ==
    ASSUME PassOK, Failed
    PROVE  Holds
  <1>1. CASE pc \in SuspendPCs /\ Goto("refuseStatus", [pass EXCEPT !.err = TRUE])
    BY Zenon, <1>1, HoldUpdates, GotoHolds DEF PassOK, SuspendPCs
  <1>2. CASE Done
    BY Zenon, <1>2, DoneHolds
  <1>3. CASE /\ pc \in (NormalPCs \ {"addFinalizer"}) \cup (DeletePCs \ {"delPatch"})
             /\ Goto("fail", pass)
    BY Zenon, <1>3, HoldUpdates, GotoHolds DEF PassOK, NormalPCs, DeletePCs
  <1> QED BY Zenon, <1>1, <1>2, <1>3 DEF Failed

LEMMA AnsweredHolds ==
    ASSUME PassOK, SpentOK, pc # "idle", NEW at, NEW p, Hold(p, pass), Answered(at, p)
    PROVE  Holds /\ EditsGrow
  BY Zenon, GotoHolds, FailedHolds, SameSpent, FaultGrows DEF Answered

\* The steps of a pass that do not write its HarborAccess.
Quiet == Holds /\ EditsGrow /\ UNCHANGED <<ha, cache, sweepVars>>

LEMMA ReadsHold ==
    ASSUME TypeInv,
           \/ getRobotSecret \/ lookupRobot \/ rereadSecret \/ suspendLookup \/ releaseList
           \/ listStaleRobots \/ deleteList \/ CallFails
    PROVE  Quiet
  <1>1. PassOK /\ SpentOK /\ pass \in Pass
    BY Zenon, Split DEF PassOK
  <1>2. CASE getRobotSecret
    BY Zenon, <1>1, <1>2, HoldUpdates, GotoHolds, SameSpent DEF getRobotSecret, Quiet, apiVars
  <1>3. CASE lookupRobot
    <2>1. Holds
      BY Zenon, <1>1, <1>3, HoldUpdates, GotoHolds, FailedHolds DEF lookupRobot
    <2> QED BY Zenon, <1>1, <1>3, <2>1, SameSpent DEF lookupRobot, Quiet, apiVars
  <1>4. CASE rereadSecret
    BY Zenon, <1>1, <1>4, HoldUpdates, GotoHolds, FailedHolds, SameSpent
       DEF rereadSecret, Quiet, apiVars
  <1>5. CASE suspendLookup
    <2>1. Holds
      BY Zenon, <1>1, <1>5, HoldUpdates, GotoHolds DEF suspendLookup
    <2> QED BY Zenon, <1>1, <1>5, <2>1, SameSpent DEF suspendLookup, Quiet, apiVars
  <1>6. CASE releaseList
    BY Zenon, <1>1, <1>6, HoldUpdates, GotoHolds, DoneHolds, SameSpent
       DEF releaseList, Quiet, apiVars
  <1>7. ASSUME NEW from, NEW keep, NEW each, NEW after, ListRobots(from, keep, each, after),
               from # "idle"
        PROVE  Quiet
    BY Zenon, <1>1, <1>7, HoldUpdates, GotoHolds, SameSpent DEF ListRobots, Quiet, apiVars
  <1>8. CASE CallFails
    BY Zenon, <1>1, <1>8, FailedHolds, FaultGrows DEF CallFails, Quiet, apiVars
  <1> QED BY Zenon, <1>2, <1>3, <1>4, <1>5, <1>6, <1>7, <1>8 DEF listStaleRobots, deleteList

LEMMA RobotCallsHold ==
    ASSUME TypeInv,
           \/ createRobot \/ resumeRotate \/ rotate \/ resumeEnable \/ converge
           \/ deleteStaleRobots \/ deleteRobots \/ disableRobot \/ revokeRobot
    PROVE  Quiet
  <1>1. PassOK /\ SpentOK /\ pass \in Pass /\ Hold(pass, pass)
    BY Zenon, Split, HoldUpdates DEF PassOK
  <1>2. ASSUME createRobot PROVE Quiet
    <2>1. \A x, y, z : Hold([pass EXCEPT !.rob = x, !.created = y, !.pw = z], pass)
      BY Zenon, <1>1 DEF Hold, Pass
    <2>2. \/ Goto("relookup", pass) /\ UNCHANGED spent
          \/ \E x : Answered("putSecret", [pass EXCEPT !.rob = x, !.created = TRUE, !.pw = nextID])
      BY Zenon, <1>2 DEF createRobot
    <2>3. Holds /\ EditsGrow
      BY Zenon, <1>1, <1>2, <2>1, <2>2, GotoHolds, AnsweredHolds, SameSpent DEF createRobot
    <2> QED BY Zenon, <1>2, <2>3 DEF createRobot, Quiet, apiVars
  <1>3. ASSUME NEW from, NEW to, RotateRobot(from, to), from # "idle" PROVE Quiet
    <2>1. \/ \E x : Answered(to, [pass EXCEPT !.pw = x])
          \/ Failed /\ UNCHANGED spent
      BY Zenon, <1>3 DEF RotateRobot
    <2>2. Holds /\ EditsGrow
      BY Zenon, <1>1, <1>3, <2>1, HoldUpdates, AnsweredHolds, FailedHolds, SameSpent
         DEF RotateRobot
    <2> QED BY Zenon, <1>3, <2>2 DEF RotateRobot, Quiet, apiVars
  <1>4. ASSUME pc # "idle", NEW sus, NEW dis, NEW perms, NEW to, NEW p, Hold(p, pass),
               UpdateRobot(sus, dis, perms, to, p)
        PROVE  Quiet
    <2>1. Holds /\ EditsGrow
      BY Zenon, <1>1, <1>4, AnsweredHolds, FailedHolds, SameSpent DEF UpdateRobot
    <2> QED BY Zenon, <1>4, <2>1 DEF UpdateRobot, Quiet, apiVars
  <1>5. CASE resumeEnable
    <2> DEFINE p == [pass EXCEPT !.rob.disabled = FALSE, !.rob.suspended = FALSE]
    <2>1. Hold(p, pass)
      BY Zenon, <1>1, ResumedLike DEF Like, Hold
    <2>2. pc # "idle" /\ UpdateRobot(FALSE, FALSE, pass.ha.perms, "putSecret", p)
      BY Zenon, <1>5 DEF resumeEnable
    <2> HIDE DEF p
    <2> QED BY Zenon, <1>4, <2>1, <2>2
  <1>6. CASE converge \/ disableRobot
    BY Zenon, <1>1, <1>4, <1>6 DEF converge, disableRobot
  <1>7. ASSUME NEW from, NEW after, DeleteListed(from, after), from # "idle" PROVE Quiet
    <2>1. \E at, x : Answered(at, [pass EXCEPT !.todo = x])
      BY Zenon, <1>7 DEF DeleteListed
    <2>2. Holds /\ EditsGrow
      BY Zenon, <1>1, <1>7, <2>1, HoldUpdates, AnsweredHolds DEF DeleteListed
    <2> QED BY Zenon, <1>7, <2>2 DEF DeleteListed, Quiet, apiVars
  <1>8. CASE revokeRobot
    BY Zenon, <1>1, <1>8, HoldUpdates, AnsweredHolds DEF revokeRobot, Quiet, apiVars
  <1> QED BY Zenon, <1>2, <1>3, <1>5, <1>6, <1>7, <1>8
          DEF resumeRotate, rotate, deleteStaleRobots, deleteRobots

LEMMA SecretCallsHold ==
    ASSUME TypeInv, dropSecret \/ putRobotSecret \/ refuseSecret \/ deleteSecret
    PROVE  Quiet
  <1>1. PassOK /\ SpentOK /\ pass \in Pass /\ Hold(pass, pass)
    BY Zenon, Split, HoldUpdates DEF PassOK
  <1>2. CASE dropSecret
    <2> DEFINE p == [pass EXCEPT !.sec.exists = FALSE]
    <2>1. Hold(p, pass)
      BY Zenon, <1>1, HoldUpdates
    <2>2. \/ Goto("resumeRotate", p) /\ UNCHANGED spent
          \/ Answered("resumeRotate", p)
          \/ Failed /\ UNCHANGED spent
      BY Zenon, <1>2 DEF dropSecret
    <2> HIDE DEF p
    <2>3. Holds /\ EditsGrow
      BY Zenon, <1>1, <1>2, <2>1, <2>2, GotoHolds, AnsweredHolds, FailedHolds, SameSpent
         DEF dropSecret
    <2> QED BY Zenon, <1>2, <2>3 DEF dropSecret, Quiet
  <1>3. CASE putRobotSecret
    <2>1. \/ \E at, x : Goto(at, [pass EXCEPT !.out = x]) /\ UNCHANGED spent
          \/ \E at, x : Answered(at, [pass EXCEPT !.out = x])
          \/ Failed /\ UNCHANGED spent
          \/ \E at, x : Goto(at, [pass EXCEPT !.tries = x]) /\ UNCHANGED spent
      BY Zenon, <1>3 DEF putRobotSecret
    <2>2. Holds /\ EditsGrow
      BY Zenon, <1>1, <1>3, <2>1, HoldUpdates, GotoHolds, AnsweredHolds, FailedHolds, SameSpent
         DEF putRobotSecret
    <2> QED BY Zenon, <1>3, <2>2 DEF putRobotSecret, Quiet
  <1>4. CASE refuseSecret
    <2>1. Holds /\ EditsGrow
      BY Zenon, <1>1, <1>4, HoldUpdates, GotoHolds, SameSpent, FaultGrows DEF refuseSecret
    <2> QED BY Zenon, <1>4, <2>1 DEF refuseSecret, Quiet
  <1>5. CASE deleteSecret
    BY Zenon, <1>1, <1>5, AnsweredHolds DEF deleteSecret, Quiet
  <1> QED BY Zenon, <1>2, <1>3, <1>4, <1>5

\* What a step that leaves the sweep alone must keep.
Keeps ==
    /\ ObjectsKept /\ EditsGrow /\ UNCHANGED sweepVars
    /\ CachesAsOf' /\ (pc # "idle" => AsOf(pass.ha, pass.h))'

LEMMA SameObjects == UNCHANGED ha => ObjectsKept
  BY Zenon DEF ObjectsKept, Revised

LEMMA QuietKeepsCopies ==
    ASSUME SweepInv, TypeInv', Quiet
    PROVE  Keeps
  BY Zenon, SameObjects, CachesKept, HoldsKept DEF Quiet, Keeps

\* A pass whose write goes through holds the object itself.
LEMMA CurrentCopy ==
    ASSUME SweepInv, pc # "idle"
    PROVE  /\ APIOK /\ SpentOK /\ PassOK /\ pass \in Pass /\ pass.ha \in HarborAccess
           /\ pass.h \in HarborAccesses
           /\ Current(pass.ha, pass.h) => pass.ha = ha[pass.h]
  <1>1. /\ APIOK /\ SpentOK /\ PassOK /\ pass \in Pass /\ pass.ha \in HarborAccess
        /\ pass.h \in HarborAccesses
    BY Zenon, Split DEF SweepInv, RobotInv, PassOK, PassNamed, Pass
  <1> QED BY Zenon, <1>1 DEF SweepInv, CopiesAsOf, AsOf, Current

LEMMA ensureFinalizerCopies ==
    ASSUME SweepInv, TypeInv', ensureFinalizer
    PROVE  Keeps
  <1> DEFINE b == [pass.ha EXCEPT !.fin = TRUE]
             a == Bumped(b, pass.h)
             p == [pass EXCEPT !.ha = a]
  <1>1. UNCHANGED <<cache, sweepVars>> /\ pc # "idle"
    BY Zenon DEF ensureFinalizer
  <1>2. CASE ~Current(pass.ha, pass.h)
    <2>1. Failed /\ UNCHANGED <<ha, spent>>
      BY Zenon, <1>2 DEF ensureFinalizer
    <2> QED BY Zenon, <1>1, <2>1, CurrentCopy, FailedHolds, SameSpent, QuietKeepsCopies DEF Quiet
  <1>3. CASE Current(pass.ha, pass.h)
    <2>1. /\ b \in HarborAccess /\ b.exists = pass.ha.exists /\ b.sa = pass.ha.sa
          /\ b.sel = pass.ha.sel
      BY Zenon, <1>1, CurrentCopy DEF HarborAccess
    <2>2. ha' = [ha EXCEPT ![pass.h] = a] /\ Answered("lookup", p)
      BY Zenon, <1>3 DEF ensureFinalizer
    <2> HIDE DEF b
    <2>3. Revised(a, ha[pass.h]) /\ a \in HarborAccess
      BY Zenon, <1>1, <1>3, <2>1, CurrentCopy, BumpedFacts, BumpedType DEF Revised, Meant
    <2>4. p.h = pass.h /\ p.ha = a
      BY Zenon, <1>1, CurrentCopy DEF Pass
    <2> HIDE DEF a
    <2>5. ObjectsKept
      BY Zenon, <1>1, <2>2, <2>3, CurrentCopy, WriteKeeps
    <2> HIDE DEF p
    <2>6. EditsGrow
      BY Zenon, <1>1, <2>2, CurrentCopy, SameSpent, FaultGrows DEF Answered
    <2>7. (pc # "idle" => AsOf(pass.ha, pass.h))'
      <3>1. CASE Failed
        BY Zenon, <1>1, <2>5, <3>1, CurrentCopy, FailedHolds, HoldsKept
      <3>2. CASE pass' = p
        <4>1. ha'[pass.h] = a /\ a.ver \in Nat
          BY Zenon, <1>1, <2>2, <2>3, CurrentCopy DEF APIOK, HarborAccess
        <4> QED BY Zenon, <2>4, <3>2, <4>1, Versions DEF AsOf
      <3> QED BY Zenon, <2>2, <3>1, <3>2 DEF Answered, Goto
    <2> QED BY Zenon, <1>1, <2>5, <2>6, <2>7, CachesKept DEF Keeps
  <1> QED BY Zenon, <1>2, <1>3

LEMMA StatusKeeps ==
    ASSUME SweepInv, pc # "idle", NEW ready \in BOOLEAN, UpdateStatus(ready)
    PROVE  /\ ObjectsKept
           /\ Current(pass.ha, pass.h) => /\ ha'[pass.h] = Written(StatusAs(ready))
                                          /\ Written(StatusAs(ready)) \in HarborAccess
  <1> DEFINE a == StatusAs(ready)
  <1>1. CASE ~Current(pass.ha, pass.h)
    BY Zenon, <1>1, SameObjects DEF UpdateStatus
  <1>2. CASE Current(pass.ha, pass.h)
    <2>1. a \in HarborAccess
      BY Zenon, CurrentCopy, StatusAsType
    <2>2. a.exists = pass.ha.exists /\ a.sa = pass.ha.sa /\ a.sel = pass.ha.sel
      BY Zenon, CurrentCopy DEF StatusAs, HarborAccess
    <2> HIDE DEF a
    <2>3. Written(a) \in HarborAccess /\ Revised(Written(a), ha[pass.h])
      BY Zenon, <1>2, <2>1, <2>2, CurrentCopy, BumpedFacts, BumpedType
         DEF Written, Revised, Meant
    <2>4. ha' = [ha EXCEPT ![pass.h] = Written(a)]
      BY Zenon, <1>2 DEF UpdateStatus, a
    <2> QED BY Zenon, <2>3, <2>4, CurrentCopy, WriteKeeps DEF APIOK, a
  <1> QED BY Zenon, <1>1, <1>2

LEMMA StatusCopies ==
    ASSUME SweepInv, TypeInv', markStatus \/ refuseStatus
    PROVE  Keeps
  <1>1. UNCHANGED <<cache, sweepVars, spent>> /\ pc # "idle"
    BY Zenon DEF markStatus, refuseStatus
  <1>2. EditsGrow
    BY Zenon, <1>1, CurrentCopy, SameSpent
  <1>3. CASE markStatus
    <2>1. (pc = "status" /\ pass.out) \in BOOLEAN
      BY Zenon
    <2>2. ObjectsKept
      BY Zenon, <1>1, <1>3, <2>1, StatusKeeps DEF markStatus
    <2> QED BY Zenon, <1>1, <1>2, <1>3, <2>2, DoneHolds, CachesKept, HoldsKept
            DEF markStatus, Keeps
  <1>4. CASE refuseStatus
    <2> DEFINE a == Written(StatusAs(FALSE))
               p == [pass EXCEPT !.ha = a]
    <2>1. ObjectsKept /\ (Current(pass.ha, pass.h) => ha'[pass.h] = a /\ a \in HarborAccess)
      BY Zenon, <1>1, <1>4, StatusKeeps DEF refuseStatus
    <2>2. p.h = pass.h /\ p.ha = a
      BY Zenon, <1>1, CurrentCopy DEF Pass
    <2>3. Done \/ (Current(pass.ha, pass.h) /\ pass' = p)
      BY Zenon, <1>4 DEF refuseStatus, Goto
    <2> HIDE DEF p, a
    <2>4. (pc # "idle" => AsOf(pass.ha, pass.h))'
      <3>1. CASE Done
        BY Zenon, <3>1 DEF Done
      <3>2. CASE Current(pass.ha, pass.h) /\ pass' = p
        <4>1. ha'[pass.h] = a /\ a.ver \in Nat
          BY Zenon, <2>1, <3>2 DEF HarborAccess
        <4> QED BY Zenon, <2>2, <3>2, <4>1, Versions DEF AsOf
      <3> QED BY Zenon, <2>3, <3>1, <3>2
    <2> QED BY Zenon, <1>1, <1>2, <2>1, <2>4, CachesKept DEF Keeps
  <1> QED BY Zenon, <1>3, <1>4

LEMMA RemoveFinalizerCopies ==
    ASSUME SweepInv, TypeInv', NEW from, from # "idle", RemoveFinalizer(from)
    PROVE  Keeps
  <1>1. UNCHANGED <<cache, sweepVars, spent>> /\ pc # "idle" /\ Done
    BY Zenon DEF RemoveFinalizer
  <1>2. ObjectsKept
    BY Zenon, <1>1, CurrentCopy, SameObjects, WithoutFinalizerKeeps DEF RemoveFinalizer
  <1> QED BY Zenon, <1>1, <1>2, CurrentCopy, SameSpent, DoneHolds, CachesKept, HoldsKept DEF Keeps

LEMMA PassStepCopies ==
    ASSUME SweepInv, TypeInv', PassStep \/ CallFails
    PROVE  Keeps
  <1>1. TypeInv
    BY Zenon DEF SweepInv, RobotInv
  <1>2. CASE Quiet
    BY Zenon, <1>2, QuietKeepsCopies
  <1>3. CASE releasePatch \/ deletePatch
    BY Zenon, <1>3, RemoveFinalizerCopies DEF releasePatch, deletePatch
  <1> QED BY ZenonT(30), <1>1, <1>2, <1>3, ReadsHold, RobotCallsHold, SecretCallsHold,
             ensureFinalizerCopies, StatusCopies DEF PassStep

\* A pass begins over the copy in the leader's cache.
LEMMA ReconcileCopies ==
    ASSUME SweepInv, TypeInv', NEW h \in HarborAccesses, Reconcile(h)
    PROVE  Keeps
  <1> DEFINE p == [NoPass EXCEPT !.h = h, !.ha = cache[leader][h]]
  <1>1. UNCHANGED <<ha, cache, sweepVars, spent>> /\ pass' = p
    BY Zenon DEF Reconcile, Goto, apiVars
  <1>2. p.h = h /\ p.ha = cache[leader][h]
    BY Zenon, NoPassType DEF Pass
  <1> HIDE DEF p
  <1>3. AsOf(cache[leader][h], h) /\ SpentOK
    BY Zenon, Split DEF SweepInv, RobotInv, CopiesAsOf, CachesAsOf, CacheOK
  <1>4. ObjectsKept /\ EditsGrow
    BY Zenon, <1>1, <1>3, SameObjects, SameSpent
  <1>5. AsOf(pass.ha, pass.h)'
    BY Zenon, <1>1, <1>2, <1>3 DEF AsOf
  <1> QED BY Zenon, <1>1, <1>4, <1>5, CachesKept DEF Keeps

(***************************************************************************)
(* Users, administrators, time and crashes.                                *)
(***************************************************************************)
LEMMA UserCopies ==
    ASSUME SweepInv, TypeInv', NEW h \in HarborAccesses,
           CreateHA(h) \/ EditSpec(h) \/ Relabel(h) \/ DeleteHA(h)
    PROVE  Keeps
  <1>1. /\ APIOK /\ SpentOK /\ ha[h] \in HarborAccess /\ ha[h].ver \in Nat
        /\ ha[h].ver + 1 \in Nat
    BY Split DEF SweepInv, RobotInv, APIOK, HarborAccess
  <1>2. Spend("edits", MaxEdits) /\ UNCHANGED <<cache, passVars, sweepVars>>
    BY Zenon DEF CreateHA, EditSpec, Relabel, DeleteHA, UserVars
  <1>3. EditsGrow /\ spent.edits < spent'.edits
    BY Zenon, <1>1, <1>2, SpendGrows
  <1>4. ha[h].ver < ha[h].ver + 1
    BY Zenon, <1>1, Versions
  <1>5. \E x : ha' = [ha EXCEPT ![h] = x] /\ ha[h].ver < x.ver
    <2>1. CASE CreateHA(h)
      <3> DEFINE x(s) == WithSpec([Absent(ha[h].ver + 1) EXCEPT !.exists = TRUE, !.sel = TRUE], s)
      <3>1. PICK s \in Specs : ha' = [ha EXCEPT ![h] = x(s)]
        BY Zenon, <2>1 DEF CreateHA
      <3>2. x(s).ver = ha[h].ver + 1
        BY Zenon, <1>1, FreshType
      <3> HIDE DEF x
      <3> QED BY Zenon, <1>4, <3>1, <3>2
    <2>2. CASE EditSpec(h)
      <3>1. PICK s \in Specs : ha' = [ha EXCEPT ![h] = Bumped(WithSpec(ha[h], s), h)]
        BY Zenon, <1>1, <2>2 DEF EditSpec, APIOK
      <3> QED BY Zenon, <1>1, <3>1, WithSpecType, BumpedFacts
    <2>3. CASE Relabel(h)
      <3> DEFINE x == [ha[h] EXCEPT !.sel = ~ha[h].sel]
      <3>1. x \in HarborAccess
        <4>1. (~ha[h].sel) \in BOOLEAN
          OBVIOUS
        <4> QED BY <1>1, <4>1, ZenonT(30) DEF HarborAccess
      <3>2. ha' = [ha EXCEPT ![h] = Bumped(x, h)]
        BY Zenon, <2>3 DEF Relabel
      <3> HIDE DEF x
      <3> QED BY Zenon, <1>1, <3>1, <3>2, BumpedFacts
    <2>4. CASE DeleteHA(h)
      <3>1. [ha[h] EXCEPT !.del = TRUE] \in HarborAccess
        BY <1>1, Zenon DEF HarborAccess
      <3>2. \/ ha' = [ha EXCEPT ![h] = Bumped([ha[h] EXCEPT !.del = TRUE], h)]
            \/ ha' = [ha EXCEPT ![h] = Absent(ha[h].ver + 1)]
        BY Zenon, <1>1, <2>4 DEF DeleteHA, APIOK
      <3>3. Absent(ha[h].ver + 1).ver = ha[h].ver + 1
        BY Zenon DEF Absent
      <3> QED BY Zenon, <1>1, <1>4, <3>1, <3>2, <3>3, BumpedFacts
    <2> QED BY Zenon, <2>1, <2>2, <2>3, <2>4
  <1>6. ObjectsKept
    BY Zenon, <1>1, <1>3, <1>5, WriteKeeps DEF Revised
  <1>7. Holds
    BY Zenon, <1>2 DEF Holds, Hold, passVars
  <1> QED BY Zenon, <1>2, <1>3, <1>6, <1>7, CachesKept, HoldsKept DEF Keeps

LEMMA AdminCopies ==
    ASSUME SweepInv, TypeInv',
           \/ AdminRobot \/ PlantRobot \/ AdminSecret \/ ReleaseByHand
           \/ \E h \in HarborAccesses : PromisePasses(h)
    PROVE  Keeps
  <1>1. APIOK /\ SpentOK
    BY Zenon, Split DEF SweepInv, RobotInv
  <1>2. UNCHANGED <<cache, passVars, sweepVars>>
    BY Zenon DEF AdminRobot, PlantRobot, AdminSecret, ReleaseByHand, PromisePasses, UserVars
  <1>3. EditsGrow
    BY Zenon, <1>1, SpendGrows
       DEF AdminRobot, PlantRobot, AdminSecret, ReleaseByHand, PromisePasses, ByAdmin
  <1>4. ObjectsKept
    <2>1. CASE UNCHANGED ha
      BY Zenon, <2>1, SameObjects
    <2>2. CASE ReleaseByHand
      BY Zenon, <1>1, <2>2, WithoutFinalizerKeeps DEF ReleaseByHand
    <2> QED BY Zenon, <2>1, <2>2 DEF AdminRobot, PlantRobot, AdminSecret, PromisePasses, apiVars
  <1>5. Holds
    BY Zenon, <1>2 DEF Holds, Hold, passVars
  <1> QED BY Zenon, <1>2, <1>3, <1>4, <1>5, CachesKept, HoldsKept DEF Keeps

\* A cache catches up with the object, or is filled again.
LEMMA FreshCache ==
    ASSUME SweepInv, UNCHANGED ha,
           \A r \in Replicas, h \in HarborAccesses : cache'[r][h] \in {cache[r][h], ha[h]}
    PROVE  CachesAsOf'
  <1>1. \A h \in HarborAccesses : ha[h].ver <= ha[h].ver
    BY Zenon, Split, Versions DEF SweepInv, RobotInv, APIOK, HarborAccess
  <1> SUFFICES ASSUME NEW r \in Replicas, NEW h \in HarborAccesses
               PROVE  AsOf(cache[r][h], h)'
    BY Zenon DEF CachesAsOf
  <1>2. AsOf(cache[r][h], h)
    BY Zenon DEF SweepInv, CopiesAsOf, CachesAsOf
  <1>3. CASE cache'[r][h] = cache[r][h]
    BY Zenon, <1>2, <1>3 DEF AsOf
  <1>4. CASE cache'[r][h] = ha[h]
    BY Zenon, <1>1, <1>4 DEF AsOf
  <1> QED BY Zenon, <1>3, <1>4

LEMMA SyncCopies ==
    ASSUME SweepInv, TypeInv', NEW r \in Replicas, NEW h \in HarborAccesses, SyncCache(r, h)
    PROVE  Keeps
  <1>1. UNCHANGED <<ha, passVars, sweepVars, spent>> /\ SpentOK /\ CacheOK
    BY Zenon, Split DEF SyncCache, apiVars, SweepInv, RobotInv
  <1>2. cache' = [cache EXCEPT ![r] = [cache[r] EXCEPT ![h] = ha[h]]]
    BY Zenon DEF SyncCache
  <1>3. \A q \in Replicas, k \in HarborAccesses : cache'[q][k] \in {cache[q][k], ha[k]}
    BY Zenon, <1>1, <1>2 DEF CacheOK
  <1>4. Holds
    BY Zenon, <1>1 DEF Holds, Hold, passVars
  <1> QED BY Zenon, <1>1, <1>3, <1>4, FreshCache, SameObjects, SameSpent, HoldsKept DEF Keeps

\* A new leader starts with no pass and no sweep.
LEMMA TakeoverCopies ==
    ASSUME SweepInv, TypeInv', RobotInv', NEW r \in Replicas, Takeover(r)
    PROVE  SweepInv' /\ OneGoes
  <1>1. UNCHANGED <<ha, robots>> /\ Done /\ SweepDone /\ CacheOK
    BY Zenon, Split DEF Takeover, apiVars, harborVars, SweepInv, RobotInv
  <1>2. cache' = [cache EXCEPT ![leader] = ha]
    BY Zenon DEF Takeover
  <1>3. \A q \in Replicas, k \in HarborAccesses : cache'[q][k] \in {cache[q][k], ha[k]}
    BY Zenon, <1>1, <1>2 DEF CacheOK
  <1>4. CopiesAsOf'
    BY Zenon, <1>1, <1>3, FreshCache DEF CopiesAsOf, Done
  <1>5. SweepNames' /\ Condemned' /\ spc' = "idle"
    BY Zenon, <1>1 DEF SweepDone, SweepNames, Condemned
  <1>6. OneGoes
    BY Zenon, <1>1 DEF OneGoes, Same
  <1> QED BY Zenon, <1>4, <1>5, <1>6 DEF SweepInv

(***************************************************************************)
(* Steps of the sweep.                                                     *)
(***************************************************************************)
ListedPCs == {"owners", "robots", "delRobot"}

\* The sweep ends, or goes on with no more robots than before and none about
\* to be deleted.
Narrows ==
    \/ SweepDone
    \/ /\ spc # "idle" /\ spc' # "delRobot" /\ sweep'.since = sweep.since
       /\ sweep'.robots \subseteq sweep.robots
       /\ spc' \in ListedPCs => spc \in ListedPCs

LEMMA NarrowsKeeps ==
    ASSUME SweepInv, TypeInv', RobotInv', RobotsFollow, EditsGrow, Narrows
    PROVE  SweepNames' /\ Condemned' /\ (spc # "idle" => sweep.since <= spent.edits)'
  <1>1. CASE SweepDone
    BY Zenon, <1>1 DEF SweepDone, SweepNames, Condemned
  <1>2. CASE ~SweepDone
    <2>1. SweepNames'
      BY Zenon, <1>2, NamesKept DEF Narrows, SweepNames, ListedPCs
    <2>2. sweep.since \in Nat /\ spent.edits \in Nat /\ spent'.edits \in Nat
      BY Zenon, Split DEF SweepInv, RobotInv, SweepOK, Sweep, SpentOK, TypeInv, TypeOK
    <2>3. (spc # "idle" => sweep.since <= spent.edits)'
      BY Zenon, <1>2, <2>2, Versions DEF Narrows, SweepInv, EditsGrow
    <2> QED BY Zenon, <1>2, <2>1, <2>3 DEF Narrows, Condemned
  <1> QED BY Zenon, <1>1, <1>2

\* A step of the sweep leaves the caches and the pass alone.
LEMMA SweepCopies ==
    ASSUME SweepInv, TypeInv', ObjectsKept, UNCHANGED <<cache, passVars>>
    PROVE  CopiesAsOf'
  <1>1. Holds
    BY Zenon DEF Holds, Hold, passVars
  <1> QED BY Zenon, <1>1, CachesKept, HoldsKept DEF CopiesAsOf

LEMMA SweepReads ==
    ASSUME UNCHANGED robots
    PROVE  OneGoes
  BY Zenon DEF OneGoes, Same

LEMMA AfterPCs ==
    ASSUME NEW s
    PROVE  /\ AfterRobot(s) # "delRobot"
           /\ AfterRobots(s) \notin ListedPCs
           /\ (IF s.owners # {} THEN "release" ELSE "idle") \notin ListedPCs
  BY Zenon DEF AfterRobot, AfterRobots, AfterSecrets, ListedPCs

\* The fields of the sweep that its next state shares.
LEMMA SweepFieldsKept ==
    ASSUME NEW s \in Sweep, NEW x
    PROVE  /\ [s EXCEPT !.secrets = x].since = s.since /\ [s EXCEPT !.secrets = x].robots = s.robots
           /\ [s EXCEPT !.owners = x].since = s.since /\ [s EXCEPT !.owners = x].robots = s.robots
           /\ [s EXCEPT !.sec = x].since = s.since /\ [s EXCEPT !.sec = x].robots = s.robots
           /\ [s EXCEPT !.id = x].since = s.since /\ [s EXCEPT !.id = x].robots = s.robots
           /\ [s EXCEPT !.robots = x].since = s.since /\ [s EXCEPT !.robots = x].robots = x
  <1>1. /\ [s EXCEPT !.secrets = x].since = s.since /\ [s EXCEPT !.secrets = x].robots = s.robots
        /\ [s EXCEPT !.owners = x].since = s.since /\ [s EXCEPT !.owners = x].robots = s.robots
    BY Zenon DEF Sweep
  <1>2. /\ [s EXCEPT !.sec = x].since = s.since /\ [s EXCEPT !.sec = x].robots = s.robots
        /\ [s EXCEPT !.id = x].since = s.since /\ [s EXCEPT !.id = x].robots = s.robots
        /\ [s EXCEPT !.robots = x].since = s.since /\ [s EXCEPT !.robots = x].robots = x
    BY Zenon DEF Sweep
  <1> QED BY Zenon, <1>1, <1>2

LEMMA sweepListRobotsNames ==
    ASSUME SweepInv, TypeInv', RobotInv', sweepListRobots
    PROVE  SweepInv' /\ OneGoes
  <1>1. /\ UNCHANGED <<ha, robots, cache, passVars>> /\ spc' = "owners"
        /\ HarborOK /\ SpentOK
    BY Zenon, Split DEF sweepListRobots, SweepOn, apiVars, harborVars, SweepInv, RobotInv
  <1>2. CopiesAsOf'
    BY Zenon, <1>1, SameObjects, SweepCopies
  <1>3. sweep'.robots \subseteq Candidates /\ sweep'.since = spent.edits
    <2>1. CASE sweep' = [NoSweep EXCEPT !.listed = TRUE, !.robots = Candidates,
                                        !.since = spent.edits]
      BY Zenon, <2>1, NoSweepType DEF Sweep
    <2>2. CASE sweep' = [NoSweep EXCEPT !.since = spent.edits]
      <3>1. NoSweep.robots = {}
        BY Zenon DEF NoSweep
      <3> QED BY Zenon, <2>2, <3>1, NoSweepType DEF Sweep
    <2> QED BY Zenon, <2>1, <2>2 DEF sweepListRobots, SweepOn
  <1>4. ASSUME NEW k \in Candidates, NEW r \in robots, r.id = k.id
        PROVE  r.name = k.name
    <2>1. PICK q \in robots : k = [id |-> q.id, name |-> q.name, owner |-> q.owner]
      BY Zenon, <1>4 DEF Candidates
    <2>2. k.id = q.id /\ k.name = q.name
      BY Zenon, <2>1
    <2> QED BY Zenon, <1>1, <1>4, <2>2 DEF HarborOK
  <1>5. SweepNames' /\ Condemned'
    BY Zenon, <1>1, <1>3, <1>4 DEF SweepNames, Condemned
  <1>6. EditsGrow
    BY Zenon, <1>1, SameSpent, FaultGrows DEF sweepListRobots
  <1> QED BY Zenon, <1>1, <1>2, <1>3, <1>5, <1>6, SweepReads DEF SweepInv, EditsGrow

\* A step of the sweep that leaves robots alone and condemns none.
LEMMA NarrowsSweep ==
    ASSUME SweepInv, TypeInv', RobotInv', Narrows, EditsGrow, ObjectsKept,
           UNCHANGED <<harborVars, cache, passVars>>
    PROVE  SweepInv' /\ OneGoes
  <1>1. RobotsFollow /\ UNCHANGED robots
    <2>1. HarborOK
      BY Zenon, Split DEF SweepInv, RobotInv
    <2> QED BY Zenon, <2>1, SameRobots, KeptFollow DEF harborVars
  <1> QED BY Zenon, <1>1, NarrowsKeeps, SweepCopies, SweepReads DEF SweepInv

\* How the sweep goes on with s.
LEMMA ContinueNarrows ==
    ASSUME NEW at, NEW s, Continue(at, s), spc # "idle", at # "delRobot",
           s.since = sweep.since, s.robots \subseteq sweep.robots,
           at \in ListedPCs => spc \in ListedPCs
    PROVE  Narrows
  BY Zenon DEF Continue, SweepOn, Narrows

LEMMA listOwnersNarrows ==
    ASSUME SweepInv, listOwners
    PROVE  Narrows
  <1> DEFINE robs == {r \in sweep.robots : robotVerdict(r, liveOwner(r.owner))}
             secs == {k \in listRobotSecrets : secretVerdict(k.stamp, liveOwner(k.h))}
             own == {[h |-> h, ver |-> liveOwner(h).ver] :
                       h \in {k \in HarborAccesses : Releasable(liveOwner(k))}}
             s == [sweep EXCEPT !.robots = robs, !.secrets = secs, !.owners = own]
  <1>1. sweep \in Sweep /\ spc = "owners"
    BY Zenon, Split DEF SweepInv, RobotInv, SweepOK, listOwners
  <1>2. s.since = sweep.since /\ s.robots = robs
    BY Zenon, <1>1 DEF Sweep
  <1>3. Continue(AfterRobot(s), s) \/ SweepDone
    BY Zenon DEF listOwners
  <1>4. robs \subseteq sweep.robots
    BY Zenon
  <1> HIDE DEF s, robs
  <1> QED BY Zenon, <1>1, <1>2, <1>3, <1>4, AfterPCs, ContinueNarrows DEF Narrows, ListedPCs

LEMMA SecretSweepNarrows ==
    ASSUME SweepInv, recheckSecret \/ deleteOrphanSecret
    PROVE  Narrows
  <1>1. sweep \in Sweep
    BY Zenon, Split DEF SweepInv, RobotInv, SweepOK
  <1>2. ASSUME NEW k \in sweep.secrets, spc = "orphans",
               \/ Continue(AfterRobots([sweep EXCEPT !.secrets = sweep.secrets \ {k}]),
                           [sweep EXCEPT !.secrets = sweep.secrets \ {k}])
               \/ SweepOn("delSecret",
                          [[sweep EXCEPT !.secrets = sweep.secrets \ {k}] EXCEPT !.sec = k])
        PROVE  Narrows
    <2> DEFINE s == [sweep EXCEPT !.secrets = sweep.secrets \ {k}]
               t == [s EXCEPT !.sec = k]
    <2>1. s \in Sweep /\ s.since = sweep.since /\ s.robots = sweep.robots
      BY Zenon, <1>1 DEF Sweep
    <2>2. \/ Continue(AfterRobots(s), s) \/ SweepOn("delSecret", t)
      BY Zenon, <1>2
    <2> HIDE DEF s
    <2>3. t.since = sweep.since /\ t.robots = sweep.robots
      BY Zenon, <2>1 DEF Sweep
    <2> HIDE DEF t
    <2>4. CASE SweepOn("delSecret", t)
      BY Zenon, <1>2, <2>3, <2>4 DEF SweepOn, Narrows, ListedPCs
    <2>5. CASE Continue(AfterRobots(s), s)
      BY Zenon, <1>2, <2>1, <2>5, AfterPCs, ContinueNarrows DEF ListedPCs
    <2> QED BY Zenon, <2>2, <2>4, <2>5
  <1>3. CASE deleteOrphanSecret
    <2> DEFINE s == [sweep EXCEPT !.sec = NoSweep.sec]
    <2>1. s.since = sweep.since /\ s.robots = sweep.robots
      BY Zenon, <1>1, SweepFieldsKept
    <2>2. Continue(AfterRobots(s), s) /\ spc = "delSecret"
      BY Zenon, <1>3 DEF deleteOrphanSecret
    <2> HIDE DEF s
    <2> QED BY Zenon, <2>1, <2>2, AfterPCs, ContinueNarrows DEF ListedPCs
  <1> QED BY Zenon, <1>2, <1>3 DEF recheckSecret

LEMMA ReleaseNarrows ==
    ASSUME SweepInv, relistRobots \/ releaseUnselected
    PROVE  Narrows
  <1>1. sweep \in Sweep /\ spc # "idle"
    BY Zenon, Split DEF SweepInv, RobotInv, SweepOK, relistRobots, releaseUnselected
  <1>2. ASSUME NEW x, Continue(IF [sweep EXCEPT !.owners = x].owners # {} THEN "release" ELSE "idle",
                               [sweep EXCEPT !.owners = x])
        PROVE  Narrows
    <2> DEFINE s == [sweep EXCEPT !.owners = x]
    <2>1. s.since = sweep.since /\ s.robots = sweep.robots
      BY Zenon, <1>1, SweepFieldsKept
    <2>2. Continue(IF s.owners # {} THEN "release" ELSE "idle", s)
      BY Zenon, <1>2
    <2> HIDE DEF s
    <2> QED BY Zenon, <1>1, <2>1, <2>2, AfterPCs, ContinueNarrows DEF ListedPCs
  <1>3. CASE SweepDone
    BY Zenon, <1>3 DEF Narrows
  <1>4. CASE relistRobots
    BY Zenon, <1>2, <1>3, <1>4 DEF relistRobots
  <1>5. CASE releaseUnselected
    <2>1. PICK k \in sweep.owners :
             LET s == [sweep EXCEPT !.owners = @ \ {k}] IN
             Continue(IF s.owners # {} THEN "release" ELSE "idle", s)
      BY Zenon, <1>5 DEF releaseUnselected
    <2> QED BY Zenon, <1>2, <2>1
  <1> QED BY Zenon, <1>4, <1>5

\* The verdict the sweep acts on is about the owner as it is now.
LEMMA recheckRobotCondemns ==
    ASSUME SweepInv, TypeInv', RobotInv', recheckRobot
    PROVE  SweepInv' /\ OneGoes
  <1>1. /\ UNCHANGED <<ha, robots, harborVars, cache, passVars>> /\ spc = "robots"
        /\ sweep \in Sweep /\ SpentOK
    BY Zenon, Split DEF recheckRobot, apiVars, harborVars, SweepInv, RobotInv, SweepOK
  <1>2. EditsGrow
    BY Zenon, <1>1, SameSpent, FaultGrows DEF recheckRobot
  <1>3. PICK k \in sweep.robots :
           LET s == [sweep EXCEPT !.robots = @ \ {k}] IN
           \/ /\ robotVerdict(k, liveOwner(k.owner))
              /\ SweepOn("delRobot", [s EXCEPT !.id = k.id]) /\ UNCHANGED spent
           \/ Continue(AfterRobot(s), s)
    BY Zenon DEF recheckRobot
  <1> DEFINE s == [sweep EXCEPT !.robots = @ \ {k}]
             t == [s EXCEPT !.id = k.id]
  <1>4. s \in Sweep /\ s.since = sweep.since /\ s.robots = sweep.robots \ {k}
    BY Zenon, <1>1 DEF Sweep
  <1>5. \/ Continue(AfterRobot(s), s)
        \/ /\ robotVerdict(k, liveOwner(k.owner))
           /\ SweepOn("delRobot", t) /\ UNCHANGED spent
    BY Zenon, <1>3
  <1> HIDE DEF s
  <1>6. t.since = sweep.since /\ t.robots = sweep.robots \ {k} /\ t.id = k.id
    BY Zenon, <1>4 DEF Sweep
  <1> HIDE DEF t
  <1>7. CASE Continue(AfterRobot(s), s)
    <2>1. Narrows
      <3>1. s.robots \subseteq sweep.robots
        BY Zenon, <1>4
      <3> QED BY Zenon, <1>1, <1>4, <1>7, <3>1, AfterPCs, ContinueNarrows DEF ListedPCs
    <2> QED BY Zenon, <1>1, <1>2, <2>1, SameObjects, NarrowsSweep
  <1>8. CASE /\ robotVerdict(k, liveOwner(k.owner))
             /\ SweepOn("delRobot", t) /\ UNCHANGED spent
    <2>1. spc' = "delRobot" /\ sweep' = t /\ UNCHANGED spent
      BY Zenon, <1>8 DEF SweepOn
    <2>2. \A r \in robots : r.id = k.id => r.name = k.name /\ r.owner = k.owner
      BY Zenon, <1>1 DEF SweepInv, RobotInv, SweepRobots, SweepNames
    <2>3. Condemned'
      BY Zenon, <1>1, <1>6, <1>8, <2>1, <2>2 DEF Condemned, liveOwner, robotVerdict
    <2>4. SweepNames'
      BY Zenon, <1>1, <1>6, <2>1 DEF SweepInv, SweepNames
    <2>5. (spc # "idle" => sweep.since <= spent.edits)'
      BY Zenon, <1>1, <1>6, <2>1 DEF SweepInv
    <2>6. CopiesAsOf' /\ OneGoes
      BY Zenon, <1>1, SameObjects, SweepCopies, SweepReads
    <2> QED BY Zenon, <2>3, <2>4, <2>5, <2>6 DEF SweepInv
  <1> QED BY Zenon, <1>5, <1>7, <1>8

LEMMA deleteRobotOne ==
    ASSUME SweepInv, TypeInv', RobotInv', RobotsFollow, deleteRobot
    PROVE  SweepInv' /\ OneGoes
  <1> DEFINE s == [sweep EXCEPT !.id = 0]
  <1>1. /\ UNCHANGED <<ha, cache, passVars>> /\ spc = "delRobot"
        /\ sweep \in Sweep /\ SpentOK
    BY Zenon, Split DEF deleteRobot, apiVars, SweepInv, RobotInv, SweepOK
  <1>2. EditsGrow
    BY Zenon, <1>1, SameSpent, FaultGrows DEF deleteRobot
  <1>3. OneGoes
    <2>1. CASE UNCHANGED robots
      BY Zenon, <2>1, SweepReads
    <2>2. CASE DeleteRobots({sweep.id})
      BY Zenon, <2>2 DEF DeleteRobots, OneGoes, Same
    <2> QED BY Zenon, <2>1, <2>2 DEF deleteRobot
  <1>4. s.since = sweep.since /\ s.robots = sweep.robots
    BY Zenon, <1>1, SweepFieldsKept
  <1>5. Continue(AfterRobot(s), s)
    BY Zenon DEF deleteRobot
  <1> HIDE DEF s
  <1>6. Narrows
    BY Zenon, <1>1, <1>4, <1>5, AfterPCs, ContinueNarrows DEF ListedPCs
  <1> QED BY Zenon, <1>1, <1>2, <1>3, <1>6, NarrowsKeeps, SameObjects, SweepCopies DEF SweepInv

\* The other steps of the sweep.
LEMMA OtherSweepSteps ==
    ASSUME SweepInv, TypeInv', RobotInv',
           \/ listOwners \/ recheckSecret \/ deleteOrphanSecret
           \/ relistRobots \/ releaseUnselected
    PROVE  SweepInv' /\ OneGoes
  <1>1. Narrows
    BY Zenon, listOwnersNarrows, SecretSweepNarrows, ReleaseNarrows
  <1>2. APIOK /\ SpentOK /\ SweepOK /\ UNCHANGED <<harborVars, cache, passVars>>
    BY Zenon, Split DEF listOwners, recheckSecret, deleteOrphanSecret, relistRobots,
                        releaseUnselected, SweepInv, RobotInv
  <1>3. EditsGrow
    BY Zenon, <1>2, SameSpent, FaultGrows
       DEF listOwners, recheckSecret, deleteOrphanSecret, relistRobots, releaseUnselected
  <1>4. ObjectsKept
    <2>1. CASE UNCHANGED ha
      BY Zenon, <2>1, SameObjects
    <2>2. CASE releaseUnselected
      <3>1. PICK k \in sweep.owners :
               UNCHANGED ha \/ ha' = [ha EXCEPT ![k.h] = WithoutFinalizer(k.h)]
        BY Zenon, <2>2 DEF releaseUnselected
      <3>2. k.h \in HarborAccesses
        BY Zenon, <1>2, <3>1 DEF SweepOK, Sweep
      <3> QED BY Zenon, <1>2, <3>1, <3>2, SameObjects, WithoutFinalizerKeeps
    <2> QED BY Zenon, <2>1, <2>2
            DEF listOwners, recheckSecret, deleteOrphanSecret, relistRobots, apiVars
  <1> QED BY Zenon, <1>1, <1>2, <1>3, <1>4, NarrowsSweep

(***************************************************************************)
(* The invariant is inductive.                                             *)
(***************************************************************************)
LEMMA NextSweep ==
    ASSUME SweepInv, TypeInv', RobotInv', RobotsFollow, Next
    PROVE  SweepInv' /\ OneGoes
  <1>1. CASE Keeps
    BY Zenon, <1>1, SweepStays DEF Keeps, CopiesAsOf
  <1>2. CASE Bridge
    <2>1. CASE SweepStep
      BY ZenonT(30), <2>1, recheckRobotCondemns, deleteRobotOne, OtherSweepSteps DEF SweepStep
    <2> QED BY ZenonT(30), <1>1, <1>2, <2>1, ReconcileCopies, PassStepCopies, sweepListRobotsNames
            DEF Bridge
  <1>3. CASE Environment
    BY ZenonT(30), <1>1, <1>3, UserCopies, AdminCopies, SyncCopies, TakeoverCopies
       DEF Environment
  <1> QED BY Zenon, <1>2, <1>3 DEF Next

LEMMA StepSweep ==
    ASSUME SweepInv, [Next]_vars
    PROVE  SweepInv' /\ (OneGoes \/ UNCHANGED vars)
  <1>1. RobotInv' /\ (Safe \/ UNCHANGED vars)
    BY Zenon, StepRobot DEF SweepInv
  <1>2. TypeInv'
    BY Zenon, <1>1 DEF RobotInv
  <1>3. CASE UNCHANGED vars
    BY Zenon, <1>1, <1>3
       DEF vars, SweepInv, CopiesAsOf, CachesAsOf, AsOf, SweepNames, Condemned, EditedSince
  <1>4. CASE Next /\ ~UNCHANGED vars
    BY Zenon, <1>1, <1>2, <1>4, NextSweep DEF Safe
  <1> QED BY Zenon, <1>3, <1>4

LEMMA InitSweep == Init => SweepInv
  <1> SUFFICES ASSUME Init PROVE SweepInv
    OBVIOUS
  <1>1. pc = "idle" /\ spc = "idle" /\ cache = [r \in Replicas |-> ha] /\ RobotInv
    BY Zenon, InitRobot DEF Init
  <1>2. \A h \in HarborAccesses : ha[h].ver <= ha[h].ver
    BY Zenon, <1>1, Split, Versions DEF RobotInv, APIOK, HarborAccess
  <1>3. CopiesAsOf
    BY Zenon, <1>1, <1>2 DEF CopiesAsOf, CachesAsOf, AsOf
  <1> QED BY Zenon, <1>1, <1>3 DEF SweepInv, SweepNames, Condemned

\* In every instance, the janitor never deletes the robot its owner uses,
\* unless a user edited an object since the sweep began: the owner is read
\* again from the API server right before (liveOwner), and no write of the
\* bridge or an administrator changes what a HarborAccess asks for.
THEOREM WantedSpared == Spec => SweepSparesWanted
  <1>1. SweepInv /\ [Next]_vars => SweepInv' /\ [SparesWanted]_vars
    <2> SUFFICES ASSUME SweepInv, [Next]_vars
                 PROVE  SweepInv' /\ [SparesWanted]_vars
      OBVIOUS
    <2>1. SweepInv' /\ (OneGoes \/ UNCHANGED vars)
      BY Zenon, StepSweep
    <2>2. ASSUME OneGoes, NEW r \in robots, ~robotVerdict(r, ha[r.owner]),
                 spc = "delRobot", sweep' # sweep, Same(r) = {}
          PROVE  spent.edits > sweep.since
      <3>1. r.id = sweep.id
        BY Zenon, <2>2 DEF OneGoes
      <3>2. sweep.since < spent.edits
        BY Zenon, <2>2, <3>1 DEF SweepInv, Condemned, EditedSince
      <3> QED BY <3>2
    <2>3. OneGoes => SparesWanted
      BY Zenon, <2>2 DEF SparesWanted
    <2> QED BY Zenon, <2>1, <2>3
  <1> QED BY <1>1, InitSweep, PTL DEF Spec, SweepSparesWanted
=============================================================================
