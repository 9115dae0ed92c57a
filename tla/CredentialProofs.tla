-------------------------- MODULE CredentialProofs --------------------------
(***************************************************************************)
(* The credentials on their way to kubelet, for any number of objects,     *)
(* replicas, nodes and passwords: PromiseKept and RightRobot.  The         *)
(* argument follows a password: Harbor issues it to one account, a pass    *)
(* publishes it once with a promise that never changes (LedgerInv), the    *)
(* stored Secret and every cached copy of it carry that promise            *)
(* (SecretInv, ViewInv), kubelet keeps it no longer than a request beyond  *)
(* the promise (PullInv, CacheInv), and the schedule ends it no earlier    *)
(* than the safety margin beyond the promise.  The limiter in front of the *)
(* exchange comes last.                                                    *)
(***************************************************************************)
EXTENDS Credentials, TLAPS

(***************************************************************************)
(* Types.  TypeOK needs to know a little about a pass and a request under  *)
(* way: what they work on is there.                                        *)
(***************************************************************************)
PassShape ==
    /\ pass.at # "idle" => /\ pass.h \in HarborAccesses
                           /\ pass.object \in Access
                           /\ pass.replica \in Replicas
    /\ pass.at \in {"rotate", "write", "clean"} => robots[pass.object.sa] \in Robot
    /\ pass.at = "robot" => pass.robot = "found" /\ pass.pwd = NoPassword
    /\ pass.at = "rotate" /\ pass.robot = "created" => pass.pwd \in Passwords
    /\ pass.at = "write" /\ pass.pwd = NoPassword
          => /\ pass.copy \in Secret /\ pass.copy.sa = pass.object.sa
             /\ pass.copy.promise = NoPromise => pass.object.status.rotated \in Int

PullShape ==
    \A n \in Nodes : /\ Active(n) => pull[n].replica \in Replicas
                     /\ pull[n].at = "matched" => pull[n].match \in HarborAccesses

TypeInv == TypeOK /\ PassShape /\ PullShape

LEMMA Types ==
    ASSUME TypeOK
    PROVE  /\ access \in [HarborAccesses -> Access \cup {Gone}]
           /\ robots \in [ServiceAccounts -> Robot \cup {NoRobot}]
           /\ secret \in [HarborAccesses -> Secret \cup {NoSecret}]
           /\ view \in [Replicas -> View]
           /\ pass \in PassState
           /\ pull \in [Nodes -> Pull]
           /\ cache \in [Nodes -> Cached]
           /\ ledger \in [Passwords -> Entry]
           /\ budget \in Plan
           /\ now \in Nat
  BY Zenon DEF TypeOK

LEMMA RoundType ==
    ASSUME NEW t \in Int
    PROVE  /\ Truncate(t) \in Int /\ Truncate(t) <= t
           /\ t >= 0 => Truncate(t) \in Nat
           /\ FormatRotationNotBefore(t) \in Int
           /\ Truncate(FormatRotationNotBefore(t)) = FormatRotationNotBefore(t)
  <1> DEFINE S == Second
  <1>0. S \in Nat /\ S > 0
    BY ClockAssumption
  <1> HIDE DEF S
  <1>1. t % S \in 0..(S - 1)
    BY <1>0
  <1>2. t >= 0 => t % S <= t
    BY <1>0
  <1>3. (t - (t % S) + S) % S = 0
    BY <1>0, SMTT(20)
  <1>4. Truncate(t) \in Int /\ Truncate(t) <= t /\ (t >= 0 => Truncate(t) \in Nat)
    BY <1>0, <1>1, <1>2 DEF Truncate, S
  <1>5. CASE Truncate(t) = t
    BY Zenon, <1>4, <1>5 DEF FormatRotationNotBefore
  <1>6. CASE Truncate(t) # t
    <2>1. FormatRotationNotBefore(t) = t - (t % S) + S
      BY Zenon, <1>6 DEF FormatRotationNotBefore, Truncate, S
    <2>2. Truncate(t - (t % S) + S) = t - (t % S) + S
      BY <1>0, <1>1, <1>3 DEF Truncate, S
    <2> QED BY <1>0, <1>1, <1>4, <2>1, <2>2
  <1> QED BY Zenon, <1>5, <1>6

LEMMA CacheDurationType ==
    ASSUME NEW ttl \in Nat, NEW p \in Promise, NEW t \in Int
    PROVE  /\ cacheDuration(ttl, p, t) \in Nat
           /\ p # NoPromise /\ cacheDuration(ttl, p, t) > 0 => cacheDuration(ttl, p, t) <= p - t
  <1>1. CASE p = NoPromise
    BY Zenon, <1>1, ClockAssumption DEF cacheDuration
  <1>2. CASE p # NoPromise
    <2>1. p \in Int /\ p - t \in Int
      BY <1>2 DEF Promise
    <2>2. p - t > 0 => Truncate(p - t) \in Nat /\ Truncate(p - t) <= p - t
      BY <2>1, RoundType
    <2> QED BY <1>2, <2>1, <2>2, ClockAssumption DEF cacheDuration
  <1> QED BY Zenon, <1>1, <1>2
(***************************************************************************)
(* One step of every kind.                                                 *)
(***************************************************************************)
LEMMA Nothings ==
    /\ NoPass \in PassState /\ NoPull \in Pull /\ NotCached \in Cached /\ Refusal(0) \in Answer
    /\ Unissued \in Entry
    /\ \A s \in ServiceAccounts : Issued(s) \in Entry /\ Foreign(s) \in Secret
  <1>1. NoPass \in PassState
    BY DEF NoPass, Passing, PassState
  <1>2. Refusal(0) \in Answer
    BY ZenonT(30) DEF Refusal, Answer, Promise
  <1>3. NoPull \in Pull
    BY <1>2 DEF NoPull, Pulling, Pull
  <1>4. NotCached \in Cached
    BY Zenon DEF NotCached, Cached, Promise
  <1>5. Unissued \in Entry
    BY Zenon DEF Unissued, Entry, Promise
  <1>6. \A s \in ServiceAccounts : Issued(s) \in Entry /\ Foreign(s) \in Secret
    BY Zenon DEF Issued, Entry, Promise, Foreign, Secret
  <1> QED BY Zenon, <1>1, <1>2, <1>3, <1>4, <1>5, <1>6

LEMMA PassBegins ==
    ASSUME NEW x \in {"revoke", "refuse", "robot"}, NEW h \in HarborAccesses, NEW r \in Replicas,
           NEW a \in Access, NEW s \in Secret \cup {NoSecret}
    PROVE  Passing(x, h, r, a, s) \in PassState
  BY DEF Passing, PassState

LEMMA BeginTypes ==
    ASSUME TypeInv, NEW h \in HarborAccesses, Begin(h)
    PROVE  TypeInv'
  <1> DEFINE a(r) == view[r].access[h]
             at(r) == IF a(r).deleting THEN "revoke" ELSE IF a(r).spec # "good" THEN "refuse" ELSE "robot"
  <1>1. PICK r \in budget.up : a(r) # Gone /\ pass' = Passing(at(r), h, r, a(r), secret[h])
    BY Zenon DEF Begin
  <1>2. r \in Replicas /\ a(r) \in Access /\ secret[h] \in Secret \cup {NoSecret}
    BY <1>1 DEF TypeInv, TypeOK, Plan, View
  <1>a. at(r) \in {"revoke", "refuse", "robot"}
    OBVIOUS
  <1> HIDE DEF a, at
  <1>3. pass' \in PassState
    BY Zenon, <1>1, <1>2, <1>a, PassBegins
  <1>b. /\ pass'.h = h /\ pass'.object \in Access /\ pass'.replica = r
        /\ pass'.at \in {"revoke", "refuse", "robot"} /\ pass'.robot = "found" /\ pass'.pwd = NoPassword
    BY Zenon, <1>1, <1>2, <1>a DEF Passing
  <1>4. TypeOK'
    BY Zenon, <1>3 DEF TypeInv, TypeOK, Begin, limiterVars
  <1>5. PassShape' /\ PullShape'
    BY Zenon, <1>2, <1>b DEF TypeInv, PassShape, PullShape, Begin, Active
  <1> QED BY Zenon, <1>4, <1>5 DEF TypeInv

\* A pass that ends.
LEMMA PassEnds ==
    ASSUME pass' = NoPass
    PROVE  pass' \in PassState /\ PassShape'
  BY Zenon, Nothings DEF PassShape, NoPass, Passing

LEMMA RevokeTypes ==
    ASSUME TypeInv, reconcileDelete
    PROVE  TypeInv'
  <1>1. pass.h \in HarborAccesses
    BY Zenon DEF TypeInv, PassShape, reconcileDelete
  <1>2. robots' \in [ServiceAccounts -> Robot \cup {NoRobot}]
    BY Zenon DEF TypeInv, TypeOK, reconcileDelete
  <1>3. ledger' \in [Passwords -> Entry]
    <2>1. \A p \in Passwords : [ledger[p] EXCEPT !.end = "deleted"] \in Entry
      BY Zenon DEF TypeInv, TypeOK, Entry
    <2> QED BY Zenon, <2>1 DEF TypeInv, TypeOK, reconcileDelete
  <1>4. secret' \in [HarborAccesses -> Secret \cup {NoSecret}]
    BY Zenon, <1>1 DEF TypeInv, TypeOK, reconcileDelete
  <1>5. access' \in [HarborAccesses -> Access \cup {Gone}]
    BY Zenon, <1>1 DEF TypeInv, TypeOK, reconcileDelete
  <1>6. pass' \in PassState /\ PassShape'
    BY Zenon, PassEnds DEF reconcileDelete
  <1>7. PullShape'
    BY Zenon DEF TypeInv, PullShape, Active, reconcileDelete
  <1> QED BY Zenon, <1>2, <1>3, <1>4, <1>5, <1>6, <1>7 DEF TypeInv, TypeOK, reconcileDelete, limiterVars

LEMMA SuspendTypes ==
    ASSUME TypeInv, suspend
    PROVE  TypeInv'
  <1>1. pass.h \in HarborAccesses /\ pass.object.sa \in ServiceAccounts
    BY Zenon DEF TypeInv, PassShape, suspend, Access
  <1>2. robots' \in [ServiceAccounts -> Robot \cup {NoRobot}]
    <2>1. \A r \in Robot : [r EXCEPT !.suspended = TRUE] \in Robot
      BY Zenon DEF Robot
    <2> QED BY Zenon, <1>1, <2>1 DEF TypeInv, TypeOK, suspend
  <1>3. secret' \in [HarborAccesses -> Secret \cup {NoSecret}]
    BY Zenon, <1>1 DEF TypeInv, TypeOK, suspend
  <1>4. pass' \in PassState /\ PassShape'
    BY Zenon, PassEnds DEF suspend
  <1>5. PullShape'
    BY Zenon DEF TypeInv, PullShape, Active, suspend
  <1> QED BY Zenon, <1>2, <1>3, <1>4, <1>5 DEF TypeInv, TypeOK, suspend, limiterVars

\* The pass goes on with the same object.
Like(q, p) == q \in PassState /\ q.h = p.h /\ q.replica = p.replica /\ q.object = p.object /\ q.copy = p.copy

LEMMA PassGoesOn ==
    ASSUME NEW p \in PassState, NEW x \in {"rotate", "write", "clean"}
    PROVE  /\ Like([p EXCEPT !.at = x], p) /\ [p EXCEPT !.at = x].at = x
           /\ [p EXCEPT !.at = x].pwd = p.pwd /\ [p EXCEPT !.at = x].time = p.time
           /\ [p EXCEPT !.at = x].robot = p.robot
  <1>1. x \in {"idle", "revoke", "refuse", "robot", "rotate", "write", "clean"}
    OBVIOUS
  <1> QED BY <1>1, ZenonT(30) DEF Like, PassState

LEMMA PassStarts ==
    ASSUME NEW p \in PassState, NEW t \in Int
    PROVE  LET q == [p EXCEPT !.at = "rotate", !.time = t]
           IN  Like(q, p) /\ q.at = "rotate" /\ q.time = t /\ q.pwd = p.pwd /\ q.robot = p.robot
  BY Zenon DEF Like, PassState

LEMMA PassCreates ==
    ASSUME NEW p \in PassState, NEW w \in Passwords
    PROVE  LET q == [p EXCEPT !.pwd = w, !.robot = "created"]
           IN  Like(q, p) /\ q.at = p.at /\ q.time = p.time /\ q.pwd = w /\ q.robot = "created"
  BY Zenon DEF Like, PassState

LEMMA PassRotates ==
    ASSUME NEW p \in PassState, NEW w \in Passwords
    PROVE  LET q == [p EXCEPT !.at = "write", !.pwd = w]
           IN  Like(q, p) /\ q.at = "write" /\ q.time = p.time /\ q.pwd = w /\ q.robot = p.robot
  BY Zenon DEF Like, PassState

LEMMA EnsureRobotTypes ==
    ASSUME TypeInv, ensureRobot
    PROVE  TypeInv'
  <1> DEFINE s == pass.object.sa
             next == [pass EXCEPT !.at = "rotate", !.time = Clock(pass.replica)]
  <1>1. pass \in PassState /\ pass.at = "robot" /\ pass.h \in HarborAccesses /\ pass.object \in Access
        /\ pass.replica \in Replicas /\ s \in ServiceAccounts
    BY Zenon DEF TypeInv, TypeOK, PassShape, ensureRobot, Access
  <1>2. Clock(pass.replica) \in Int
    BY <1>1, ClockAssumption DEF TypeInv, TypeOK, Plan, Clock
  <1>3. Like(next, pass) /\ next.at = "rotate" /\ next.pwd = pass.pwd /\ next.robot = pass.robot
    <2> HIDE DEF next
    <2>1. next = [pass EXCEPT !.at = "rotate", !.time = Clock(pass.replica)]
      BY Zenon DEF next
    <2> QED BY <1>1, <1>2, <2>1, PassStarts, Zenon
  <1>4. PullShape'
    BY Zenon DEF TypeInv, PullShape, Active, ensureRobot
  <1>5. CASE pass' = NoPass /\ UNCHANGED <<robots, ledger>>
    BY Zenon, <1>4, <1>5, PassEnds DEF TypeInv, TypeOK, ensureRobot, limiterVars
  <1> HIDE DEF s, next
  <1>6. CASE /\ robots[s] # NoRobot
             /\ pass' = next
             /\ UNCHANGED <<robots, ledger>>
    <2>1. Like(pass', pass) /\ pass'.at = "rotate" /\ pass'.robot = "found"
      BY Zenon, <1>1, <1>3, <1>6 DEF TypeInv, PassShape
    <2>2. robots[s] \in Robot
      BY Zenon, <1>1, <1>6 DEF TypeInv, TypeOK
    <2>3. PassShape'
      BY Zenon, <1>1, <1>6, <2>1, <2>2 DEF PassShape, Like, s
    <2> QED BY Zenon, <1>4, <1>6, <2>1, <2>3 DEF TypeInv, TypeOK, ensureRobot, limiterVars, Like
  <1>7. ASSUME NEW p \in Passwords,
               robots' = [robots EXCEPT ![s] =
                            [id |-> p, owner |-> pass.h, pwd |-> p, suspended |-> FALSE]],
               ledger' = [ledger EXCEPT ![p] = Issued(s)],
               pass' = [next EXCEPT !.pwd = p, !.robot = "created"]
        PROVE  TypeInv'
    <2>1. next \in PassState
      BY Zenon, <1>3 DEF Like
    <2>2. Like(pass', next) /\ pass'.at = next.at /\ pass'.pwd = p /\ pass'.robot = "created"
      BY <1>7, <2>1, PassCreates, Zenon
    <2>3. [id |-> p, owner |-> pass.h, pwd |-> p, suspended |-> FALSE] \in Robot
      BY Zenon, <1>1 DEF Robot
    <2>4. robots' \in [ServiceAccounts -> Robot \cup {NoRobot}] /\ robots'[s] \in Robot
      BY Zenon, <1>1, <1>7, <2>3 DEF TypeInv, TypeOK, s
    <2>5. ledger' \in [Passwords -> Entry]
      BY Zenon, <1>1, <1>7, Nothings DEF TypeInv, TypeOK, s
    <2>6. Like(pass', pass) /\ pass'.at = "rotate"
      BY Zenon, <1>3, <2>2 DEF Like
    <2>7. PassShape'
      BY Zenon, <1>1, <2>2, <2>4, <2>6 DEF PassShape, Like, s
    <2> QED BY Zenon, <1>4, <2>4, <2>5, <2>6, <2>7 DEF TypeInv, TypeOK, ensureRobot, limiterVars, Like
  <1> QED BY Zenon, <1>5, <1>6, <1>7 DEF ensureRobot, s, next

LEMMA RotateTypes ==
    ASSUME TypeInv, rotate
    PROVE  TypeInv'
  <1> DEFINE s == pass.object.sa
             robot == robots[s]
             why == rotationReason(pass.object, pass.copy, robot, pass.time)
  <1>1. pass \in PassState /\ pass.at = "rotate" /\ pass.h \in HarborAccesses /\ pass.object \in Access
        /\ pass.replica \in Replicas /\ s \in ServiceAccounts /\ robot \in Robot
    BY Zenon DEF TypeInv, TypeOK, PassShape, rotate, Access
  <1>2. why \in {"none", "forced", "scheduled"}
    BY Zenon DEF rotationReason
  <1>3. PullShape'
    BY Zenon DEF TypeInv, PullShape, Active, rotate
  <1>4. CASE pass' = NoPass /\ UNCHANGED <<robots, secret, ledger>>
    BY Zenon, <1>3, <1>4, PassEnds DEF TypeInv, TypeOK, rotate, limiterVars
  <1>5. CASE /\ pass.robot = "created" \/ why = "none"
             /\ pass' = [pass EXCEPT !.at = "write"]
             /\ UNCHANGED <<robots, secret, ledger>>
    <2>1. Like(pass', pass) /\ pass'.at = "write" /\ pass'.pwd = pass.pwd
      BY <1>1, <1>5, PassGoesOn, Zenon
    <2>2. pass.pwd = NoPassword => why = "none"
      BY <1>1, <1>5, DistinctAssumption DEF TypeInv, PassShape, Passwords
    <2>3. why = "none" => ~forcedRotation(pass.object, pass.copy, robot, s)
      BY Zenon DEF rotationReason
    <2>4. ~forcedRotation(pass.object, pass.copy, robot, s)
             => /\ pass.copy \in Secret /\ pass.copy.sa = s
                /\ pass.copy.promise = NoPromise => pass.object.status.rotated \in Int
      BY Zenon, <1>1 DEF forcedRotation, PassState, Access, Status, Promise
    <2>5. PassShape'
      BY Zenon, <1>1, <1>5, <2>1, <2>2, <2>3, <2>4 DEF PassShape, Like
    <2> QED BY Zenon, <1>3, <1>5, <2>1, <2>5 DEF TypeInv, TypeOK, rotate, limiterVars, Like
  <1>6. ASSUME NEW p \in Passwords,
               robots' = [robots EXCEPT ![s].pwd = p, ![s].suspended = FALSE],
               ledger' = [ledger EXCEPT ![robot.pwd].end = why, ![p] = Issued(s)],
               pass' = [pass EXCEPT !.at = "write", !.pwd = p],
               secret' \in {secret, [secret EXCEPT ![pass.h] = NoSecret]}
        PROVE  TypeInv'
    <2>1. Like(pass', pass) /\ pass'.at = "write" /\ pass'.pwd = p
      BY <1>1, <1>6, PassRotates, Zenon
    <2>2. [[robot EXCEPT !.pwd = p] EXCEPT !.suspended = FALSE] \in Robot
      BY Zenon, <1>1 DEF Robot
    <2>3. robots' \in [ServiceAccounts -> Robot \cup {NoRobot}] /\ robots'[s] \in Robot
      BY ZenonT(30), <1>1, <1>6, <2>2 DEF TypeInv, TypeOK
    <2>4. [ledger[robot.pwd] EXCEPT !.end = why] \in Entry
      BY <1>1, <1>2 DEF TypeInv, TypeOK, Entry, Robot
    <2>5. ledger' \in [Passwords -> Entry]
      BY Zenon, <1>1, <1>6, <2>4, Nothings DEF TypeInv, TypeOK, Robot
    <2>6. PassShape'
      BY SMTT(20), <1>1, <2>1, <2>3, DistinctAssumption DEF PassShape, Like, Passwords
    <2>7. secret' \in [HarborAccesses -> Secret \cup {NoSecret}]
      BY Zenon, <1>1, <1>6 DEF TypeInv, TypeOK
    <2> QED BY Zenon, <1>3, <2>1, <2>3, <2>5, <2>6, <2>7 DEF TypeInv, TypeOK, rotate, limiterVars, Like
  <1> QED BY <1>4, <1>5, <1>6, Zenon DEF rotate

LEMMA WriteTypes ==
    ASSUME TypeInv, writeRobotSecret
    PROVE  TypeInv'
  <1> DEFINE s == pass.object.sa
             rotated == pass.pwd # NoPassword
             before == rotationNotBefore(pass.object, pass.copy, rotated, pass.time)
             promise == FormatRotationNotBefore(before)
             pwd == IF rotated THEN pass.pwd ELSE pass.copy.pwd
             updated == [sa |-> s, pwd |-> pwd, robot |-> robots[s].id, promise |-> promise,
                         own |-> TRUE]
  <1>1. pass \in PassState /\ pass.at = "write" /\ pass.h \in HarborAccesses /\ pass.object \in Access
        /\ pass.replica \in Replicas /\ s \in ServiceAccounts /\ robots[s] \in Robot
    BY Zenon DEF TypeInv, TypeOK, PassShape, writeRobotSecret, Access
  <1>2. before \in Int
    <2>1. pass.time \in Int
      BY Zenon, <1>1 DEF PassState
    <2>2. ~rotated => pass.copy \in Secret
                     /\ (pass.copy.promise = NoPromise => pass.object.status.rotated \in Int)
      BY Zenon, <1>1 DEF TypeInv, PassShape
    <2> QED BY <2>1, <2>2, ClockAssumption DEF rotationNotBefore, Secret, Promise
  <1>3. promise \in Int
    BY Zenon, <1>2, RoundType
  <1>4. pwd \in Passwords \cup {NoPassword}
    BY Zenon, <1>1 DEF TypeInv, PassShape, PassState, Secret
  <1> HIDE DEF pwd, promise, rotated
  <1>5. updated \in Secret
    BY Zenon, <1>1, <1>3, <1>4 DEF Secret, Promise, Robot
  <1>6. PullShape'
    BY Zenon DEF TypeInv, PullShape, Active, writeRobotSecret
  <1>7. Like([pass EXCEPT !.at = "clean"], pass) /\ [pass EXCEPT !.at = "clean"].at = "clean"
    BY Zenon, <1>1, PassGoesOn
  <1>8. CASE /\ secret' = [secret EXCEPT ![pass.h] = updated]
             /\ ledger' = [ledger EXCEPT ![pwd].promise = promise]
             /\ pass' = [pass EXCEPT !.at = "clean"]
    <2>1. \A e \in Entry : [e EXCEPT !.promise = promise] \in Entry
      BY Zenon, <1>3 DEF Entry, Promise
    <2>2. ledger' \in [Passwords -> Entry]
      BY Zenon, <1>8, <2>1 DEF TypeInv, TypeOK
    <2>3. secret' \in [HarborAccesses -> Secret \cup {NoSecret}]
      BY Zenon, <1>1, <1>5, <1>8 DEF TypeInv, TypeOK
    <2>4. Like(pass', pass) /\ pass'.at = "clean"
      BY <1>7, <1>8, Zenon
    <2>5. robots' = robots /\ PassShape'
      BY Zenon, <1>1, <2>4 DEF PassShape, Like, writeRobotSecret
    <2> QED BY Zenon, <1>6, <2>2, <2>3, <2>4, <2>5 DEF TypeInv, TypeOK, writeRobotSecret, limiterVars, Like
  <1>9. CASE pass' = NoPass /\ UNCHANGED <<secret, ledger>>
    BY Zenon, <1>6, <1>9, PassEnds DEF TypeInv, TypeOK, writeRobotSecret, limiterVars
  <1>10. CASE pass' = [pass EXCEPT !.at = "clean"] /\ UNCHANGED <<secret, ledger>>
    <2>1. Like(pass', pass) /\ pass'.at = "clean"
      BY <1>7, <1>10, Zenon
    <2>2. robots' = robots /\ PassShape'
      BY <1>1, <2>1 DEF PassShape, Like, writeRobotSecret
    <2> QED BY Zenon, <1>6, <1>10, <2>1, <2>2 DEF TypeInv, TypeOK, writeRobotSecret, limiterVars, Like
  <1> QED BY <1>8, <1>9, <1>10, Zenon DEF writeRobotSecret, pwd, promise, rotated

LEMMA FinishTypes ==
    ASSUME TypeInv, finish
    PROVE  TypeInv'
  <1> DEFINE a == pass.object
             robot == robots[a.sa]
             status == [id |-> robot.id, gen |-> a.gen,
                        rotated |-> IF pass.pwd # NoPassword THEN Truncate(pass.time)
                                    ELSE a.status.rotated]
  <1>1. pass \in PassState /\ pass.at = "clean" /\ pass.h \in HarborAccesses /\ a \in Access
        /\ robot \in Robot
    BY Zenon DEF TypeInv, TypeOK, PassShape, finish
  <1>2. Truncate(pass.time) \in Int
    BY Zenon, <1>1, RoundType DEF PassState
  <1>3. status \in Status
    BY Zenon, <1>1, <1>2 DEF Status, Promise, Robot, Access
  <1> HIDE DEF status
  <1>4. access' \in [HarborAccesses -> Access \cup {Gone}]
    <2>1. [a EXCEPT !.status = status] \in Access
      BY <1>1, <1>3, ZenonT(30) DEF Access
    <2> QED BY Zenon, <1>1, <2>1 DEF TypeInv, TypeOK, finish, status
  <1>5. robots' \in [ServiceAccounts -> Robot \cup {NoRobot}]
    BY Zenon DEF TypeInv, TypeOK, finish
  <1>6. ledger' \in [Passwords -> Entry]
    <2>1. \A p \in Passwords : [ledger[p] EXCEPT !.end = "deleted"] \in Entry
      BY DEF TypeInv, TypeOK, Entry
    <2> QED BY Zenon, <2>1 DEF TypeInv, TypeOK, finish
  <1>7. pass' \in PassState /\ PassShape'
    BY Zenon, PassEnds DEF finish
  <1>8. PullShape'
    BY Zenon DEF TypeInv, PullShape, Active, finish
  <1> QED BY ZenonT(30), <1>4, <1>5, <1>6, <1>7, <1>8 DEF TypeInv, TypeOK, finish, limiterVars

\* The environment uses up its budget and changes nothing else of the plan.
SamePlan(q, p) ==
    /\ q \in Plan
    /\ q.pods = p.pods /\ q.clock = p.clock /\ q.up = p.up /\ q.ttl = p.ttl /\ q.until = p.until

LEMMA PlanGoesOn ==
    ASSUME NEW p \in Plan
    PROVE  /\ p.faults > 0 => SamePlan([p EXCEPT !.faults = @ - 1], p)
           /\ p.edits > 0 => SamePlan([p EXCEPT !.edits = @ - 1], p)
           /\ p.admin > 0 => SamePlan([p EXCEPT !.admin = @ - 1], p)
  <1>1. \A k \in Nat : k > 0 => k - 1 \in Nat
    OBVIOUS
  <1>2. p.faults \in Nat /\ p.edits \in Nat /\ p.admin \in Nat
    BY Zenon DEF Plan
  <1>3. p.faults > 0 => p.faults - 1 \in Nat
    BY Zenon, <1>1, <1>2
  <1>4. p.edits > 0 => p.edits - 1 \in Nat
    BY Zenon, <1>1, <1>2
  <1>5. p.admin > 0 => p.admin - 1 \in Nat
    BY Zenon, <1>1, <1>2
  <1>6. p.faults > 0 => SamePlan([p EXCEPT !.faults = @ - 1], p)
    BY <1>3, Zenon DEF SamePlan, Plan
  <1>7. p.edits > 0 => SamePlan([p EXCEPT !.edits = @ - 1], p)
    BY <1>4, Zenon DEF SamePlan, Plan
  <1>8. p.admin > 0 => SamePlan([p EXCEPT !.admin = @ - 1], p)
    BY <1>5, Zenon DEF SamePlan, Plan
  <1> QED BY Zenon, <1>6, <1>7, <1>8

LEMMA FaultTypes ==
    ASSUME TypeInv, Fault
    PROVE  SamePlan(budget', budget)
  BY PlanGoesOn, Zenon DEF TypeInv, TypeOK, Fault

LEMMA PassDiesTypes ==
    ASSUME TypeInv, passDies
    PROVE  TypeInv'
  <1>1. budget' \in Plan
    BY Zenon, FaultTypes DEF passDies, SamePlan
  <1>2. pass' \in PassState /\ PassShape'
    BY Zenon, PassEnds DEF passDies
  <1>3. PullShape'
    BY Zenon DEF TypeInv, PullShape, Active, passDies
  <1> QED BY Zenon, <1>1, <1>2, <1>3 DEF TypeInv, TypeOK, passDies, limiterVars

LEMMA EditsTypes ==
    ASSUME NEW a \in Access, NEW b \in Edits(a)
    PROVE  b \in Access /\ b.status = a.status
  <1>1. a.gen + 1 \in Nat
    BY DEF Access
  <1>2. ASSUME NEW s \in ServiceAccounts, b = [a EXCEPT !.sa = s, !.gen = @ + 1]
        PROVE  b \in Access /\ b.status = a.status
    BY <1>1, <1>2, Zenon DEF Access
  <1>3. ASSUME NEW x \in Specs, b = [a EXCEPT !.spec = x, !.gen = @ + 1]
        PROVE  b \in Access /\ b.status = a.status
    BY <1>1, <1>3, Zenon DEF Access
  <1>4. CASE b = [a EXCEPT !.deleting = TRUE, !.gen = @ + 1]
    BY <1>1, <1>4, Zenon DEF Access
  <1> QED BY <1>2, <1>3, <1>4, Zenon DEF Edits

LEMMA EditTypes ==
    ASSUME TypeInv, NEW h \in HarborAccesses, edit(h)
    PROVE  TypeInv'
  <1>1. /\ access[h] # Gone /\ \E a \in Edits(access[h]) : access' = [access EXCEPT ![h] = a]
        /\ UNCHANGED <<robots, secret, view, pass, pull, cache, ledger, now>>
    BY Zenon DEF edit, limiterVars
  <1>2. access \in [HarborAccesses -> Access \cup {Gone}]
    BY Zenon DEF TypeInv, TypeOK
  <1>3. access' \in [HarborAccesses -> Access \cup {Gone}]
    BY Zenon, <1>1, <1>2, EditsTypes
  <1>4. SamePlan(budget', budget)
    BY PlanGoesOn, Zenon DEF TypeInv, TypeOK, edit
  <1>5. PassShape' /\ PullShape'
    BY Zenon, <1>1 DEF TypeInv, PassShape, PullShape, Active
  <1> QED BY <1>1, <1>3, <1>4, <1>5, Zenon DEF TypeInv, TypeOK, SamePlan

LEMMA ReplaceSecretTypes ==
    ASSUME TypeInv, NEW h \in HarborAccesses, replaceSecret(h)
    PROVE  TypeInv'
  <1>1. secret[h] \in Secret /\ secret[h].sa \in ServiceAccounts
    BY Zenon DEF TypeInv, TypeOK, replaceSecret, Secret
  <1>2. Foreign(secret[h].sa) \in Secret
    BY Zenon, <1>1, Nothings
  <1>3. secret' \in [HarborAccesses -> Secret \cup {NoSecret}]
    BY Zenon, <1>1, <1>2 DEF TypeInv, TypeOK, replaceSecret
  <1>4. SamePlan(budget', budget)
    BY PlanGoesOn, Zenon DEF TypeInv, TypeOK, replaceSecret
  <1>5. PassShape' /\ PullShape'
    BY Zenon DEF TypeInv, PassShape, PullShape, Active, replaceSecret
  <1> QED BY Zenon, <1>3, <1>4, <1>5 DEF TypeInv, TypeOK, replaceSecret, limiterVars, SamePlan

LEMMA SyncTypes ==
    ASSUME TypeInv, NEW r \in Replicas, NEW h \in HarborAccesses, syncAccess(r, h) \/ syncSecret(r, h)
    PROVE  TypeInv'
  <1>1. view[r] \in View /\ view[r].access \in [HarborAccesses -> Access \cup {Gone}]
        /\ view[r].secret \in [HarborAccesses -> Secret \cup {NoSecret}]
    BY Zenon DEF TypeInv, TypeOK, View
  <1>2. [view[r].access EXCEPT ![h] = access[h]] \in [HarborAccesses -> Access \cup {Gone}]
    BY Zenon, <1>1 DEF TypeInv, TypeOK
  <1>3. [view[r].secret EXCEPT ![h] = secret[h]] \in [HarborAccesses -> Secret \cup {NoSecret}]
    BY Zenon, <1>1 DEF TypeInv, TypeOK
  <1>4. [view[r] EXCEPT !.access = [view[r].access EXCEPT ![h] = access[h]]] \in View
    BY Zenon, <1>1, <1>2 DEF View
  <1>5. [view[r] EXCEPT !.secret = [view[r].secret EXCEPT ![h] = secret[h]]] \in View
    BY Zenon, <1>1, <1>3 DEF View
  <1>6. view' \in [Replicas -> View]
    BY Zenon, <1>4, <1>5 DEF TypeInv, TypeOK, syncAccess, syncSecret
  <1>7. PassShape' /\ PullShape'
    BY Zenon DEF TypeInv, PassShape, PullShape, Active, syncAccess, syncSecret, accessVars
  <1> QED BY Zenon, <1>6, <1>7 DEF TypeInv, TypeOK, syncAccess, syncSecret, limiterVars, accessVars

\* A request on one node goes on; the control plane does not notice.
GoodPull(q) ==
    /\ q \in Pull
    /\ q.at \in {"sent", "matched", "answered"} => q.replica \in Replicas
    /\ q.at = "matched" => q.match \in HarborAccesses

LEMMA PullGoesOn ==
    ASSUME TypeInv, NEW n \in Nodes, NEW q, GoodPull(q), pull' = [pull EXCEPT ![n] = q],
           cache' \in [Nodes -> Cached], budget' \in Plan, now' \in Nat,
           UNCHANGED <<access, robots, secret, view, pass, ledger>>
    PROVE  TypeInv'
  <1>1. PullShape'
    BY Zenon DEF TypeInv, TypeOK, PullShape, Active, GoodPull
  <1>2. pull' \in [Nodes -> Pull]
    BY Zenon DEF TypeInv, TypeOK, GoodPull
  <1>3. PassShape'
    BY Zenon DEF TypeInv, PassShape
  <1> QED BY Zenon, <1>1, <1>2, <1>3 DEF TypeInv, TypeOK

LEMMA PullingGood ==
    ASSUME NEW r \in Replicas, NEW k \in 0..2, NEW d \in Nat
    PROVE  /\ GoodPull(Pulling("sent", r, k, d))
           /\ GoodPull(Pulling("backoff", 0, k, d))
  BY Zenon, Nothings DEF GoodPull, Pulling, Pull

LEMMA DoneGood ==
    ASSUME NEW a \in Answer
    PROVE  GoodPull(Done(a))
  BY DEF GoodPull, Done, Pull

LEMMA AnswersGood ==
    ASSUME NEW q \in Pull, NEW a \in Answer
    PROVE  /\ Answered(q, a).at = "answered" /\ Answered(q, a).answer = a
           /\ Answered(q, a).deadline = q.deadline /\ Answered(q, a).tries = q.tries
           /\ q.replica \in Replicas => GoodPull(Answered(q, a))
  BY Zenon DEF GoodPull, Pull, Answered

LEMMA MatchesGood ==
    ASSUME NEW q \in Pull, NEW h \in HarborAccesses
    PROVE  /\ Matched(q, h).at = "matched" /\ Matched(q, h).match = h
           /\ Matched(q, h).deadline = q.deadline /\ Matched(q, h).tries = q.tries
           /\ Matched(q, h).answer = q.answer
           /\ q.replica \in Replicas => GoodPull(Matched(q, h))
  BY Zenon DEF GoodPull, Pull, Matched

LEMMA FetchTypes ==
    ASSUME TypeInv, NEW n \in Nodes, Fetch(n) \/ retry(n) \/ backoff(n)
    PROVE  TypeInv'
  <1>1. now + RequestTimeout \in Nat /\ now + Second \in Nat /\ 1 \in 0..2 /\ 2 \in 0..2
    BY ClockAssumption DEF TypeInv, TypeOK
  <1>2. budget.up \subseteq Replicas
    BY Zenon DEF TypeInv, TypeOK, Plan
  <1>3. UNCHANGED <<access, robots, secret, view, pass, ledger, cache, budget, now>>
    BY Zenon DEF Fetch, retry, backoff, accessVars, limiterVars
  <1>4. CASE Fetch(n)
    <2>1. PICK r \in budget.up : pull' = [pull EXCEPT ![n] = Pulling("sent", r, 1, now + RequestTimeout)]
      BY ZenonT(30), <1>4 DEF Fetch
    <2>2. GoodPull(Pulling("sent", r, 1, now + RequestTimeout))
      BY Zenon, <1>1, <1>2, PullingGood
    <2> QED BY Zenon, <1>3, <2>1, <2>2, PullGoesOn DEF TypeInv, TypeOK
  <1>5. CASE retry(n)
    <2>1. PICK r \in budget.up : pull' = [pull EXCEPT ![n] = Pulling("sent", r, 2, now + RequestTimeout)]
      BY Zenon, <1>5 DEF retry
    <2>2. GoodPull(Pulling("sent", r, 2, now + RequestTimeout))
      BY Zenon, <1>1, <1>2, PullingGood
    <2> QED BY Zenon, <1>3, <2>1, <2>2, PullGoesOn DEF TypeInv, TypeOK
  <1>6. CASE backoff(n)
    <2>1. PICK r \in Replicas : TRUE
      BY Zenon, <1>6 DEF TypeInv, PullShape, Active, backoff
    <2>2. GoodPull(Pulling("backoff", 0, 1, now + Second))
      BY Zenon, <1>1, <2>1, PullingGood
    <2> QED BY Zenon, <1>3, <1>6, <2>2, PullGoesOn DEF TypeInv, TypeOK, backoff
  <1> QED BY Zenon, <1>4, <1>5, <1>6

LEMMA PullFacts ==
    ASSUME TypeInv, NEW n \in Nodes, Active(n)
    PROVE  /\ pull[n] \in Pull /\ pull[n].replica \in Replicas
           /\ pull[n].at = "matched" => pull[n].match \in HarborAccesses
  BY Zenon DEF TypeInv, TypeOK, PullShape

LEMMA ClockTypes ==
    ASSUME TypeInv, NEW r \in Replicas
    PROVE  Clock(r) \in Int /\ now <= Clock(r) /\ Clock(r) <= now + Skew
  <1>1. now \in Nat /\ budget.clock[r] \in 0..Skew
    BY Zenon DEF TypeInv, TypeOK, Plan
  <1> QED BY <1>1, ClockAssumption DEF Clock

LEMMA LimiterTypes ==
    ASSUME TypeInv, NEW n \in Nodes, NEW ok \in BOOLEAN, Limiter(n, ok)
    PROVE  now' = now
  BY Zenon DEF Limiter, limiterVars

LEMMA ReplyTypes ==
    ASSUME TypeInv, NEW n \in Nodes, NEW x \in {401, 403, 429, 500, 503}, Reply(n, x), Active(n),
           now' = now, budget' \in Plan, UNCHANGED <<access, robots, secret, view, pass, ledger, cache>>
    PROVE  TypeInv'
  <1>1. Refusal(x) \in Answer
    BY DEF Refusal, Answer, Promise
  <1>2. pull[n] \in Pull /\ pull[n].replica \in Replicas
    BY DEF TypeInv, TypeOK, PullShape
  <1>3. GoodPull(Answered(pull[n], Refusal(x)))
    BY <1>1, <1>2, AnswersGood
  <1>4. cache' \in [Nodes -> Cached] /\ now' \in Nat
    BY ZenonT(30) DEF TypeInv, TypeOK
  <1> QED BY ZenonT(30), <1>3, <1>4, PullGoesOn DEF Reply

LEMMA TooManyRequestsTypes ==
    ASSUME TypeInv, NEW n \in Nodes, tooManyRequests(n)
    PROVE  TypeInv'
  <1>1. /\ pull[n].at = "sent" /\ Limiter(n, FALSE) /\ Reply(n, 429)
        /\ UNCHANGED <<access, robots, secret, view, pass, ledger, cache, budget>>
    BY Zenon DEF tooManyRequests, accessVars
  <1>2. now' = now /\ Active(n) /\ budget' \in Plan
    <2>1. now' = now
      BY Zenon, <1>1, LimiterTypes
    <2> QED BY Zenon, <1>1, <2>1 DEF Active, TypeInv, TypeOK
  <1> QED BY <1>1, <1>2, ReplyTypes

LEMMA RequestFailsTypes ==
    ASSUME TypeInv, NEW n \in Nodes, requestFails(n)
    PROVE  TypeInv'
  <1>1. /\ pull[n].at = "sent" /\ Limiter(n, TRUE) /\ Fault
        /\ UNCHANGED <<access, robots, secret, view, pass, ledger, cache>>
    BY ZenonT(30) DEF requestFails, accessVars
  <1>2. PICK x \in {401, 500, 503} : Reply(n, x)
    BY Zenon DEF requestFails
  <1>3. now' = now /\ Active(n) /\ budget' \in Plan
    <2>1. now' = now
      BY ZenonT(30), <1>1, LimiterTypes
    <2>2. budget' \in Plan
      BY ZenonT(30), <1>1, FaultTypes DEF SamePlan
    <2> QED BY ZenonT(30), <1>1, <2>1, <2>2 DEF Active
  <1> QED BY <1>1, <1>2, <1>3, ReplyTypes

LEMMA FindHarborAccessTypes ==
    ASSUME TypeInv, NEW n \in Nodes, findHarborAccess(n)
    PROVE  TypeInv'
  <1>1. /\ pull[n].at = "sent" /\ Limiter(n, TRUE)
        /\ UNCHANGED <<access, robots, secret, view, pass, ledger, cache, budget>>
    BY Zenon DEF findHarborAccess, accessVars
  <1>2. now' = now /\ Active(n) /\ budget' \in Plan /\ now' \in Nat /\ cache' \in [Nodes -> Cached]
    <2>1. now' = now
      BY Zenon, <1>1, LimiterTypes
    <2> QED BY Zenon, <1>1, <2>1 DEF Active, TypeInv, TypeOK
  <1>3. Reply(n, 403) \/ \E h \in HarborAccesses : pull' = [pull EXCEPT ![n] = Matched(pull[n], h)]
    BY Zenon DEF findHarborAccess, matching
  <1>4. CASE Reply(n, 403)
    BY <1>1, <1>2, <1>4, ReplyTypes
  <1>5. ASSUME NEW h \in HarborAccesses, pull' = [pull EXCEPT ![n] = Matched(pull[n], h)] PROVE TypeInv'
    <2>1. pull[n] \in Pull /\ pull[n].replica \in Replicas
      BY Zenon, <1>2, PullFacts
    <2>2. GoodPull(Matched(pull[n], h))
      BY Zenon, <2>1, MatchesGood
    <2> QED BY Zenon, <1>1, <1>2, <1>5, <2>2, PullGoesOn
  <1> QED BY Zenon, <1>3, <1>4, <1>5

LEMMA ReadRobotSecretTypes ==
    ASSUME TypeInv, NEW n \in Nodes, readRobotSecret(n)
    PROVE  TypeInv'
  <1> DEFINE r == pull[n].replica
             s == view[r].secret[pull[n].match]
             x == secretStatus(s, budget.pods[n])
             d == Truncate(cacheDuration(budget.ttl, s.promise, Clock(r)))
             credentials == [status |-> 200, pwd |-> s.pwd, promise |-> s.promise, duration |-> d]
  <1>1. /\ pull[n].at = "matched"
        /\ UNCHANGED <<access, robots, secret, view, pass, ledger, cache, budget, now>>
    BY Zenon DEF readRobotSecret, accessVars, limiterVars
  <1>2. \/ x # 200 /\ Reply(n, x)
        \/ x = 200 /\ pull' = [pull EXCEPT ![n] = Answered(pull[n], credentials)]
    BY Zenon DEF readRobotSecret
  <1>3. Active(n) /\ budget' \in Plan /\ now' \in Nat /\ now' = now /\ cache' \in [Nodes -> Cached]
    BY Zenon, <1>1 DEF Active, TypeInv, TypeOK
  <1>4. pull[n] \in Pull /\ r \in Replicas /\ pull[n].match \in HarborAccesses
    BY Zenon, <1>1, <1>3, PullFacts
  <1>5. view \in [Replicas -> View] /\ budget.ttl \in Nat
    BY Zenon DEF TypeInv, TypeOK, Plan
  <1>6. s \in Secret \cup {NoSecret}
    BY Zenon, <1>4, <1>5 DEF View
  <1>7. Clock(r) \in Int
    BY Zenon, <1>4, ClockTypes
  <1> HIDE DEF s, r
  <1>8. x \in {200, 403, 503} /\ (x = 200 => s # NoSecret)
    BY DEF secretStatus
  <1>9. s \in Secret => d \in Nat
    <2>1. s \in Secret => s.promise \in Promise
      BY Zenon DEF Secret
    <2>2. s \in Secret => cacheDuration(budget.ttl, s.promise, Clock(r)) \in Nat
      BY Zenon, <1>5, <1>7, <2>1, CacheDurationType
    <2> QED BY <2>2, RoundType
  <1> HIDE DEF d, x
  <1>10. CASE x # 200 /\ Reply(n, x)
    BY <1>1, <1>3, <1>8, <1>10, ReplyTypes
  <1>11. CASE x = 200 /\ pull' = [pull EXCEPT ![n] = Answered(pull[n], credentials)]
    <2>1. credentials \in Answer
      BY SMTT(20), <1>6, <1>8, <1>9, <1>11 DEF Answer, Secret
    <2> HIDE DEF credentials
    <2>2. GoodPull(Answered(pull[n], credentials))
      BY Zenon, <1>4, <2>1, AnswersGood DEF r
    <2> QED BY Zenon, <1>1, <1>3, <1>11, <2>2, PullGoesOn
  <1> QED BY Zenon, <1>2, <1>10, <1>11

LEMMA ReceiveTypes ==
    ASSUME TypeInv, NEW n \in Nodes, receive(n)
    PROVE  TypeInv'
  <1> DEFINE a == pull[n].answer
             duration == IF a.duration > MaxCacheDuration THEN MaxCacheDuration ELSE a.duration
             entry == IF a.status = 200 /\ duration > 0
                      THEN [pwd |-> a.pwd, until |-> now + duration, promise |-> a.promise]
                      ELSE NotCached
  <1>1. /\ cache' = [cache EXCEPT ![n] = entry]
        /\ pull' = [pull EXCEPT ![n] = Done(a)]
        /\ UNCHANGED <<access, robots, secret, view, pass, ledger, budget, now>>
    BY Zenon DEF receive, accessVars, limiterVars
  <1>2. pull \in [Nodes -> Pull] /\ now \in Nat /\ budget \in Plan /\ cache \in [Nodes -> Cached]
    BY Zenon DEF TypeInv, TypeOK
  <1>3. a \in Answer
    BY Zenon, <1>2 DEF Pull
  <1> HIDE DEF a
  <1>4. duration \in Nat
    BY <1>3, ClockAssumption DEF Answer
  <1> HIDE DEF duration
  <1>5. entry \in Cached
    BY <1>2, <1>3, <1>4, Nothings DEF Cached, Answer
  <1> HIDE DEF entry
  <1>6. cache' \in [Nodes -> Cached]
    BY Zenon, <1>1, <1>2, <1>5
  <1> QED BY Zenon, <1>1, <1>2, <1>3, <1>6, DoneGood, PullGoesOn

LEMMA FetchFailsTypes ==
    ASSUME TypeInv, NEW n \in Nodes, fetchFails(n)
    PROVE  TypeInv'
  <1>1. /\ UNCHANGED budget \/ Fault
        /\ pull' = [pull EXCEPT ![n] = Done(Refusal(0))]
        /\ UNCHANGED <<access, robots, secret, view, pass, ledger, cache, now>>
    BY Zenon DEF fetchFails, accessVars, limiterVars
  <1>2. budget' \in Plan
    BY <1>1, FaultTypes, Zenon DEF SamePlan, TypeInv, TypeOK
  <1>3. now \in Nat /\ cache \in [Nodes -> Cached] /\ GoodPull(Done(Refusal(0)))
    BY Nothings, DoneGood, ZenonT(30) DEF TypeInv, TypeOK
  <1> QED BY Zenon, <1>1, <1>2, <1>3, PullGoesOn

LEMMA TickTypes ==
    ASSUME TypeInv, Tick
    PROVE  TypeInv'
  BY DEF TypeInv, TypeOK, PassShape, PullShape, Active, Tick, credentialVars, LimiterTick

LEMMA InitTypes ==
    ASSUME Init
    PROVE  TypeInv
  <1>1. budget \in Plan /\ now = 0
    BY Zenon, PlansAreWellFormed DEF Init, LimiterInit
  <1>2. HarborAccesses \subseteq Passwords
    BY Zenon, DistinctAssumption DEF Passwords
  <1>3. OldPromise \in Promise
    <2>1. PasswordRotationInterval \in Int
      BY ClockAssumption
    <2> QED BY Zenon, <2>1, RoundType DEF OldPromise, Promise
  <1>4. \A h \in HarborAccesses : budget.accounts[h] \in ServiceAccounts \cup {Gone}
    BY Zenon, <1>1 DEF Plan
  <1>5. access \in [HarborAccesses -> Access \cup {Gone}]
    <2>1. \A h \in HarborAccesses : [id |-> h, rotated |-> 0, gen |-> 1] \in Status
      BY <1>2 DEF Status, Promise
    <2>2. [id |-> NoRobot, rotated |-> NoPromise, gen |-> 0] \in Status
      BY Zenon DEF Status, Promise
    <2> DEFINE st(h) == IF Old(h) THEN [id |-> h, rotated |-> 0, gen |-> 1]
                        ELSE [id |-> NoRobot, rotated |-> NoPromise, gen |-> 0]
    <2>3. \A h \in HarborAccesses : st(h) \in Status
      BY Zenon, <2>1, <2>2
    <2>4. access = [h \in HarborAccesses |-> IF budget.accounts[h] = Gone THEN Gone ELSE
            [sa |-> budget.accounts[h], spec |-> "good", deleting |-> FALSE, gen |-> 1, status |-> st(h)]]
      BY Zenon DEF Init
    <2> HIDE DEF st
    <2>5. \A h \in HarborAccesses : budget.accounts[h] # Gone =>
             [sa |-> budget.accounts[h], spec |-> "good", deleting |-> FALSE, gen |-> 1, status |-> st(h)]
                \in Access
      BY Zenon, <1>4, <2>3 DEF Access, Specs
    <2> QED BY Zenon, <2>4, <2>5
  <1>6. secret \in [HarborAccesses -> Secret \cup {NoSecret}]
    <2>1. \A h \in HarborAccesses : Old(h) => budget.accounts[h] \in ServiceAccounts
      BY Zenon, <1>4 DEF Old
    <2>2. \A h \in HarborAccesses : Old(h) =>
             [sa |-> budget.accounts[h], pwd |-> h, promise |-> OldPromise, own |-> TRUE,
              robot |-> IF OldPromise = NoPromise THEN NoRobot ELSE h] \in Secret
      BY Zenon, <1>2, <1>3, <2>1 DEF Secret
    <2> QED BY Zenon, <2>2 DEF Init
  <1>7. robots \in [ServiceAccounts -> Robot \cup {NoRobot}]
    <2>1. \A h \in HarborAccesses : [id |-> h, owner |-> h, pwd |-> h, suspended |-> FALSE] \in Robot
      BY Zenon, <1>2 DEF Robot
    <2>2. \A s \in ServiceAccounts : OldOwners(s) # {} =>
             (CHOOSE h \in OldOwners(s) : TRUE) \in HarborAccesses
      BY Zenon DEF OldOwners
    <2> QED BY <2>1, <2>2, Zenon DEF Init
  <1>8. ledger \in [Passwords -> Entry]
    <2>1. \A p \in HarborAccesses : [sa |-> budget.accounts[p], promise |-> OldPromise, end |-> "none"] \in Entry
      BY Zenon, <1>3, <1>4 DEF Entry
    <2> QED BY Zenon, <2>1, Nothings DEF Init
  <1>9. view \in [Replicas -> View]
    BY Zenon, <1>5, <1>6 DEF Init, View
  <1>10. pass \in PassState /\ PassShape
    BY Zenon, Nothings DEF Init, PassShape, NoPass, Passing
  <1>11. pull \in [Nodes -> Pull] /\ PullShape /\ cache \in [Nodes -> Cached]
    BY Zenon, Nothings DEF Init, PullShape, Active, NoPull, Pulling
  <1> QED BY Zenon, <1>1, <1>5, <1>6, <1>7, <1>8, <1>9, <1>10, <1>11 DEF TypeInv, TypeOK

LEMMA StepTypes ==
    ASSUME TypeInv, [Next]_vars
    PROVE  TypeInv'
  <1>1. CASE Pass
    BY Zenon, <1>1, RevokeTypes, SuspendTypes, EnsureRobotTypes, RotateTypes, WriteTypes, FinishTypes DEF Pass
  <1>2. CASE Environment
    BY Zenon, <1>2, PassDiesTypes, EditTypes, ReplaceSecretTypes, FetchFailsTypes, RequestFailsTypes DEF Environment
  <1>3. CASE Sync
    BY Zenon, <1>3, SyncTypes DEF Sync, TypeInv, TypeOK, Plan
  <1>4. CASE \E h \in HarborAccesses : Begin(h)
    BY Zenon, <1>4, BeginTypes
  <1>5. CASE \E n \in Nodes : Plugin(n) \/ ServeHTTP(n)
    BY Zenon, <1>5, FetchTypes, ReceiveTypes, TooManyRequestsTypes, FindHarborAccessTypes, ReadRobotSecretTypes DEF Plugin, ServeHTTP
  <1>6. CASE UNCHANGED vars
    BY Zenon, <1>6 DEF vars, credentialVars, limiterVars, TypeInv, TypeOK, PassShape, PullShape, Active
  <1> QED BY Zenon, <1>1, <1>2, <1>3, <1>4, <1>5, <1>6, TickTypes DEF Next

\* Every value of the program stays within its type, however many objects,
\* replicas and passwords there are (Reconcile, ServeHTTP, fetch).
THEOREM CredentialTypesHold == Spec => []TypeOK
  <1>1. Init => TypeInv
    BY Zenon, InitTypes
  <1>2. TypeInv /\ [Next]_vars => TypeInv'
    BY Zenon, StepTypes
  <1>3. TypeInv => TypeOK
    BY Zenon DEF TypeInv
  <1> QED BY <1>1, <1>2, <1>3, PTL DEF Spec

(***************************************************************************)
(* The invariant, and the steps that issue no password.                    *)
(***************************************************************************)
Own(s) == s # NoSecret /\ s.own

Published(p) == ledger[p].promise # NoPromise

\* A published promise has whole seconds, and the schedule kept it.
LedgerInv ==
    \A p \in Passwords : Published(p) =>
        /\ Truncate(ledger[p].promise) = ledger[p].promise
        /\ ledger[p].end = "scheduled" => ledger[p].promise + RotationSafetyMargin <= now + Skew

\* A robot's password was issued to it and is in force.
RobotInv ==
    \A s \in ServiceAccounts : robots[s] # NoRobot =>
        ledger[robots[s].pwd].sa = s /\ ledger[robots[s].pwd].end = "none"

\* A copy of a Secret has the account and the promise of its password.
Faithful(s) ==
    /\ s.pwd \in Passwords
    /\ ledger[s.pwd].sa = s.sa
    /\ s.promise = ledger[s.pwd].promise

\* If h's robot has a published password, s holds it.
Current(h, s) ==
    robots[s.sa] # NoRobot /\ robots[s.sa].owner = h /\ Published(robots[s.sa].pwd)
        => s.pwd = robots[s.sa].pwd

SecretInv ==
    \A h \in HarborAccesses : Own(secret[h]) =>
        /\ Faithful(secret[h])
        /\ Current(h, secret[h])
        /\ \A g \in HarborAccesses \ {h} : Own(secret[g]) => secret[g].pwd # secret[h].pwd

\* A cached Secret may be from before its password had a promise.
Recalled(s) ==
    /\ s.pwd \in Passwords
    /\ ledger[s.pwd].sa = s.sa
    /\ s.promise \in {NoPromise, ledger[s.pwd].promise}

ViewInv == \A r \in Replicas, h \in HarborAccesses : Own(view[r].secret[h]) => Recalled(view[r].secret[h])

\* A Secret of a bridge without promises: nothing has been rotated since.
Unpromised(s) == Own(s) /\ s.promise = NoPromise

NotRotated(a) == a # Gone => a.status.rotated = 0

LegacyInv ==
    \A h \in HarborAccesses : Unpromised(secret[h]) =>
        /\ NotRotated(access[h]) /\ \A r \in Replicas : NotRotated(view[r].access[h])
        /\ ledger[secret[h].pwd].end = "scheduled"
              => PasswordRotationInterval + RotationSafetyMargin <= now + Skew
        /\ \A s \in ServiceAccounts :
              robots[s] # NoRobot /\ robots[s].pwd = secret[h].pwd => robots[s].owner = h

\* What a pass knows, from the Secret it read to the one it writes.
Deciding == pass.at \in {"robot", "rotate", "write"}
Decided == pass.at \in {"rotate", "write"}

PassInv ==
    /\ Deciding /\ Own(pass.copy) =>
          /\ Faithful(pass.copy)
          /\ Current(pass.h, pass.copy)
          /\ Unpromised(pass.copy) => NotRotated(pass.object)
    /\ Deciding /\ Own(secret[pass.h]) => secret[pass.h] = pass.copy
    /\ Decided =>
          /\ pass.copy # NoSecret => pass.copy.own
          /\ robots[pass.object.sa].owner = pass.h
          /\ pass.time <= now + Skew
    /\ Decided /\ pass.pwd # NoPassword =>
          /\ pass.pwd = robots[pass.object.sa].pwd
          /\ ~Published(pass.pwd)
          /\ \A h \in HarborAccesses : Own(secret[h]) => secret[h].pwd # pass.pwd
    /\ pass.at = "clean" => ~Unpromised(secret[pass.h])

\* What the plugin and kubelet hold is bounded by the promise.
Bounded(n, q) ==
    /\ q.at \in {"sent", "matched", "answered"} => now <= q.deadline /\ q.deadline <= now + RequestTimeout
    /\ q.answer.status = 200 =>
          /\ q.answer.pwd \in Passwords
          /\ ledger[q.answer.pwd].sa = budget.pods[n]
          /\ budget.pods[n] # Gone
          /\ q.answer.promise \in {NoPromise, ledger[q.answer.pwd].promise}
    /\ q.at = "answered" /\ q.answer.promise # NoPromise /\ q.answer.duration > 0
          => q.deadline + q.answer.duration <= q.answer.promise + RequestTimeout

PullInv == \A n \in Nodes : Bounded(n, pull[n])

CacheInv ==
    \A n \in Nodes : cache[n].promise # NoPromise =>
        /\ cache[n].pwd \in Passwords
        /\ ledger[cache[n].pwd].promise = cache[n].promise
        /\ cache[n].until <= cache[n].promise + RequestTimeout

ControlInv == LedgerInv /\ RobotInv /\ SecretInv /\ ViewInv /\ LegacyInv /\ PassInv

CredentialInv == TypeInv /\ ControlInv /\ PullInv /\ CacheInv

-----------------------------------------------------------------------------
(***************************************************************************)
(* The invariant says what is to be shown.                                 *)
(***************************************************************************)
LEMMA InvGivesPromiseKept ==
    ASSUME CredentialInv
    PROVE  PromiseKept
  <1> SUFFICES ASSUME NEW n \in Nodes, cache[n].until > now, cache[n].promise # NoPromise,
                      ledger[cache[n].pwd].end = "scheduled"
               PROVE  FALSE
    BY Zenon DEF PromiseKept
  <1> DEFINE c == cache[n]
             e == ledger[c.pwd]
  <1>1. c.pwd \in Passwords /\ e.promise = c.promise /\ c.until <= c.promise + RequestTimeout
    BY Zenon DEF CredentialInv, CacheInv
  <1>2. e.promise + RotationSafetyMargin <= now + Skew
    BY Zenon, <1>1 DEF CredentialInv, ControlInv, LedgerInv, Published
  <1>3. c.promise \in Int /\ c.until \in Nat /\ now \in Nat
    BY Zenon DEF CredentialInv, TypeInv, TypeOK, Cached, Promise
  <1> QED BY <1>1, <1>2, <1>3, ClockAssumption

LEMMA InvGivesRightRobot ==
    ASSUME CredentialInv
    PROVE  RightRobot
  BY ZenonT(30) DEF CredentialInv, PullInv, Bounded, RightRobot

-----------------------------------------------------------------------------
(***************************************************************************)
(* The data plane and the plugin: the control plane's part of the          *)
(* invariant is not touched.                                               *)
(***************************************************************************)
LEMMA ControlKept ==
    ASSUME CredentialInv, UNCHANGED <<access, robots, secret, view, pass, ledger>>, now' \in Nat, now <= now'
    PROVE  ControlInv'
  <1>0. now \in Nat /\ Skew \in Nat /\ ledger \in [Passwords -> Entry]
    BY Zenon, ClockAssumption DEF CredentialInv, TypeInv, TypeOK
  <1>1. LedgerInv'
    <2>1. \A p \in Passwords : ledger[p].promise \in Promise
      BY Zenon, <1>0 DEF Entry
    <2> QED BY <1>0, <2>1, ClockAssumption DEF CredentialInv, ControlInv, LedgerInv, Published, Promise
  <1>2. RobotInv' /\ SecretInv' /\ ViewInv'
    BY ZenonT(30) DEF CredentialInv, ControlInv, RobotInv, SecretInv, ViewInv, Own, Faithful, Current, Recalled,
                 Published
  <1>3. LegacyInv'
    <2>1. PasswordRotationInterval + RotationSafetyMargin <= now + Skew
             => PasswordRotationInterval + RotationSafetyMargin <= now' + Skew
      BY <1>0, ClockAssumption
    <2> QED BY <2>1, Zenon DEF CredentialInv, ControlInv, LegacyInv, NotRotated, Unpromised, Own
  <1>4. PassInv'
    <2>1. pass.time \in Int
      BY Zenon DEF CredentialInv, TypeInv, TypeOK, PassState
    <2>2. pass.time <= now + Skew => pass.time <= now' + Skew
      BY <1>0, <2>1
    <2> QED BY <2>2, ZenonT(30) DEF CredentialInv, ControlInv, PassInv, Deciding, Decided, Own, Faithful, Current,
                               Unpromised, NotRotated, Published
  <1> QED BY Zenon, <1>1, <1>2, <1>3, <1>4 DEF ControlInv

\* One request goes on.
LEMMA PullKept ==
    ASSUME CredentialInv, NEW n \in Nodes, NEW q, Bounded(n, q), pull' = [pull EXCEPT ![n] = q],
           UNCHANGED <<ledger, now>>, budget'.pods = budget.pods
    PROVE  PullInv'
  <1>1. \A m \in Nodes : Bounded(m, pull'[m])
    BY Zenon DEF CredentialInv, PullInv, TypeInv, TypeOK
  <1>2. \A m \in Nodes : Bounded(m, pull[m])' <=> Bounded(m, pull'[m])
    BY ZenonT(30) DEF Bounded
  <1> QED BY <1>1, <1>2, Zenon DEF PullInv

LEMMA CacheKept ==
    ASSUME CredentialInv, UNCHANGED <<cache, ledger>>
    PROVE  CacheInv'
  BY Zenon DEF CredentialInv, CacheInv

LEMMA FetchInv ==
    ASSUME CredentialInv, NEW n \in Nodes, Fetch(n) \/ retry(n) \/ backoff(n)
    PROVE  ControlInv' /\ PullInv' /\ CacheInv'
  <1>1. UNCHANGED <<access, robots, secret, view, pass, ledger, cache, budget, now>>
    BY Zenon DEF Fetch, retry, backoff, accessVars, limiterVars
  <1>2. now \in Nat
    BY Zenon DEF CredentialInv, TypeInv, TypeOK
  <1>3. \E q : pull' = [pull EXCEPT ![n] = q] /\ Bounded(n, q)
    <2>1. \A r, k : Bounded(n, Pulling("sent", r, k, now + RequestTimeout))
      BY <1>2, ClockAssumption DEF Bounded, Pulling, Refusal
    <2>2. Bounded(n, Pulling("backoff", 0, 1, now + Second))
      BY DEF Bounded, Pulling, Refusal
    <2> QED BY <2>1, <2>2, Zenon DEF Fetch, retry, backoff
  <1>4. ControlInv'
    BY <1>1, <1>2, ControlKept
  <1> QED BY <1>1, <1>3, <1>4, PullKept, CacheKept, Zenon

LEMMA ReplyInv ==
    ASSUME CredentialInv, NEW n \in Nodes, NEW x \in {401, 403, 429, 500, 503}, Reply(n, x), Active(n)
    PROVE  pull' = [pull EXCEPT ![n] = Answered(pull[n], Refusal(x))]
           /\ Bounded(n, Answered(pull[n], Refusal(x)))
  <1>1. pull[n] \in Pull /\ Refusal(x) \in Answer
    BY PullFacts DEF CredentialInv, Refusal, Answer, Promise
  <1>2. /\ Answered(pull[n], Refusal(x)).answer = Refusal(x)
        /\ Answered(pull[n], Refusal(x)).deadline = pull[n].deadline
    BY <1>1, AnswersGood
  <1>3. now <= pull[n].deadline /\ pull[n].deadline <= now + RequestTimeout
    BY ZenonT(30) DEF CredentialInv, PullInv, Bounded, Active
  <1>4. Refusal(x).status # 200 /\ Refusal(x).promise = NoPromise
    BY DEF Refusal
  <1> QED BY <1>2, <1>3, <1>4 DEF Reply, Bounded

LEMMA RefusedInv ==
    ASSUME CredentialInv, NEW n \in Nodes, tooManyRequests(n) \/ requestFails(n)
    PROVE  ControlInv' /\ PullInv' /\ CacheInv'
  <1>1. /\ pull[n].at = "sent" /\ UNCHANGED <<access, robots, secret, view, pass, ledger, cache>>
    BY ZenonT(30) DEF tooManyRequests, requestFails, accessVars
  <1>2. now' = now
    BY ZenonT(30) DEF tooManyRequests, requestFails, Limiter, limiterVars
  <1>3. budget'.pods = budget.pods
    <2>1. TypeInv /\ (Fault \/ budget' = budget)
      BY ZenonT(30) DEF CredentialInv, tooManyRequests, requestFails
    <2> QED BY <2>1, FaultTypes, Zenon DEF SamePlan
  <1>4. Active(n) /\ now \in Nat
    BY Zenon, <1>1 DEF Active, CredentialInv, TypeInv, TypeOK
  <1>5. ControlInv'
    BY <1>1, <1>2, <1>4, ControlKept
  <1>6. Reply(n, 429) \/ \E x \in {401, 500, 503} : Reply(n, x)
    BY ZenonT(30) DEF tooManyRequests, requestFails
  <1>7. PICK x \in {401, 403, 429, 500, 503} : Reply(n, x)
    BY <1>6
  <1>8. PullInv'
    BY <1>1, <1>2, <1>3, <1>4, <1>7, ReplyInv, PullKept
  <1> QED BY <1>1, <1>5, <1>8, CacheKept, ZenonT(30)

LEMMA FindHarborAccessInv ==
    ASSUME CredentialInv, NEW n \in Nodes, findHarborAccess(n)
    PROVE  ControlInv' /\ PullInv' /\ CacheInv'
  <1>1. /\ pull[n].at = "sent" /\ UNCHANGED <<access, robots, secret, view, pass, ledger, cache, budget>>
        /\ Limiter(n, TRUE)
    BY Zenon DEF findHarborAccess, accessVars
  <1>2. now' = now
    BY <1>1, Zenon DEF Limiter, limiterVars
  <1>3. Active(n) /\ now \in Nat
    BY Zenon, <1>1 DEF Active, CredentialInv, TypeInv, TypeOK
  <1>4. ControlInv'
    BY <1>1, <1>2, <1>3, ControlKept
  <1>5. Reply(n, 403) \/ \E h \in HarborAccesses : pull' = [pull EXCEPT ![n] = Matched(pull[n], h)]
    BY Zenon DEF findHarborAccess, matching
  <1>6. ASSUME NEW h \in HarborAccesses PROVE Bounded(n, Matched(pull[n], h))
    <2>1. pull[n] \in Pull
      BY Zenon, <1>3, PullFacts DEF CredentialInv
    <2>2. /\ Matched(pull[n], h).at = "matched" /\ Matched(pull[n], h).deadline = pull[n].deadline
          /\ Matched(pull[n], h).answer = pull[n].answer
      BY Zenon, <2>1, MatchesGood
    <2>3. Bounded(n, pull[n])
      BY Zenon DEF CredentialInv, PullInv
    <2> QED BY ZenonT(30), <1>1, <2>2, <2>3 DEF Bounded
  <1>7. PullInv'
    <2>1. CASE Reply(n, 403)
      BY <1>1, <1>2, <1>3, <2>1, ReplyInv, PullKept
    <2>2. CASE \E h \in HarborAccesses : pull' = [pull EXCEPT ![n] = Matched(pull[n], h)]
      BY <1>1, <1>2, <1>6, <2>2, PullKept, Zenon
    <2> QED BY Zenon, <1>5, <2>1, <2>2
  <1> QED BY <1>1, <1>4, <1>7, CacheKept, Zenon

LEMMA ReadRobotSecretInv ==
    ASSUME CredentialInv, NEW n \in Nodes, readRobotSecret(n)
    PROVE  ControlInv' /\ PullInv' /\ CacheInv'
  <1> DEFINE r == pull[n].replica
             s == view[r].secret[pull[n].match]
             x == secretStatus(s, budget.pods[n])
             t == Clock(r)
             k == cacheDuration(budget.ttl, s.promise, t)
             d == Truncate(k)
             credentials == [status |-> 200, pwd |-> s.pwd, promise |-> s.promise, duration |-> d]
  <1>0. TypeInv
    BY Zenon DEF CredentialInv
  <1>1. /\ pull[n].at = "matched"
        /\ UNCHANGED <<access, robots, secret, view, pass, ledger, cache, budget, now>>
    BY Zenon DEF readRobotSecret, accessVars, limiterVars
  <1>2. \/ x # 200 /\ Reply(n, x)
        \/ x = 200 /\ pull' = [pull EXCEPT ![n] = Answered(pull[n], credentials)]
    BY Zenon DEF readRobotSecret
  <1>3. Active(n) /\ now \in Nat
    BY Zenon, <1>1 DEF Active, CredentialInv, TypeInv, TypeOK
  <1>4. pull[n] \in Pull /\ r \in Replicas /\ pull[n].match \in HarborAccesses
    BY Zenon, <1>0, <1>1, <1>3, PullFacts
  <1>5. view \in [Replicas -> View] /\ budget.ttl \in Nat
    BY Zenon DEF CredentialInv, TypeInv, TypeOK, Plan
  <1>6. s \in Secret \cup {NoSecret}
    BY Zenon, <1>4, <1>5 DEF View
  <1>7. t \in Int /\ now <= t
    BY Zenon, <1>0, <1>4, ClockTypes
  <1>8. Own(s) => Recalled(s)
    BY Zenon, <1>4 DEF CredentialInv, ControlInv, ViewInv
  <1>9. ControlInv' /\ CacheInv'
    BY <1>1, <1>3, ControlKept, CacheKept
  <1>10. pull[n].deadline <= now + RequestTimeout /\ pull[n].deadline \in Nat /\ now <= pull[n].deadline
    BY Zenon, <1>3, <1>4 DEF CredentialInv, PullInv, Bounded, Active, Pull
  <1> HIDE DEF s, t, r
  <1>11. x \in {200, 403, 503} /\ (x = 200 => Own(s) /\ s.sa = budget.pods[n])
    BY DEF secretStatus, Own
  <1> HIDE DEF x
  <1>12. CASE x # 200 /\ Reply(n, x)
    BY <1>1, <1>3, <1>9, <1>11, <1>12, ReplyInv, PullKept
  <1>13. CASE x = 200 /\ pull' = [pull EXCEPT ![n] = Answered(pull[n], credentials)]
    <2>1. s \in Secret /\ Recalled(s) /\ s.sa = budget.pods[n]
      BY Zenon, <1>6, <1>8, <1>11, <1>13 DEF Own
    <2>2. s.promise \in Promise /\ s.sa \in ServiceAccounts /\ s.pwd \in Passwords
      BY Zenon, <2>1 DEF Secret, Recalled
    <2>3. k \in Nat /\ (s.promise # NoPromise /\ k > 0 => k <= s.promise - t)
      BY Zenon, <1>5, <1>7, <2>2, CacheDurationType
    <2> HIDE DEF k
    <2>4. d \in Nat /\ d <= k
      BY <2>3, RoundType
    <2> HIDE DEF d
    <2>5. credentials \in Answer
      BY ZenonT(30), <2>2, <2>4 DEF Answer
    <2>6. /\ credentials.status = 200 /\ credentials.pwd = s.pwd /\ credentials.promise = s.promise
          /\ credentials.duration = d
      OBVIOUS
    <2> HIDE DEF credentials
    <2>7. /\ Answered(pull[n], credentials).answer = credentials
          /\ Answered(pull[n], credentials).deadline = pull[n].deadline
      BY Zenon, <1>4, <2>5, AnswersGood
    <2>8. s.promise # NoPromise /\ d > 0 => pull[n].deadline + d <= s.promise + RequestTimeout
      BY <1>3, <1>7, <1>10, <2>2, <2>3, <2>4, ClockAssumption DEF Promise
    <2>9. /\ ledger[s.pwd].sa = budget.pods[n] /\ budget.pods[n] # Gone
          /\ s.promise \in {NoPromise, ledger[s.pwd].promise}
      BY Zenon, <2>1, <2>2, DistinctAssumption DEF Recalled
    <2>10. Bounded(n, Answered(pull[n], credentials))
      BY <1>10, <2>2, <2>6, <2>7, <2>8, <2>9 DEF Bounded
    <2> QED BY <1>1, <1>9, <1>13, <2>10, PullKept, Zenon
  <1> QED BY Zenon, <1>2, <1>12, <1>13

LEMMA ReceiveInv ==
    ASSUME CredentialInv, NEW n \in Nodes, receive(n)
    PROVE  ControlInv' /\ PullInv' /\ CacheInv'
  <1> DEFINE a == pull[n].answer
             duration == IF a.duration > MaxCacheDuration THEN MaxCacheDuration ELSE a.duration
             entry == IF a.status = 200 /\ duration > 0
                      THEN [pwd |-> a.pwd, until |-> now + duration, promise |-> a.promise]
                      ELSE NotCached
  <1>1. /\ pull[n].at = "answered" /\ cache' = [cache EXCEPT ![n] = entry]
        /\ pull' = [pull EXCEPT ![n] = Done(a)]
        /\ UNCHANGED <<access, robots, secret, view, pass, ledger, budget, now>>
    BY Zenon DEF receive, accessVars, limiterVars
  <1>2. pull \in [Nodes -> Pull] /\ now \in Nat /\ cache \in [Nodes -> Cached]
    BY Zenon DEF CredentialInv, TypeInv, TypeOK
  <1>3. a \in Answer /\ pull[n].deadline \in Nat
    BY Zenon, <1>2 DEF Pull
  <1>4. Bounded(n, pull[n])
    BY Zenon DEF CredentialInv, PullInv
  <1>5. now <= pull[n].deadline
    BY Zenon, <1>1, <1>4 DEF Bounded
  <1>6. /\ a.status = 200 => /\ a.pwd \in Passwords /\ ledger[a.pwd].sa = budget.pods[n] /\ budget.pods[n] # Gone
                             /\ a.promise \in {NoPromise, ledger[a.pwd].promise}
        /\ a.promise # NoPromise /\ a.duration > 0
              => pull[n].deadline + a.duration <= a.promise + RequestTimeout
    BY Zenon, <1>1, <1>4 DEF Bounded
  <1> HIDE DEF a
  <1>7. Bounded(n, Done(a))
    BY Zenon, <1>6 DEF Bounded, Done
  <1>8. duration \in Nat /\ duration <= a.duration
    BY <1>3, ClockAssumption DEF Answer
  <1> HIDE DEF duration
  <1>9. entry.promise # NoPromise =>
           /\ entry.pwd \in Passwords /\ ledger[entry.pwd].promise = entry.promise
           /\ entry.until <= entry.promise + RequestTimeout
    <2>1. CASE a.status = 200 /\ duration > 0 /\ a.promise # NoPromise
      <3>1. entry = [pwd |-> a.pwd, until |-> now + duration, promise |-> a.promise]
        BY Zenon, <2>1
      <3>2. a.promise \in Int
        BY ZenonT(30), <1>3, <2>1 DEF Answer, Promise
      <3>3. now + duration <= a.promise + RequestTimeout
        BY SMTT(20), <1>2, <1>3, <1>5, <1>6, <1>8, <2>1, <3>2, ClockAssumption DEF Answer
      <3> QED BY Zenon, <1>6, <2>1, <3>1, <3>3
    <2>2. CASE ~(a.status = 200 /\ duration > 0)
      BY Zenon, <2>2 DEF NotCached
    <2>3. CASE a.promise = NoPromise
      BY Zenon, <2>3 DEF NotCached
    <2> QED BY Zenon, <2>1, <2>2, <2>3
  <1> HIDE DEF entry
  <1>10. CacheInv'
    BY Zenon, <1>1, <1>2, <1>9 DEF CredentialInv, CacheInv
  <1>11. ControlInv'
    BY <1>1, <1>2, ControlKept
  <1>12. PullInv'
    BY <1>1, <1>7, PullKept, Zenon
  <1> QED BY Zenon, <1>10, <1>11, <1>12

LEMMA FetchFailsInv ==
    ASSUME CredentialInv, NEW n \in Nodes, fetchFails(n)
    PROVE  ControlInv' /\ PullInv' /\ CacheInv'
  <1>1. /\ UNCHANGED budget \/ Fault
        /\ pull' = [pull EXCEPT ![n] = Done(Refusal(0))]
        /\ UNCHANGED <<access, robots, secret, view, pass, ledger, cache, now>>
    BY Zenon DEF fetchFails, accessVars, limiterVars
  <1>2. budget'.pods = budget.pods /\ now \in Nat
    BY <1>1, FaultTypes, Zenon DEF SamePlan, CredentialInv, TypeInv, TypeOK
  <1>3. Bounded(n, Done(Refusal(0)))
    BY DEF Bounded, Done, Refusal
  <1>4. ControlInv'
    BY <1>1, <1>2, ControlKept
  <1> QED BY <1>1, <1>2, <1>3, <1>4, PullKept, CacheKept, Zenon

LEMMA TickInv ==
    ASSUME CredentialInv, Tick
    PROVE  ControlInv' /\ PullInv' /\ CacheInv'
  <1>1. /\ UNCHANGED <<access, robots, secret, view, pass, pull, cache, ledger, budget>> /\ now' = now + 1
        /\ \A n \in Nodes : Active(n) => now < pull[n].deadline
    BY Zenon DEF Tick, credentialVars, LimiterTick
  <1>2. now \in Nat /\ pull \in [Nodes -> Pull]
    BY Zenon DEF CredentialInv, TypeInv, TypeOK
  <1>3. ControlInv'
    BY <1>1, <1>2, ControlKept
  <1>4. CacheInv'
    BY Zenon, <1>1, CacheKept
  <1>5. ASSUME NEW n \in Nodes PROVE Bounded(n, pull[n])'
    <2>1. pull[n].deadline \in Nat
      BY Zenon, <1>2 DEF Pull
    <2>2. Bounded(n, pull[n])
      BY Zenon DEF CredentialInv, PullInv
    <2>3. pull[n].at \in {"sent", "matched", "answered"} =>
             now' <= pull[n].deadline /\ pull[n].deadline <= now' + RequestTimeout
      BY <1>1, <1>2, <2>1, <2>2, ClockAssumption DEF Bounded, Active
    <2> QED BY <1>1, <2>2, <2>3, Zenon DEF Bounded
  <1> QED BY Zenon, <1>3, <1>4, <1>5 DEF PullInv

-----------------------------------------------------------------------------
(***************************************************************************)
(* The control plane.  A password keeps the account it was issued to and   *)
(* the promise it was published with, which is all the data plane relies   *)
(* on.                                                                     *)
(***************************************************************************)
Keeps ==
    \A p \in Passwords : /\ ledger[p].sa # Gone => ledger'[p].sa = ledger[p].sa
                         /\ Published(p) => ledger'[p].promise = ledger[p].promise

LEMMA DataKept ==
    ASSUME CredentialInv, Keeps, UNCHANGED <<pull, cache, now>>, budget'.pods = budget.pods
    PROVE  PullInv' /\ CacheInv'
  <1>1. CacheInv'
    BY Zenon DEF CredentialInv, CacheInv, Keeps, Published
  <1>2. ASSUME NEW n \in Nodes PROVE Bounded(n, pull[n])'
    <2> DEFINE a == pull[n].answer
    <2>1. Bounded(n, pull[n])
      BY Zenon DEF CredentialInv, PullInv
    <2>2. a.status = 200 => /\ a.pwd \in Passwords
                            /\ ledger'[a.pwd].sa = budget.pods[n]
                            /\ a.promise \in {NoPromise, ledger'[a.pwd].promise}
      BY ZenonT(30), <2>1 DEF Bounded, Keeps, Published
    <2> HIDE DEF a
    <2> QED BY <2>1, <2>2, ZenonT(30) DEF Bounded, a
  <1> QED BY Zenon, <1>1, <1>2 DEF PullInv

LEMMA ViewKept ==
    ASSUME CredentialInv, Keeps, UNCHANGED view
    PROVE  ViewInv'
  <1> SUFFICES ASSUME NEW r \in Replicas, NEW h \in HarborAccesses, Own(view[r].secret[h])
               PROVE  Recalled(view[r].secret[h])'
    BY Zenon DEF ViewInv, Own
  <1> DEFINE s == view[r].secret[h]
  <1>1. Recalled(s) /\ s \in Secret
    BY Zenon DEF CredentialInv, ControlInv, ViewInv, TypeInv, TypeOK, View, Own
  <1>2. s.sa # Gone
    BY Zenon, <1>1, DistinctAssumption DEF Secret
  <1>3. s' = s
    BY Zenon
  <1> HIDE DEF s
  <1>4. s.pwd \in Passwords /\ ledger'[s.pwd].sa = s.sa /\ s.promise \in {NoPromise, ledger'[s.pwd].promise}
    BY Zenon, <1>1, <1>2 DEF Recalled, Keeps, Published
  <1> QED BY Zenon, <1>3, <1>4 DEF Recalled, s

LEMMA PassInvEnds ==
    ASSUME pass' = NoPass
    PROVE  PassInv'
  BY Zenon DEF PassInv, Deciding, Decided, NoPass, Passing

\* The environment does not touch the ledger.
LEMMA KeepsAll ==
    ASSUME UNCHANGED ledger
    PROVE  Keeps
  BY Zenon DEF Keeps

LEMMA StoreKept ==
    ASSUME CredentialInv, UNCHANGED <<robots, secret, ledger, now>>
    PROVE  LedgerInv' /\ RobotInv' /\ SecretInv'
  <1>1. LedgerInv'
    BY Zenon DEF CredentialInv, ControlInv, LedgerInv, Published
  <1>2. RobotInv' /\ SecretInv'
    BY ZenonT(30) DEF CredentialInv, ControlInv, RobotInv, SecretInv, Own, Faithful, Current, Published
  <1> QED BY Zenon, <1>1, <1>2

LEMMA PassDiesInv ==
    ASSUME CredentialInv, passDies
    PROVE  ControlInv' /\ PullInv' /\ CacheInv'
  <1>1. Fault /\ pass' = NoPass /\ UNCHANGED <<access, robots, secret, view, pull, cache, ledger, now>>
    BY Zenon DEF passDies, limiterVars
  <1>2. budget'.pods = budget.pods
    BY <1>1, FaultTypes, Zenon DEF SamePlan, CredentialInv
  <1>3. LegacyInv'
    BY <1>1, Zenon DEF CredentialInv, ControlInv, LegacyInv, Own, Unpromised, NotRotated
  <1> QED BY <1>1, <1>2, <1>3, StoreKept, ViewKept, DataKept, KeepsAll, PassInvEnds, Zenon DEF ControlInv

LEMMA EditInv ==
    ASSUME CredentialInv, NEW h \in HarborAccesses, edit(h)
    PROVE  ControlInv' /\ PullInv' /\ CacheInv'
  <1>1. /\ access[h] # Gone /\ \E a \in Edits(access[h]) : access' = [access EXCEPT ![h] = a]
        /\ UNCHANGED <<robots, secret, view, pass, pull, cache, ledger, now>>
    BY Zenon DEF edit, limiterVars
  <1>2. access \in [HarborAccesses -> Access \cup {Gone}]
    BY Zenon DEF CredentialInv, TypeInv, TypeOK
  <1>3. budget'.pods = budget.pods
    <2>1. budget \in Plan
      BY Zenon DEF CredentialInv, TypeInv, TypeOK
    <2>2. budget.edits > 0 /\ budget' = [budget EXCEPT !.edits = @ - 1]
      BY Zenon DEF edit
    <2> QED BY <2>1, <2>2, PlanGoesOn, Zenon DEF SamePlan
  <1>4. \A g \in HarborAccesses : NotRotated(access[g]) => NotRotated(access'[g])
    BY ZenonT(30), <1>1, <1>2, EditsTypes DEF NotRotated
  <1>5. LegacyInv'
    BY <1>1, <1>4, ZenonT(30) DEF CredentialInv, ControlInv, LegacyInv, NotRotated, Unpromised, Own
  <1>6. PassInv'
    BY <1>1, ZenonT(30) DEF CredentialInv, ControlInv, PassInv, Deciding, Decided, Own, Faithful, Current, Unpromised,
                       NotRotated, Published
  <1> QED BY <1>1, <1>3, <1>5, <1>6, StoreKept, ViewKept, DataKept, KeepsAll, Zenon DEF ControlInv

LEMMA ReplaceSecretInv ==
    ASSUME CredentialInv, NEW h \in HarborAccesses, replaceSecret(h)
    PROVE  ControlInv' /\ PullInv' /\ CacheInv'
  <1>1. UNCHANGED <<access, robots, view, pass, pull, cache, ledger, now>>
    BY Zenon DEF replaceSecret, limiterVars
  <1>2. budget'.pods = budget.pods
    <2>1. budget \in Plan
      BY Zenon DEF CredentialInv, TypeInv, TypeOK
    <2>2. budget.admin > 0 /\ budget' = [budget EXCEPT !.admin = @ - 1]
      BY Zenon DEF replaceSecret
    <2> QED BY <2>1, <2>2, PlanGoesOn, Zenon DEF SamePlan
  <1>3. \A g \in HarborAccesses : Own(secret'[g]) => secret'[g] = secret[g] /\ Own(secret[g])
    <2>1. secret \in [HarborAccesses -> Secret \cup {NoSecret}]
      BY ZenonT(30) DEF CredentialInv, TypeInv, TypeOK
    <2> QED BY <2>1 DEF replaceSecret, Foreign, Own
  <1>4. SecretInv'
    <2>1. ASSUME NEW g \in HarborAccesses, Own(secret'[g])
          PROVE  Faithful(secret[g])' /\ Current(g, secret[g])'
      <3>1. secret'[g] = secret[g] /\ Faithful(secret[g]) /\ Current(g, secret[g])
        BY Zenon, <1>3, <2>1 DEF CredentialInv, ControlInv, SecretInv
      <3> QED BY Zenon, <1>1, <3>1 DEF Faithful, Current, Published
    <2>2. ASSUME NEW g \in HarborAccesses, NEW k \in HarborAccesses \ {g},
                 Own(secret'[g]), Own(secret'[k])
          PROVE  secret'[k].pwd # secret'[g].pwd
      BY Zenon, <1>3, <2>2 DEF CredentialInv, ControlInv, SecretInv
    <2> QED BY Zenon, <2>1, <2>2 DEF SecretInv, Own
  <1>5. LegacyInv'
    BY <1>1, <1>3 DEF CredentialInv, ControlInv, LegacyInv, NotRotated, Unpromised, Own
  <1>6. PassInv'
    <2>1. pass.at # "idle" => pass.h \in HarborAccesses
      BY Zenon DEF CredentialInv, TypeInv, PassShape
    <2>2. pass.at \in {"robot", "rotate", "write", "clean"} => pass.h \in HarborAccesses
      BY Zenon, <2>1
    <2>3. Deciding /\ Own(secret'[pass.h]) => secret'[pass.h] = pass.copy
      BY Zenon, <1>3, <2>2 DEF CredentialInv, ControlInv, PassInv, Deciding
    <2>4. pass.at = "clean" => ~Unpromised(secret'[pass.h])
      BY Zenon, <1>3, <2>2 DEF CredentialInv, ControlInv, PassInv, Unpromised
    <2> QED BY <1>1, <1>3, <2>3, <2>4, ZenonT(30) DEF CredentialInv, ControlInv, PassInv, Deciding, Decided, Own,
                                           Faithful, Current, Unpromised, NotRotated, Published
  <1>7. LedgerInv'
    BY Zenon, <1>1 DEF CredentialInv, ControlInv, LedgerInv, Published
  <1>8. RobotInv'
    BY <1>1, Zenon DEF CredentialInv, ControlInv, RobotInv
  <1> QED BY <1>1, <1>2, <1>4, <1>5, <1>6, <1>7, <1>8, ViewKept, DataKept, KeepsAll, Zenon DEF ControlInv

LEMMA SyncInv ==
    ASSUME CredentialInv, NEW r \in Replicas, NEW h \in HarborAccesses, syncAccess(r, h) \/ syncSecret(r, h)
    PROVE  ControlInv' /\ PullInv' /\ CacheInv'
  <1>1. UNCHANGED <<access, robots, secret, ledger, pass, pull, cache, budget, now>>
    BY Zenon DEF syncAccess, syncSecret, accessVars, limiterVars
  <1>2. view \in [Replicas -> View] /\ \A q \in Replicas :
           /\ view[q].access \in [HarborAccesses -> Access \cup {Gone}]
           /\ view[q].secret \in [HarborAccesses -> Secret \cup {NoSecret}]
    BY Zenon DEF CredentialInv, TypeInv, TypeOK, View
  <1>3. \/ view' = [view EXCEPT ![r].access[h] = access[h]]
        \/ view' = [view EXCEPT ![r].secret[h] = secret[h]]
    BY Zenon DEF syncAccess, syncSecret
  <1>4. \A q \in Replicas, g \in HarborAccesses :
           /\ view'[q].access[g] \in {view[q].access[g], access[g]}
           /\ view'[q].secret[g] \in {view[q].secret[g], secret[g]}
    <2>1. CASE view' = [view EXCEPT ![r].access[h] = access[h]]
      <3>1. view'[r].access = [view[r].access EXCEPT ![h] = access[h]] /\ view'[r].secret = view[r].secret
            /\ \A q \in Replicas \ {r} : view'[q] = view[q]
        BY Zenon, <1>2, <2>1 DEF View
      <3> QED BY ZenonT(30), <1>2, <3>1
    <2>2. CASE view' = [view EXCEPT ![r].secret[h] = secret[h]]
      <3>1. view'[r].secret = [view[r].secret EXCEPT ![h] = secret[h]] /\ view'[r].access = view[r].access
            /\ \A q \in Replicas \ {r} : view'[q] = view[q]
        BY Zenon, <1>2, <2>2 DEF View
      <3> QED BY ZenonT(30), <1>2, <3>1
    <2> QED BY Zenon, <1>3, <2>1, <2>2
  <1>5. ViewInv'
    <2>1. \A g \in HarborAccesses : Own(secret[g]) => Recalled(secret[g])
      BY Zenon DEF CredentialInv, ControlInv, SecretInv, Faithful, Recalled
    <2>2. \A q \in Replicas, g \in HarborAccesses : Own(view'[q].secret[g]) => Recalled(view'[q].secret[g])
      BY ZenonT(30), <1>4, <2>1 DEF CredentialInv, ControlInv, ViewInv
    <2> QED BY <1>1, <2>2, Zenon DEF ViewInv, Own, Recalled
  <1>6. LegacyInv'
    BY <1>1, <1>4 DEF CredentialInv, ControlInv, LegacyInv, NotRotated, Unpromised, Own
  <1>7. PassInv'
    BY <1>1, ZenonT(30) DEF CredentialInv, ControlInv, PassInv, Deciding, Decided, Own, Faithful, Current, Unpromised,
                       NotRotated, Published
  <1> QED BY <1>1, <1>5, <1>6, <1>7, StoreKept, DataKept, KeepsAll, Zenon DEF ControlInv

LEMMA BeginInv ==
    ASSUME CredentialInv, NEW h \in HarborAccesses, Begin(h)
    PROVE  ControlInv' /\ PullInv' /\ CacheInv'
  <1>1. UNCHANGED <<access, robots, secret, view, pull, cache, ledger, budget, now>>
    BY Zenon DEF Begin, limiterVars
  <1>2. PICK r \in Replicas, x \in {"revoke", "refuse", "robot"} :
           view[r].access[h] # Gone /\ pass' = Passing(x, h, r, view[r].access[h], secret[h])
    <2>1. budget.up \subseteq Replicas
      BY ZenonT(30) DEF CredentialInv, TypeInv, TypeOK, Plan
    <2> QED BY <2>1, Zenon DEF Begin
  <1>3. /\ pass'.at \in {"revoke", "refuse", "robot"} /\ pass'.h = h /\ pass'.copy = secret[h]
        /\ pass'.object = view[r].access[h] /\ pass'.pwd = NoPassword
    BY Zenon, <1>2 DEF Passing
  <1>4. Own(secret[h]) => /\ Faithful(secret[h]) /\ Current(h, secret[h])
                          /\ Unpromised(secret[h]) => NotRotated(view[r].access[h])
    BY Zenon DEF CredentialInv, ControlInv, SecretInv, LegacyInv
  <1>5. PassInv'
    BY Zenon, <1>1, <1>3, <1>4 DEF PassInv, Deciding, Decided, Own, Faithful, Current, Unpromised, NotRotated, Published
  <1>6. LegacyInv'
    BY <1>1, ZenonT(30) DEF CredentialInv, ControlInv, LegacyInv, NotRotated, Unpromised, Own
  <1> QED BY <1>1, <1>5, <1>6, StoreKept, ViewKept, DataKept, KeepsAll, Zenon DEF ControlInv

\* Less of everything: no new robot, Secret or scheduled end, and the ledger
\* keeps accounts and promises.
EndsKept ==
    \A p \in Passwords : /\ ledger'[p].sa = ledger[p].sa /\ ledger'[p].promise = ledger[p].promise
                         /\ ledger'[p].end = "scheduled" => ledger[p].end = "scheduled"

RobotsKept ==
    \A s \in ServiceAccounts : robots'[s] # NoRobot =>
        /\ robots[s] # NoRobot /\ robots'[s].owner = robots[s].owner /\ robots'[s].pwd = robots[s].pwd
        /\ ledger'[robots[s].pwd].end = "none"

SecretsKept ==
    \A h \in HarborAccesses : Own(secret'[h]) => secret'[h] = secret[h] /\ Own(secret[h])

StatusKept ==
    \A h \in HarborAccesses : Unpromised(secret[h]) /\ NotRotated(access[h]) => NotRotated(access'[h])

LEMMA LessKept ==
    ASSUME CredentialInv, now' = now, view' = view, EndsKept, RobotsKept, SecretsKept, StatusKept
    PROVE  Keeps /\ LedgerInv' /\ RobotInv' /\ SecretInv' /\ ViewInv' /\ LegacyInv'
  <1>0. robots \in [ServiceAccounts -> Robot \cup {NoRobot}]
        /\ \A h \in HarborAccesses : Own(secret[h]) => secret[h].sa \in ServiceAccounts
    BY Zenon DEF CredentialInv, TypeInv, TypeOK, Own, Secret
  <1>1. Keeps
    BY Zenon DEF Keeps, Published, EndsKept
  <1>2. LedgerInv'
    BY Zenon DEF CredentialInv, ControlInv, LedgerInv, Published, EndsKept
  <1>3. RobotInv'
    <2>1. \A s \in ServiceAccounts : robots[s] # NoRobot => robots[s].pwd \in Passwords
      BY Zenon, <1>0 DEF Robot
    <2> QED BY <2>1 DEF CredentialInv, ControlInv, RobotInv, RobotsKept, EndsKept
  <1>4. SecretInv'
    <2> SUFFICES ASSUME NEW h \in HarborAccesses, Own(secret'[h])
                 PROVE  /\ Faithful(secret[h])' /\ Current(h, secret[h])'
                        /\ \A g \in HarborAccesses \ {h} : Own(secret'[g]) => secret'[g].pwd # secret'[h].pwd
      BY Zenon DEF SecretInv, Own, Faithful, Current, Published
    <2>1. secret'[h] = secret[h] /\ Own(secret[h]) /\ secret[h].sa \in ServiceAccounts
      BY Zenon, <1>0 DEF SecretsKept
    <2>2. /\ Faithful(secret[h]) /\ Current(h, secret[h])
          /\ \A g \in HarborAccesses \ {h} : Own(secret[g]) => secret[g].pwd # secret[h].pwd
      BY Zenon, <2>1 DEF CredentialInv, ControlInv, SecretInv
    <2>3. Faithful(secret[h])'
      BY Zenon, <2>1, <2>2 DEF Faithful, EndsKept
    <2>4. Current(h, secret[h])'
      <3>1. robots[secret[h].sa] # NoRobot => robots[secret[h].sa].pwd \in Passwords
        BY Zenon, <1>0, <2>1 DEF Robot
      <3>2. robots'[secret[h].sa] # NoRobot =>
               /\ robots[secret[h].sa] # NoRobot /\ robots'[secret[h].sa].owner = robots[secret[h].sa].owner
               /\ robots'[secret[h].sa].pwd = robots[secret[h].sa].pwd
        BY <2>1, Zenon DEF RobotsKept
      <3>3. robots[secret[h].sa] # NoRobot =>
               ledger'[robots[secret[h].sa].pwd].promise = ledger[robots[secret[h].sa].pwd].promise
        BY <3>1, Zenon DEF EndsKept
      <3>4. Current(h, secret[h])' <=> (robots'[secret[h].sa] # NoRobot /\ robots'[secret[h].sa].owner = h
               /\ ledger'[robots'[secret[h].sa].pwd].promise # NoPromise
                     => secret[h].pwd = robots'[secret[h].sa].pwd)
        BY <2>1, Zenon DEF Current, Published
      <3> QED BY <2>2, <3>2, <3>3, <3>4, Zenon DEF Current, Published
    <2> QED BY Zenon, <2>1, <2>2, <2>3, <2>4 DEF SecretsKept
  <1>5. ViewInv'
    BY ZenonT(30), <1>1, ViewKept
  <1>6. LegacyInv'
    <2> SUFFICES ASSUME NEW h \in HarborAccesses, Unpromised(secret'[h])
                 PROVE  /\ NotRotated(access'[h]) /\ \A r \in Replicas : NotRotated(view[r].access[h])
                        /\ ledger'[secret'[h].pwd].end = "scheduled"
                              => PasswordRotationInterval + RotationSafetyMargin <= now + Skew
                        /\ \A s \in ServiceAccounts :
                              robots'[s] # NoRobot /\ robots'[s].pwd = secret'[h].pwd => robots'[s].owner = h
      BY Zenon DEF LegacyInv, NotRotated, Unpromised, Own
    <2>1. secret'[h] = secret[h] /\ Unpromised(secret[h])
      BY Zenon DEF Unpromised, SecretsKept
    <2>2. secret[h].pwd \in Passwords
      BY Zenon, <2>1 DEF CredentialInv, ControlInv, SecretInv, Unpromised, Faithful
    <2> QED BY <2>1, <2>2 DEF CredentialInv, ControlInv, LegacyInv, StatusKept, EndsKept, RobotsKept
  <1> QED BY Zenon, <1>1, <1>2, <1>3, <1>4, <1>5, <1>6

\* The robots of these accounts are deleted, and their passwords with them.
LEMMA RobotsGone ==
    ASSUME CredentialInv, NEW O \in SUBSET ServiceAccounts, \A s \in O : robots[s] # NoRobot,
           robots' = [s \in ServiceAccounts |-> IF s \in O THEN NoRobot ELSE robots[s]],
           ledger' = [p \in Passwords |-> IF \E s \in O : robots[s].pwd = p
                                          THEN [ledger[p] EXCEPT !.end = "deleted"] ELSE ledger[p]]
    PROVE  EndsKept /\ RobotsKept
  <1>1. ledger \in [Passwords -> Entry]
    BY Zenon DEF CredentialInv, TypeInv, TypeOK
  <1>2. EndsKept
    BY Zenon, <1>1 DEF Entry, EndsKept
  <1>3. ASSUME NEW s \in ServiceAccounts, robots'[s] # NoRobot
        PROVE  /\ robots[s] # NoRobot /\ robots'[s] = robots[s]
               /\ ledger'[robots[s].pwd].end = "none"
    <2>1. s \notin O /\ robots[s] # NoRobot /\ robots'[s] = robots[s]
      BY Zenon, <1>3
    <2>2. robots[s].pwd \in Passwords
      BY Zenon, <2>1 DEF CredentialInv, TypeInv, TypeOK, Robot
    <2>3. \A o \in O : robots[o].pwd # robots[s].pwd
      BY <2>1 DEF CredentialInv, ControlInv, RobotInv
    <2>4. ledger'[robots[s].pwd] = ledger[robots[s].pwd]
      BY Zenon, <2>2, <2>3
    <2> QED BY Zenon, <2>1, <2>4 DEF CredentialInv, ControlInv, RobotInv
  <1> QED BY Zenon, <1>2, <1>3 DEF RobotsKept

LEMMA RevokeInv ==
    ASSUME CredentialInv, reconcileDelete
    PROVE  ControlInv' /\ PullInv' /\ CacheInv'
  <1> DEFINE h == pass.h
             owned == {s \in ServiceAccounts : robots[s] # NoRobot /\ robots[s].owner = h}
  <1>1. /\ robots' = [s \in ServiceAccounts |-> IF s \in owned THEN NoRobot ELSE robots[s]]
        /\ ledger' = [p \in Passwords |-> IF \E s \in owned : robots[s].pwd = p
                                          THEN [ledger[p] EXCEPT !.end = "deleted"] ELSE ledger[p]]
        /\ secret' = [secret EXCEPT ![h] = IF @ # NoSecret /\ @.own THEN NoSecret ELSE @]
        /\ access' = [access EXCEPT ![h] = IF @ = pass.object THEN Gone ELSE @]
        /\ pass' = NoPass
        /\ UNCHANGED <<view, pull, cache, budget, now>>
    BY Zenon DEF reconcileDelete, limiterVars
  <1>2. owned \in SUBSET ServiceAccounts /\ \A s \in owned : robots[s] # NoRobot
    OBVIOUS
  <1>3. secret \in [HarborAccesses -> Secret \cup {NoSecret}] /\ access \in [HarborAccesses -> Access \cup {Gone}]
    BY Zenon DEF CredentialInv, TypeInv, TypeOK
  <1>4. SecretsKept
    BY Zenon, <1>1, <1>3 DEF SecretsKept, Own
  <1>5. StatusKept
    BY Zenon, <1>1, <1>3 DEF NotRotated, StatusKept
  <1> HIDE DEF owned
  <1>6. EndsKept /\ RobotsKept
    BY Zenon, <1>1, <1>2, RobotsGone
  <1>7. Keeps /\ LedgerInv' /\ RobotInv' /\ SecretInv' /\ ViewInv' /\ LegacyInv'
    BY Zenon, <1>1, <1>4, <1>5, <1>6, LessKept
  <1> QED BY Zenon, <1>1, <1>7, DataKept, PassInvEnds DEF ControlInv

LEMMA SuspendInv ==
    ASSUME CredentialInv, suspend
    PROVE  ControlInv' /\ PullInv' /\ CacheInv'
  <1> DEFINE h == pass.h
             s == pass.object.sa
  <1>1. /\ secret' = [secret EXCEPT ![h] = IF @ # NoSecret /\ @.own THEN NoSecret ELSE @]
        /\ robots' = IF robots[s] # NoRobot /\ robots[s].owner = h
                     THEN [robots EXCEPT ![s].suspended = TRUE] ELSE robots
        /\ pass' = NoPass
        /\ UNCHANGED <<access, view, pull, cache, ledger, budget, now>>
    BY Zenon DEF suspend, limiterVars
  <1>2. secret \in [HarborAccesses -> Secret \cup {NoSecret}] /\ robots \in [ServiceAccounts -> Robot \cup {NoRobot}]
    BY Zenon DEF CredentialInv, TypeInv, TypeOK
  <1>3. SecretsKept
    BY Zenon, <1>1, <1>2 DEF SecretsKept, Own
  <1>4. \A r \in Robot : LET q == [r EXCEPT !.suspended = TRUE] IN q.owner = r.owner /\ q.pwd = r.pwd
    BY Zenon DEF Robot
  <1>5. RobotsKept
    <2>1. \A x \in ServiceAccounts : robots'[x] # NoRobot =>
             robots[x] # NoRobot /\ robots'[x].owner = robots[x].owner /\ robots'[x].pwd = robots[x].pwd
      BY <1>1, <1>2, <1>4
    <2> QED BY Zenon, <1>1, <2>1 DEF CredentialInv, ControlInv, RobotInv, RobotsKept
  <1>6. EndsKept
    BY Zenon, <1>1 DEF EndsKept
  <1>7. StatusKept
    BY Zenon, <1>1 DEF StatusKept
  <1>8. Keeps /\ LedgerInv' /\ RobotInv' /\ SecretInv' /\ ViewInv' /\ LegacyInv'
    BY Zenon, <1>1, <1>3, <1>5, <1>6, <1>7, LessKept
  <1> QED BY Zenon, <1>1, <1>8, DataKept, PassInvEnds DEF ControlInv

LEMMA FinishInv ==
    ASSUME CredentialInv, finish
    PROVE  ControlInv' /\ PullInv' /\ CacheInv'
  <1>1. /\ pass.at = "clean" /\ pass' = NoPass
        /\ UNCHANGED <<secret, view, pull, cache, budget, now>>
        /\ \E x : access' = IF access[pass.h] = pass.object THEN [access EXCEPT ![pass.h].status = x] ELSE access
    BY Zenon DEF finish, limiterVars
  <1>2. PICK O \in SUBSET ServiceAccounts :
           /\ \A s \in O : robots[s] # NoRobot
           /\ robots' = [s \in ServiceAccounts |-> IF s \in O THEN NoRobot ELSE robots[s]]
           /\ ledger' = [p \in Passwords |-> IF \E s \in O : robots[s].pwd = p
                                             THEN [ledger[p] EXCEPT !.end = "deleted"] ELSE ledger[p]]
    <2> DEFINE h == pass.h
               a == pass.object
               robot == robots[a.sa]
               stale == IF pass.robot = "created" \/ a.status.gen # a.gen
                           \/ a.status.id \notin {NoRobot, robot.id}
                        THEN {s \in ServiceAccounts \ {a.sa} : robots[s] # NoRobot /\ robots[s].owner = h}
                        ELSE {}
    <2>1. stale \in SUBSET ServiceAccounts /\ \A s \in stale : robots[s] # NoRobot
      OBVIOUS
    <2>2. /\ robots' = [s \in ServiceAccounts |-> IF s \in stale THEN NoRobot ELSE robots[s]]
          /\ ledger' = [p \in Passwords |-> IF \E s \in stale : robots[s].pwd = p
                                            THEN [ledger[p] EXCEPT !.end = "deleted"] ELSE ledger[p]]
      BY Zenon DEF finish
    <2> HIDE DEF stale
    <2> QED BY ZenonT(30), <2>1, <2>2
  <1>3. EndsKept /\ RobotsKept
    BY Zenon, <1>2, RobotsGone
  <1>4. access \in [HarborAccesses -> Access \cup {Gone}] /\ ~Unpromised(secret[pass.h])
    BY <1>1, Zenon DEF CredentialInv, TypeInv, TypeOK, ControlInv, PassInv
  <1>5. StatusKept
    <2>1. \A g \in HarborAccesses : g # pass.h => access'[g] = access[g]
      BY Zenon, <1>1, <1>4
    <2> QED BY Zenon, <1>4, <2>1 DEF NotRotated, StatusKept
  <1>6. SecretsKept
    BY Zenon, <1>1 DEF SecretsKept
  <1>7. Keeps /\ LedgerInv' /\ RobotInv' /\ SecretInv' /\ ViewInv' /\ LegacyInv'
    BY Zenon, <1>1, <1>3, <1>5, <1>6, LessKept
  <1> QED BY Zenon, <1>1, <1>7, DataKept, PassInvEnds DEF ControlInv

(***************************************************************************)
(* CredentialInv is inductive: the steps that issue and publish passwords, *)
(* the initial states, and with them PromiseKept and RightRobot.           *)
(***************************************************************************)
\* The robot of s gets a fresh password.
LEMMA IssueKept ==
    ASSUME CredentialInv, NEW s \in ServiceAccounts, NEW p \in Passwords, ledger[p] = Unissued,
           ledger'[p] = Issued(s), now' = now, view' = view, access' = access,
           robots'[s] # NoRobot, robots'[s].pwd = p,
           \A x \in ServiceAccounts \ {s} :
               robots'[x] = robots[x] /\ (robots[x] # NoRobot => ledger'[robots[x].pwd].end = "none"),
           \A q \in Passwords \ {p} :
               /\ ledger'[q].sa = ledger[q].sa /\ ledger'[q].promise = ledger[q].promise
               /\ ledger'[q].end = "scheduled" /\ ledger[q].end # "scheduled" =>
                     /\ Published(q) => ledger[q].promise + RotationSafetyMargin <= now + Skew
                     /\ \A h \in HarborAccesses : Unpromised(secret[h]) /\ secret[h].pwd = q
                           => PasswordRotationInterval + RotationSafetyMargin <= now + Skew,
           \A h \in HarborAccesses : Own(secret'[h]) => secret'[h] = secret[h] /\ Own(secret[h])
    PROVE  Keeps /\ LedgerInv' /\ RobotInv' /\ SecretInv' /\ ViewInv' /\ LegacyInv'
  <1>0. /\ robots \in [ServiceAccounts -> Robot \cup {NoRobot}]
        /\ \A x \in ServiceAccounts : robots[x] # NoRobot => robots[x].pwd \in Passwords
        /\ \A h \in HarborAccesses : Own(secret[h]) => secret[h].sa \in ServiceAccounts
    BY ZenonT(30) DEF CredentialInv, TypeInv, TypeOK, Own, Secret, Robot
  <1>1. /\ ledger[p].sa = Gone /\ ledger[p].promise = NoPromise
        /\ ledger'[p].sa = s /\ ledger'[p].promise = NoPromise /\ ledger'[p].end = "none"
    BY DEF Unissued, Issued
  <1>2. \A x \in ServiceAccounts : x # Gone
    BY Zenon, DistinctAssumption
  <1>3. Keeps
    BY Zenon, <1>1 DEF Keeps, Published
  <1>4. LedgerInv'
    <2> SUFFICES ASSUME NEW q \in Passwords, ledger'[q].promise # NoPromise
                 PROVE  /\ Truncate(ledger'[q].promise) = ledger'[q].promise
                        /\ ledger'[q].end = "scheduled"
                              => ledger'[q].promise + RotationSafetyMargin <= now + Skew
      BY Zenon DEF LedgerInv, Published
    <2>1. q # p
      BY Zenon, <1>1
    <2> QED BY Zenon, <2>1 DEF CredentialInv, ControlInv, LedgerInv, Published
  <1>5. RobotInv'
    <2>1. \A x \in ServiceAccounts : robots[x] # NoRobot => robots[x].pwd # p /\ ledger[robots[x].pwd].sa = x
      BY <1>1, <1>2 DEF CredentialInv, ControlInv, RobotInv
    <2> QED BY <1>0, <1>1, <2>1 DEF RobotInv
  <1>6. \A h \in HarborAccesses : Own(secret[h]) =>
           secret[h].pwd \in Passwords /\ secret[h].pwd # p /\ Faithful(secret[h])
    <2> SUFFICES ASSUME NEW h \in HarborAccesses, Own(secret[h])
                 PROVE  secret[h].pwd \in Passwords /\ secret[h].pwd # p /\ Faithful(secret[h])
      BY Zenon
    <2>1. Faithful(secret[h])
      BY Zenon DEF CredentialInv, ControlInv, SecretInv
    <2>2. ledger[secret[h].pwd].sa # Gone
      BY Zenon, <1>0, <1>2, <2>1 DEF Faithful
    <2> QED BY Zenon, <1>1, <2>1, <2>2 DEF Faithful
  <1>7. SecretInv'
    <2> SUFFICES ASSUME NEW h \in HarborAccesses, Own(secret'[h])
                 PROVE  /\ Faithful(secret[h])' /\ Current(h, secret[h])'
                        /\ \A g \in HarborAccesses \ {h} : Own(secret'[g]) => secret'[g].pwd # secret'[h].pwd
      BY Zenon DEF SecretInv, Own, Faithful, Current, Published
    <2>1. secret'[h] = secret[h] /\ Own(secret[h]) /\ secret[h].sa \in ServiceAccounts
      BY Zenon, <1>0
    <2>2. /\ Current(h, secret[h])
          /\ \A g \in HarborAccesses \ {h} : Own(secret[g]) => secret[g].pwd # secret[h].pwd
      BY Zenon, <2>1 DEF CredentialInv, ControlInv, SecretInv
    <2>3. Faithful(secret[h])'
      <3>1. secret[h].pwd \in Passwords /\ secret[h].pwd # p /\ Faithful(secret[h])
        BY Zenon, <1>6, <2>1
      <3>2. /\ ledger'[secret[h].pwd].sa = ledger[secret[h].pwd].sa
            /\ ledger'[secret[h].pwd].promise = ledger[secret[h].pwd].promise
        BY Zenon, <3>1
      <3> QED BY Zenon, <2>1, <3>1, <3>2 DEF Faithful
    <2>4. Current(h, secret[h])'
      <3>1. CASE secret[h].sa = s
        BY ZenonT(30), <1>1, <2>1, <3>1 DEF Current, Published
      <3>2. CASE secret[h].sa # s
        <4>1. robots'[secret[h].sa] = robots[secret[h].sa]
          BY ZenonT(30), <2>1, <3>2
        <4>2. robots[secret[h].sa] # NoRobot =>
                 robots[secret[h].sa].pwd \in Passwords /\ robots[secret[h].sa].pwd # p
          BY <1>0, <1>1, <1>2, <2>1 DEF CredentialInv, ControlInv, RobotInv
        <4> QED BY <2>1, <2>2, <4>1, <4>2 DEF Current, Published
      <3> QED BY Zenon, <3>1, <3>2
    <2> QED BY Zenon, <2>1, <2>2, <2>3, <2>4
  <1>8. ViewInv'
    BY Zenon, <1>3, ViewKept
  <1>9. LegacyInv'
    <2> SUFFICES ASSUME NEW h \in HarborAccesses, Unpromised(secret'[h])
                 PROVE  /\ NotRotated(access[h]) /\ \A r \in Replicas : NotRotated(view[r].access[h])
                        /\ ledger'[secret'[h].pwd].end = "scheduled"
                              => PasswordRotationInterval + RotationSafetyMargin <= now + Skew
                        /\ \A x \in ServiceAccounts :
                              robots'[x] # NoRobot /\ robots'[x].pwd = secret'[h].pwd => robots'[x].owner = h
      BY Zenon DEF LegacyInv, NotRotated, Unpromised, Own
    <2>1. secret'[h] = secret[h] /\ Unpromised(secret[h]) /\ Own(secret[h])
      BY Zenon DEF Unpromised
    <2>2. secret[h].pwd \in Passwords /\ secret[h].pwd # p
      BY Zenon, <1>6, <2>1
    <2>3. /\ NotRotated(access[h]) /\ \A r \in Replicas : NotRotated(view[r].access[h])
          /\ ledger[secret[h].pwd].end = "scheduled"
                => PasswordRotationInterval + RotationSafetyMargin <= now + Skew
          /\ \A x \in ServiceAccounts :
                robots[x] # NoRobot /\ robots[x].pwd = secret[h].pwd => robots[x].owner = h
      BY Zenon, <2>1 DEF CredentialInv, ControlInv, LegacyInv
    <2>4. ledger'[secret'[h].pwd].end = "scheduled"
             => PasswordRotationInterval + RotationSafetyMargin <= now + Skew
      BY Zenon, <2>1, <2>2, <2>3
    <2>5. ASSUME NEW x \in ServiceAccounts, robots'[x] # NoRobot, robots'[x].pwd = secret'[h].pwd
          PROVE  robots'[x].owner = h
      <3>1. x # s /\ robots'[x] = robots[x]
        BY Zenon, <2>1, <2>2, <2>5
      <3> QED BY Zenon, <2>1, <2>3, <2>5, <3>1
    <2> QED BY Zenon, <2>3, <2>4, <2>5
  <1> QED BY Zenon, <1>3, <1>4, <1>5, <1>7, <1>8, <1>9

LEMMA EnsureRobotInv ==
    ASSUME CredentialInv, ensureRobot
    PROVE  ControlInv' /\ PullInv' /\ CacheInv'
  <1> DEFINE s == pass.object.sa
             t == Clock(pass.replica)
             next == [pass EXCEPT !.at = "rotate", !.time = t]
             c == pass.copy
             h == pass.h
  <1>1. pass.at = "robot" /\ UNCHANGED <<access, secret, view, pull, cache, budget, now>>
    BY Zenon DEF ensureRobot, limiterVars
  <1>2. /\ pass \in PassState /\ h \in HarborAccesses /\ pass.object \in Access /\ pass.replica \in Replicas
        /\ s \in ServiceAccounts
    BY Zenon, <1>1 DEF CredentialInv, TypeInv, TypeOK, PassShape, Access
  <1>3. t \in Int /\ t <= now + Skew
    BY Zenon, <1>2, ClockTypes DEF CredentialInv
  <1>4. /\ Like(next, pass) /\ next.at = "rotate" /\ next.time = t /\ next.pwd = pass.pwd
        /\ next.robot = pass.robot
    BY <1>2, <1>3, PassStarts, Zenon
  <1>5. /\ Own(c) => Faithful(c) /\ Current(h, c) /\ (Unpromised(c) => NotRotated(pass.object))
        /\ Own(secret[h]) => secret[h] = c
    BY Zenon, <1>1 DEF CredentialInv, ControlInv, PassInv, Deciding
  <1>6. UNCHANGED <<robots, ledger>> =>
          LegacyInv' /\ PullInv' /\ CacheInv' /\ LedgerInv' /\ RobotInv' /\ SecretInv' /\ ViewInv'
    <2> SUFFICES ASSUME UNCHANGED <<robots, ledger>>
                 PROVE  LegacyInv' /\ PullInv' /\ CacheInv' /\ LedgerInv' /\ RobotInv' /\ SecretInv' /\ ViewInv'
      OBVIOUS
    <2>1. LegacyInv'
      BY <1>1, Zenon DEF CredentialInv, ControlInv, LegacyInv, NotRotated, Unpromised, Own
    <2> QED BY <1>1, <2>1, StoreKept, ViewKept, DataKept, KeepsAll, Zenon
  <1> HIDE DEF t, next
  <1>7. CASE pass' = NoPass /\ UNCHANGED <<robots, ledger>>
    BY Zenon, <1>6, <1>7, PassInvEnds DEF ControlInv
  <1>8. CASE /\ c # NoSecret => c.own
             /\ robots[s] # NoRobot /\ robots[s].owner = h
             /\ pass' = next /\ UNCHANGED <<robots, ledger>>
    <2>1. /\ pass'.at = "rotate" /\ pass'.h = h /\ pass'.object = pass.object /\ pass'.copy = c
          /\ pass'.time = t /\ pass'.pwd = NoPassword
      BY <1>1, <1>4, <1>8, ZenonT(30) DEF Like, CredentialInv, TypeInv, PassShape
    <2>2. PassInv'
      BY ZenonT(30), <1>1, <1>3, <1>5, <1>8, <2>1 DEF PassInv, Deciding, Decided, Faithful, Current, Published, Own, Unpromised,
                                          NotRotated
    <2> QED BY Zenon, <1>6, <1>8, <2>2 DEF ControlInv
  <1>9. ASSUME NEW p \in Passwords, c # NoSecret => c.own, robots[s] = NoRobot, Fresh(p),
               robots' = [robots EXCEPT ![s] = [id |-> p, owner |-> h, pwd |-> p, suspended |-> FALSE]],
               ledger' = [ledger EXCEPT ![p] = Issued(s)],
               pass' = [next EXCEPT !.pwd = p, !.robot = "created"]
        PROVE  ControlInv' /\ PullInv' /\ CacheInv'
    <2>0. robots \in [ServiceAccounts -> Robot \cup {NoRobot}] /\ ledger \in [Passwords -> Entry]
      BY Zenon DEF CredentialInv, TypeInv, TypeOK
    <2>1. next \in PassState
      BY Zenon, <1>4 DEF Like
    <2>2. Like(pass', next) /\ pass'.at = next.at /\ pass'.time = next.time /\ pass'.pwd = p
      BY <1>9, <2>1, PassCreates, Zenon
    <2>3. /\ pass'.at = "rotate" /\ pass'.h = h /\ pass'.object = pass.object /\ pass'.copy = c
          /\ pass'.time = t /\ pass'.pwd = p
      BY <1>4, <2>2, Zenon DEF Like
    <2>4. /\ robots'[s] = [id |-> p, owner |-> h, pwd |-> p, suspended |-> FALSE]
          /\ \A x \in ServiceAccounts \ {s} : robots'[x] = robots[x]
          /\ ledger[p] = Unissued /\ ledger'[p] = Issued(s)
          /\ \A q \in Passwords \ {p} : ledger'[q] = ledger[q]
      BY Zenon, <1>2, <1>9, <2>0 DEF Fresh
    <2>5. robots'[s] # NoRobot /\ robots'[s].pwd = p /\ robots'[s].owner = h
      <3>1. [id |-> p, owner |-> h, pwd |-> p, suspended |-> FALSE] \in Robot
        BY Zenon, <1>2 DEF Robot
      <3>2. robots'[s] \in Robot
        BY <2>4, <3>1, Zenon
      <3>3. robots'[s].pwd = p /\ robots'[s].owner = h
        BY <2>4
      <3> QED BY <3>2, <3>3, RecordAssumption, Zenon
    <2>6. ledger[p].sa = Gone /\ ledger'[p].promise = NoPromise
      BY <2>4 DEF Unissued, Issued
    <2>7. \A x \in ServiceAccounts : x # Gone
      BY Zenon, DistinctAssumption
    <2>8. \A x \in ServiceAccounts : robots[x] # NoRobot =>
             /\ robots[x].pwd \in Passwords /\ robots[x].pwd # p /\ ledger[robots[x].pwd].end = "none"
      BY ZenonT(30), <2>0, <2>6, <2>7 DEF CredentialInv, ControlInv, RobotInv, Robot
    <2>9. Keeps /\ LedgerInv' /\ RobotInv' /\ SecretInv' /\ ViewInv' /\ LegacyInv'
      <3>1. \A x \in ServiceAccounts \ {s} :
               robots'[x] = robots[x] /\ (robots[x] # NoRobot => ledger'[robots[x].pwd].end = "none")
        BY Zenon, <2>4, <2>8
      <3>2. \A q \in Passwords \ {p} :
               /\ ledger'[q].sa = ledger[q].sa /\ ledger'[q].promise = ledger[q].promise
               /\ ledger'[q].end = ledger[q].end
        BY Zenon, <2>4
      <3>3. \A g \in HarborAccesses : Own(secret'[g]) => secret'[g] = secret[g] /\ Own(secret[g])
        BY Zenon, <1>1
      <3>4. \A q \in Passwords \ {p} :
               /\ ledger'[q].sa = ledger[q].sa /\ ledger'[q].promise = ledger[q].promise
               /\ ledger'[q].end = "scheduled" /\ ledger[q].end # "scheduled" =>
                     /\ Published(q) => ledger[q].promise + RotationSafetyMargin <= now + Skew
                     /\ \A g \in HarborAccesses : Unpromised(secret[g]) /\ secret[g].pwd = q
                           => PasswordRotationInterval + RotationSafetyMargin <= now + Skew
        BY Zenon, <3>2
      <3>5. now' = now /\ view' = view /\ access' = access /\ s \in ServiceAccounts
        BY Zenon, <1>1, <1>2
      <3>6. ledger[p] = Unissued /\ ledger'[p] = Issued(s)
        BY Zenon, <2>4
      <3> HIDE DEF s
      <3> QED BY ZenonT(30), <2>5, <3>1, <3>3, <3>4, <3>5, <3>6, IssueKept
    <2>10. Own(c) => c.pwd \in Passwords /\ c.pwd # p /\ c.sa \in ServiceAccounts
      BY ZenonT(30), <1>2, <1>5, <2>6, <2>7 DEF Faithful, PassState, Own, Secret
    <2>11. Own(c) => Faithful(c)'
      BY <1>1, <1>5, <2>3, <2>4, <2>10 DEF Faithful
    <2>12. Own(c) => Current(h, c)'
      <3>1. c' = c /\ h' = h
        BY Zenon, <2>3
      <3>2. CASE c.sa = s
        BY ZenonT(30), <2>5, <2>6, <3>1, <3>2 DEF Current, Published
      <3>3. CASE c.sa # s
        <4>1. Own(c) => robots'[c.sa] = robots[c.sa]
          BY Zenon, <2>4, <2>10, <3>3
        <4>2. Own(c) /\ robots[c.sa] # NoRobot
                 => ledger'[robots[c.sa].pwd].promise = ledger[robots[c.sa].pwd].promise
          BY Zenon, <2>4, <2>8, <2>10
        <4> QED BY ZenonT(30), <1>5, <3>1, <4>1, <4>2 DEF Current, Published
      <3> QED BY Zenon, <3>2, <3>3
    <2>13. \A g \in HarborAccesses : Own(secret[g]) => secret[g].pwd # p
      <3>1. \A g \in HarborAccesses : Own(secret[g]) => secret[g].sa \in ServiceAccounts
        BY Zenon DEF CredentialInv, TypeInv, TypeOK, Own, Secret
      <3> QED BY ZenonT(30), <2>6, <2>7, <3>1 DEF CredentialInv, ControlInv, SecretInv, Faithful
    <2>14. PassInv'
      BY ZenonT(30), <1>1, <1>3, <1>5, <1>9, <2>3, <2>5, <2>6, <2>11, <2>12, <2>13
         DEF PassInv, Deciding, Decided, Published, Own, Unpromised, NotRotated
    <2> QED BY Zenon, <1>1, <2>9, <2>14, DataKept DEF ControlInv
  <1> QED BY <1>7, <1>8, <1>9, Zenon DEF ensureRobot, next, t

\* What is past a date and a margin for the replica is so for the clock that
\* the replica's may be ahead of.
LEMMA MarginPassed ==
    ASSUME NEW t \in Int, NEW m \in Int, NEW n \in Nat, NEW k \in Nat, NEW r \in Nat,
           t >= m + r, t <= n + k
    PROVE  m + r <= n + k
  OBVIOUS

\* The schedule ends a password only after its promise, and the margin.
LEMMA DueIsLate ==
    ASSUME CredentialInv, pass.at = "rotate",
           rotationReason(pass.object, pass.copy, robots[pass.object.sa], pass.time) = "scheduled"
    PROVE  LET q == robots[pass.object.sa].pwd
           IN  /\ Published(q) => ledger[q].promise + RotationSafetyMargin <= now + Skew
               /\ \A g \in HarborAccesses : Unpromised(secret[g]) /\ secret[g].pwd = q
                     => PasswordRotationInterval + RotationSafetyMargin <= now + Skew
  <1> DEFINE a == pass.object
             s == a.sa
             c == pass.copy
             h == pass.h
             q == robots[s].pwd
  <1>1. /\ h \in HarborAccesses /\ a \in Access /\ pass \in PassState
        /\ robots[s] \in Robot /\ s \in ServiceAccounts
    BY Zenon DEF CredentialInv, TypeInv, TypeOK, PassShape, Access
  <1>2. c # NoSecret /\ c.sa = s /\ scheduledRotation(a, c, pass.time)
    BY Zenon DEF rotationReason, forcedRotation
  <1>3. Own(c) /\ robots[s].owner = h /\ pass.time <= now + Skew
    BY Zenon, <1>2 DEF CredentialInv, ControlInv, PassInv, Decided, Own
  <1>4. /\ Faithful(c) /\ Current(h, c) /\ (Unpromised(c) => NotRotated(a))
        /\ Own(secret[h]) => secret[h] = c
    BY Zenon, <1>3 DEF CredentialInv, ControlInv, PassInv, Deciding
  <1>5. robots[s] # NoRobot /\ a # Gone
    BY Zenon, <1>1, RecordAssumption
  <1>6. pass.time \in Int /\ now \in Nat /\ Skew \in Nat /\ c.promise \in Promise
    BY ZenonT(30), <1>1, <1>2, ClockAssumption DEF CredentialInv, TypeInv, TypeOK, PassState, Secret
  <1>7. ASSUME Published(q)
        PROVE  ledger[q].promise + RotationSafetyMargin <= now + Skew
    <2>1. c.pwd = q /\ c.promise = ledger[q].promise /\ c.promise # NoPromise
      BY Zenon, <1>2, <1>3, <1>4, <1>5, <1>7 DEF Current, Faithful, Published
    <2>2. pass.time >= c.promise + RotationSafetyMargin
      BY Zenon, <1>2, <2>1 DEF scheduledRotation
    <2>3. c.promise \in Int /\ RotationSafetyMargin \in Nat
      BY Zenon, <1>6, <2>1, ClockAssumption DEF Promise
    <2> QED BY Zenon, <1>3, <1>6, <2>1, <2>2, <2>3, MarginPassed
  <1>8. ASSUME NEW g \in HarborAccesses, Unpromised(secret[g]), secret[g].pwd = q
        PROVE  PasswordRotationInterval + RotationSafetyMargin <= now + Skew
    <2>1. g = h
      BY Zenon, <1>1, <1>3, <1>5, <1>8 DEF CredentialInv, ControlInv, LegacyInv
    <2>2. Unpromised(c) /\ a.status.rotated = 0
      BY Zenon, <1>4, <1>5, <1>8, <2>1 DEF Unpromised, NotRotated
    <2>3. pass.time >= PasswordRotationInterval + RotationSafetyMargin
      BY <1>2, <2>2, ClockAssumption DEF scheduledRotation, Unpromised
    <2> QED BY <1>3, <1>6, <2>3, ClockAssumption
  <1> QED BY Zenon, <1>7, <1>8

LEMMA RotateInv ==
    ASSUME CredentialInv, rotate
    PROVE  ControlInv' /\ PullInv' /\ CacheInv'
  <1> DEFINE s == pass.object.sa
             c == pass.copy
             h == pass.h
             robot == robots[s]
             why == rotationReason(pass.object, c, robot, pass.time)
  <1>1. pass.at = "rotate" /\ UNCHANGED <<access, view, pull, cache, budget, now>>
    BY Zenon DEF rotate, limiterVars
  <1>2. /\ pass \in PassState /\ h \in HarborAccesses /\ s \in ServiceAccounts /\ robot \in Robot
        /\ robots \in [ServiceAccounts -> Robot \cup {NoRobot}] /\ ledger \in [Passwords -> Entry]
        /\ secret \in [HarborAccesses -> Secret \cup {NoSecret}]
    BY Zenon, <1>1 DEF CredentialInv, TypeInv, TypeOK, PassShape, Access
  <1>3. /\ Own(c) => Faithful(c) /\ Current(h, c) /\ (Unpromised(c) => NotRotated(pass.object))
        /\ Own(secret[h]) => secret[h] = c
        /\ c # NoSecret => c.own
        /\ robot.owner = h
        /\ pass.time <= now + Skew
    BY Zenon, <1>1 DEF CredentialInv, ControlInv, PassInv, Deciding, Decided
  <1>4. why \in {"none", "forced", "scheduled"}
    BY Zenon DEF rotationReason
  <1>5. UNCHANGED <<robots, ledger, secret>> =>
          LegacyInv' /\ PullInv' /\ CacheInv' /\ LedgerInv' /\ RobotInv' /\ SecretInv' /\ ViewInv'
    <2> SUFFICES ASSUME UNCHANGED <<robots, ledger, secret>>
                 PROVE  LegacyInv' /\ PullInv' /\ CacheInv' /\ LedgerInv' /\ RobotInv' /\ SecretInv' /\ ViewInv'
      OBVIOUS
    <2>1. LegacyInv'
      BY <1>1, Zenon DEF CredentialInv, ControlInv, LegacyInv, NotRotated, Unpromised, Own
    <2> QED BY <1>1, <2>1, StoreKept, ViewKept, DataKept, KeepsAll, Zenon
  <1>6. CASE pass' = NoPass /\ UNCHANGED <<robots, secret, ledger>>
    BY Zenon, <1>5, <1>6, PassInvEnds DEF ControlInv
  <1>7. CASE pass' = [pass EXCEPT !.at = "write"] /\ UNCHANGED <<robots, secret, ledger>>
    <2>1. Like(pass', pass) /\ pass'.at = "write" /\ pass'.pwd = pass.pwd /\ pass'.time = pass.time
      BY <1>2, <1>7, PassGoesOn, ZenonT(30)
    <2>2. PassInv'
      <3>1. UNCHANGED <<robots, secret, ledger, now>> /\ PassInv
        BY Zenon, <1>1, <1>7 DEF CredentialInv, ControlInv
      <3> QED BY ZenonT(30), <1>1, <2>1, <3>1 DEF PassInv, Deciding, Decided, Faithful, Current, Published, Own,
                                      Unpromised, NotRotated, Like
    <2> QED BY Zenon, <1>5, <1>7, <2>2 DEF ControlInv
  <1>8. ASSUME NEW p \in Passwords, Fresh(p),
               robots' = [robots EXCEPT ![s].pwd = p, ![s].suspended = FALSE],
               ledger' = [ledger EXCEPT ![robot.pwd].end = why, ![p] = Issued(s)],
               pass' = [pass EXCEPT !.at = "write", !.pwd = p],
               secret' \in {secret, [secret EXCEPT ![h] = NoSecret]}
        PROVE  ControlInv' /\ PullInv' /\ CacheInv'
    <2>1. Like(pass', pass) /\ pass'.at = "write" /\ pass'.pwd = p /\ pass'.time = pass.time
      BY <1>2, <1>8, PassRotates, Zenon
    <2>2. robots'[s] = [[robot EXCEPT !.pwd = p] EXCEPT !.suspended = FALSE]
          /\ \A x \in ServiceAccounts \ {s} : robots'[x] = robots[x]
      BY ZenonT(30), <1>2, <1>8
    <2>3. robots'[s] \in Robot /\ robots'[s].pwd = p /\ robots'[s].owner = h
      BY ZenonT(30), <1>2, <1>3, <2>2 DEF Robot
    <2>4. robots'[s] # NoRobot
      BY <2>3, RecordAssumption, Zenon
    <2>5. ledger[p] = Unissued /\ ledger[p].sa = Gone /\ ~Published(p)
      BY <1>8 DEF Fresh, Unissued, Published
    <2>6. \A x \in ServiceAccounts : x # Gone
      BY DistinctAssumption
    <2>7. \A x \in ServiceAccounts : robots[x] # NoRobot =>
             /\ robots[x].pwd \in Passwords /\ robots[x].pwd # p /\ ledger[robots[x].pwd].end = "none"
             /\ ledger[robots[x].pwd].sa = x
      BY <1>2, <2>5, <2>6 DEF CredentialInv, ControlInv, RobotInv, Robot
    <2>8. robot # NoRobot
      BY <1>2, RecordAssumption, Zenon
    <2>9. /\ ledger'[p] = Issued(s)
          /\ ledger'[robot.pwd] = [ledger[robot.pwd] EXCEPT !.end = why]
          /\ \A q \in Passwords \ {p, robot.pwd} : ledger'[q] = ledger[q]
      BY ZenonT(30), <1>2, <1>8, <2>7, <2>8
    <2>10. /\ ledger'[robot.pwd].end = why /\ ledger'[robot.pwd].sa = ledger[robot.pwd].sa
           /\ ledger'[robot.pwd].promise = ledger[robot.pwd].promise
      <3>1. ledger[robot.pwd] \in Entry
        BY ZenonT(30), <1>2, <2>7, <2>8
      <3> QED BY <2>9, <3>1, ZenonT(30) DEF Entry
    <2>11. ~Published(p)'
      BY SMTT(20), <2>9 DEF Published, Issued
    <2>12. \A g \in HarborAccesses : Own(secret'[g]) => secret'[g] = secret[g] /\ Own(secret[g])
      BY Zenon, <1>2, <1>8 DEF Own
    <2> DEFINE old == robot.pwd
    <2> HIDE DEF s, robot, why, old
    <2>13. \A q \in Passwords \ {p} :
             ledger'[q].sa = ledger[q].sa /\ ledger'[q].promise = ledger[q].promise
      BY Zenon, <2>9, <2>10
    <2>14. \A q \in Passwords \ {p} :
             ledger'[q].end = "scheduled" /\ ledger[q].end # "scheduled" => q = old /\ why = "scheduled"
      BY Zenon, <2>9, <2>10 DEF old
    <2>15. why = "scheduled" =>
             /\ Published(old) => ledger[old].promise + RotationSafetyMargin <= now + Skew
             /\ \A g \in HarborAccesses : Unpromised(secret[g]) /\ secret[g].pwd = old
                   => PasswordRotationInterval + RotationSafetyMargin <= now + Skew
      BY <1>1, DueIsLate, Zenon DEF old, robot, why, s
    <2>16. \A x \in ServiceAccounts \ {s} : robots[x] # NoRobot => ledger'[robots[x].pwd].end = "none"
      <3>1. \A x \in ServiceAccounts \ {s} : robots[x] # NoRobot => robots[x].pwd # robot.pwd
        BY ZenonT(30), <1>2, <2>7, <2>8 DEF robot, s
      <3> QED BY ZenonT(30), <2>7, <2>9, <3>1
    <2>17. Keeps /\ LedgerInv' /\ RobotInv' /\ SecretInv' /\ ViewInv' /\ LegacyInv'
      BY ZenonT(30), <1>1, <1>2, <2>2, <2>3, <2>4, <2>5, <2>9, <2>12, <2>13, <2>14, <2>15, <2>16, IssueKept
    <2>18. Own(c) => c.pwd \in Passwords /\ c.pwd # p /\ c.sa \in ServiceAccounts
      BY Zenon, <1>2, <1>3, <2>5, <2>6 DEF Faithful, PassState, Own, Secret
    <2>19. c' = c /\ h' = h /\ pass'.object = pass.object
      BY <2>1, Zenon DEF Like
    <2>20. Own(c) => Faithful(c)'
      BY ZenonT(30), <1>3, <2>13, <2>18, <2>19 DEF Faithful
    <2>21. Own(c) => Current(h, c)'
      <3>1. CASE c.sa = s
        BY Zenon, <2>3, <2>11, <2>19, <3>1 DEF Current, Published
      <3>2. CASE c.sa # s
        <4> SUFFICES ASSUME Own(c) PROVE Current(h, c)'
          BY Zenon
        <4>1. /\ robots'[c.sa] = robots[c.sa] /\ Current(h, c)
              /\ robots[c.sa] # NoRobot =>
                    robots[c.sa].pwd \in Passwords /\ robots[c.sa].pwd # p
          BY ZenonT(30), <1>3, <2>2, <2>7, <2>18, <3>2
        <4>2. robots[c.sa] # NoRobot =>
                 ledger'[robots[c.sa].pwd].promise = ledger[robots[c.sa].pwd].promise
          BY Zenon, <2>13, <4>1
        <4> QED BY ZenonT(30), <2>19, <4>1, <4>2 DEF Current, Published
      <3> QED BY Zenon, <3>1, <3>2
    <2>22. \A g \in HarborAccesses : Own(secret'[g]) => secret'[g].pwd # p
      <3>1. \A g \in HarborAccesses : Own(secret[g]) => secret[g].sa \in ServiceAccounts
        BY DEF CredentialInv, TypeInv, TypeOK, Own, Secret
      <3> QED BY <2>5, <2>6, <2>12, <3>1 DEF CredentialInv, ControlInv, SecretInv, Faithful
    <2>23. PassInv'
      BY ZenonT(30), <1>1, <1>2, <1>3, <2>1, <2>3, <2>11, <2>12, <2>19, <2>20, <2>21, <2>22
         DEF PassInv, Deciding, Decided, Own, Unpromised, NotRotated, s
    <2> QED BY Zenon, <1>1, <2>17, <2>23, DataKept DEF ControlInv
  <1> QED BY <1>6, <1>7, <1>8, Zenon DEF rotate

\* Publishing h's password, in its Secret and with a promise.
LEMMA PublishKept ==
    ASSUME CredentialInv, NEW h \in HarborAccesses, NEW s \in ServiceAccounts, NEW p \in Passwords, NEW m \in Int,
           NEW u \in Secret, u.sa = s, u.pwd = p, u.promise = m,
           robots[s] # NoRobot, robots[s].owner = h, Published(robots[s].pwd) => robots[s].pwd = p,
           ledger[p].sa = s, ledger[p].promise \in {NoPromise, m}, Truncate(m) = m,
           ledger[p].end = "scheduled" => m + RotationSafetyMargin <= now + Skew,
           \A g \in HarborAccesses \ {h} : Own(secret[g]) => secret[g].pwd # p,
           secret' = [secret EXCEPT ![h] = u],
           ledger'[p].promise = m, ledger'[p].sa = s, ledger'[p].end = ledger[p].end,
           \A q \in Passwords \ {p} : ledger'[q] = ledger[q],
           UNCHANGED <<access, robots, view, now>>
    PROVE  /\ Keeps /\ LedgerInv' /\ RobotInv' /\ SecretInv' /\ ViewInv' /\ LegacyInv'
           /\ ~Unpromised(secret'[h])
  <1>0. /\ robots \in [ServiceAccounts -> Robot \cup {NoRobot}] /\ ledger \in [Passwords -> Entry]
        /\ secret \in [HarborAccesses -> Secret \cup {NoSecret}]
    BY Zenon DEF CredentialInv, TypeInv, TypeOK
  <1>1. secret'[h] = u /\ \A g \in HarborAccesses \ {h} : secret'[g] = secret[g]
    BY Zenon, <1>0
  <1>2. m # NoPromise
    BY Zenon, DistinctAssumption
  <1>3. ~Unpromised(secret'[h])
    BY Zenon, <1>1, <1>2 DEF Unpromised
  <1>4. Keeps
    BY Zenon DEF Keeps, Published
  <1>5. LedgerInv'
    <2> SUFFICES ASSUME NEW q \in Passwords, ledger'[q].promise # NoPromise
                 PROVE  /\ Truncate(ledger'[q].promise) = ledger'[q].promise
                        /\ ledger'[q].end = "scheduled"
                              => ledger'[q].promise + RotationSafetyMargin <= now + Skew
      BY Zenon DEF LedgerInv, Published
    <2>1. CASE q = p
      BY Zenon, <2>1
    <2>2. CASE q # p
      BY ZenonT(30), <2>2 DEF CredentialInv, ControlInv, LedgerInv, Published
    <2> QED BY Zenon, <2>1, <2>2
  <1>6. \A x \in ServiceAccounts : robots[x] # NoRobot => robots[x].pwd \in Passwords
    BY Zenon, <1>0 DEF Robot
  <1>7. RobotInv'
    BY <1>6 DEF CredentialInv, ControlInv, RobotInv
  <1>8. ViewInv'
    BY Zenon, <1>4, ViewKept
  <1>9. SecretInv'
    <2>1. ASSUME NEW g \in HarborAccesses \ {h}, Own(secret[g])
          PROVE  Faithful(secret[g])' /\ Current(g, secret[g])'
      <3> DEFINE x == secret[g].sa
      <3>1. x \in ServiceAccounts /\ secret[g].pwd \in Passwords /\ secret[g].pwd # p
            /\ Faithful(secret[g]) /\ Current(g, secret[g])
        BY SMTT(20), <1>0, <2>1 DEF CredentialInv, ControlInv, SecretInv, Faithful, Own, Secret
      <3>2. Faithful(secret[g])'
        <4>1. ledger'[secret[g].pwd] = ledger[secret[g].pwd] /\ secret'[g] = secret[g]
          BY Zenon, <1>1, <3>1
        <4> QED BY Zenon, <3>1, <4>1 DEF Faithful
      <3>3. robots[x] # NoRobot /\ robots[x].owner = g => robots[x].pwd # p
        <4>1. robots[x] # NoRobot => ledger[robots[x].pwd].sa = x
          BY Zenon, <3>1 DEF CredentialInv, ControlInv, RobotInv
        <4>2. CASE x # s
          BY Zenon, <4>1, <4>2
        <4>3. CASE x = s
          BY Zenon, <3>1, <4>3
        <4> QED BY Zenon, <4>2, <4>3
      <3>4. Current(g, secret[g])'
        <4>1. secret'[g] = secret[g] /\ robots' = robots
          BY Zenon, <1>1
        <4>2. robots[x] # NoRobot /\ robots[x].owner = g
                 => ledger'[robots[x].pwd] = ledger[robots[x].pwd]
          BY Zenon, <1>6, <3>1, <3>3
        <4> QED BY Zenon, <3>1, <4>1, <4>2 DEF Current, Published
      <3> QED BY Zenon, <3>2, <3>4
    <2>2. Faithful(secret[h])' /\ Current(h, secret[h])'
      <3>1. Faithful(secret[h])'
        BY ZenonT(30), <1>1 DEF Faithful
      <3>2. Current(h, secret[h])'
        <4>1. secret'[h].sa = s /\ secret'[h].pwd = p /\ robots' = robots
          BY Zenon, <1>1
        <4>2. robots[s].pwd # p => ledger'[robots[s].pwd] = ledger[robots[s].pwd]
          BY Zenon, <1>6
        <4>3. ledger'[robots[s].pwd].promise # NoPromise => robots[s].pwd = p
          BY Zenon, <4>2 DEF Published
        <4> QED BY Zenon, <4>1, <4>3 DEF Current, Published
      <3> QED BY Zenon, <3>1, <3>2
    <2>3. \A g, k \in HarborAccesses : g # k /\ Own(secret'[g]) /\ Own(secret'[k]) => secret'[g].pwd # secret'[k].pwd
      BY <1>1 DEF CredentialInv, ControlInv, SecretInv
    <2>4. \A g \in HarborAccesses : Own(secret[g])' => Faithful(secret[g])' /\ Current(g, secret[g])'
      BY <1>1, <2>1, <2>2, ZenonT(30) DEF Own
    <2> QED BY <2>3, <2>4, ZenonT(30) DEF SecretInv, Own
  <1>10. LegacyInv'
    <2> SUFFICES ASSUME NEW g \in HarborAccesses, Unpromised(secret'[g])
                 PROVE  /\ NotRotated(access[g]) /\ \A r \in Replicas : NotRotated(view[r].access[g])
                        /\ ledger'[secret'[g].pwd].end = "scheduled"
                              => PasswordRotationInterval + RotationSafetyMargin <= now + Skew
                        /\ \A x \in ServiceAccounts :
                              robots[x] # NoRobot /\ robots[x].pwd = secret'[g].pwd => robots[x].owner = g
      BY ZenonT(30) DEF LegacyInv, Unpromised, Own, NotRotated
    <2>1. g # h /\ secret'[g] = secret[g]
      BY Zenon, <1>1, <1>3
    <2>2. Unpromised(secret[g]) /\ secret[g].pwd \in Passwords
      BY Zenon, <2>1 DEF CredentialInv, ControlInv, SecretInv, Faithful, Unpromised
    <2>3. ledger'[secret[g].pwd].end = ledger[secret[g].pwd].end
      BY Zenon, <2>2
    <2>4. /\ NotRotated(access[g]) /\ \A r \in Replicas : NotRotated(view[r].access[g])
          /\ ledger[secret[g].pwd].end = "scheduled"
                => PasswordRotationInterval + RotationSafetyMargin <= now + Skew
          /\ \A x \in ServiceAccounts :
                robots[x] # NoRobot /\ robots[x].pwd = secret[g].pwd => robots[x].owner = g
      BY Zenon, <2>2 DEF CredentialInv, ControlInv, LegacyInv
    <2> QED BY Zenon, <2>1, <2>3, <2>4
  <1> QED BY Zenon, <1>3, <1>4, <1>5, <1>7, <1>8, <1>9, <1>10

LEMMA WriteInv ==
    ASSUME CredentialInv, writeRobotSecret
    PROVE  ControlInv' /\ PullInv' /\ CacheInv'
  <1> DEFINE h == pass.h
             c == pass.copy
             s == pass.object.sa
             rotated == pass.pwd # NoPassword
             before == rotationNotBefore(pass.object, c, rotated, pass.time)
             promise == FormatRotationNotBefore(before)
             pwd == IF rotated THEN pass.pwd ELSE c.pwd
             updated == [sa |-> s, pwd |-> pwd, robot |-> robots[s].id, promise |-> promise,
                         own |-> TRUE]
             mine == IF rotated THEN secret[h] # NoSecret => secret[h].own
                     ELSE secret[h] = c
  <1>1. pass.at = "write" /\ UNCHANGED <<access, robots, view, pull, cache, budget, now>>
    BY Zenon DEF writeRobotSecret, limiterVars
  <1>2. /\ pass \in PassState /\ h \in HarborAccesses /\ s \in ServiceAccounts /\ robots[s] \in Robot
        /\ ledger \in [Passwords -> Entry] /\ pass.object \in Access
        /\ ~rotated => c \in Secret /\ c.sa = s
                       /\ (c.promise = NoPromise => pass.object.status.rotated \in Int)
    BY Zenon, <1>1 DEF CredentialInv, TypeInv, TypeOK, PassShape, Access
  <1>3. /\ Own(c) => Faithful(c) /\ Current(h, c) /\ (Unpromised(c) => NotRotated(pass.object))
        /\ Own(secret[h]) => secret[h] = c
        /\ c # NoSecret => c.own
        /\ robots[s].owner = h
    BY Zenon, <1>1 DEF CredentialInv, ControlInv, PassInv, Deciding, Decided
  <1>4. rotated => /\ pass.pwd = robots[s].pwd /\ ~Published(pass.pwd) /\ pass.pwd \in Passwords
                   /\ \A g \in HarborAccesses : Own(secret[g]) => secret[g].pwd # pass.pwd
    BY ZenonT(30), <1>1, <1>2 DEF CredentialInv, ControlInv, PassInv, Decided, PassState
  <1>5. before \in Int
    BY <1>2, ClockAssumption DEF rotationNotBefore, Secret, Promise, PassState
  <1>6. promise \in Int /\ Truncate(promise) = promise
    BY Zenon, <1>5, RoundType
  <1>7. ~rotated => Own(c)
    BY Zenon, <1>2, <1>3, RecordAssumption DEF Own
  <1>8. robots[s] # NoRobot
    BY <1>2, RecordAssumption, ZenonT(30)
  <1>9. pwd \in Passwords /\ ledger[pwd].sa = s
    BY ZenonT(30), <1>2, <1>3, <1>4, <1>7, <1>8 DEF CredentialInv, ControlInv, RobotInv, Faithful
  <1>10. [pass EXCEPT !.at = "clean"].at = "clean" /\ Like([pass EXCEPT !.at = "clean"], pass)
    BY ZenonT(30), <1>2, PassGoesOn
  <1>11. updated \in Secret /\ updated.sa = s /\ updated.pwd = pwd /\ updated.promise = promise
    <2> HIDE DEF pwd, promise
    <2> QED BY Zenon, <1>2, <1>6, <1>9 DEF Secret, Promise, Robot
  <1>12. CASE pass' = NoPass /\ UNCHANGED <<secret, ledger>>
    <2>1. LegacyInv'
      BY <1>1, <1>12, Zenon DEF CredentialInv, ControlInv, LegacyInv, NotRotated, Unpromised, Own
    <2> QED BY ZenonT(30), <1>1, <1>12, <2>1, StoreKept, ViewKept, DataKept, KeepsAll, PassInvEnds DEF ControlInv
  <1>13. CASE updated = c /\ pass' = [pass EXCEPT !.at = "clean"] /\ UNCHANGED <<secret, ledger>>
    <2>1. LegacyInv'
      BY <1>1, <1>13, Zenon DEF CredentialInv, ControlInv, LegacyInv, NotRotated, Unpromised, Own
    <2>2. pass'.at = "clean" /\ pass'.h = h
      BY <1>10, <1>13, Zenon DEF Like
    <2>3. c.promise # NoPromise
      BY Zenon, <1>6, <1>11, <1>13, DistinctAssumption
    <2>4. ~Unpromised(secret[h])
      BY Zenon, <1>3, <2>3 DEF Unpromised
    <2>5. PassInv'
      BY Zenon, <1>13, <2>2, <2>4 DEF PassInv, Deciding, Decided, Unpromised, Own
    <2> QED BY ZenonT(30), <1>1, <1>13, <2>1, <2>5, StoreKept, ViewKept, DataKept, KeepsAll DEF ControlInv
  <1>14. CASE /\ mine
              /\ secret' = [secret EXCEPT ![h] = updated]
              /\ ledger' = [ledger EXCEPT ![pwd].promise = promise]
              /\ pass' = [pass EXCEPT !.at = "clean"]
    <2>1. ledger[pwd].promise \in {NoPromise, promise}
      <3>1. CASE rotated
        BY Zenon, <1>4, <3>1 DEF Published
      <3>2. CASE ~rotated /\ c.promise # NoPromise
        <4>1. before = c.promise /\ c.promise = ledger[pwd].promise
          BY Zenon, <1>3, <1>7, <3>2 DEF rotationNotBefore, Faithful
        <4>2. Truncate(before) = before
          BY Zenon, <1>9, <3>2, <4>1 DEF CredentialInv, ControlInv, LedgerInv, Published
        <4> QED BY Zenon, <4>1, <4>2 DEF FormatRotationNotBefore
      <3>3. CASE ~rotated /\ c.promise = NoPromise
        BY Zenon, <1>3, <1>7, <3>3 DEF Faithful
      <3> QED BY Zenon, <3>1, <3>2, <3>3
    <2>2. ledger[pwd].end = "scheduled" => promise + RotationSafetyMargin <= now + Skew
      <3>1. CASE rotated
        BY ZenonT(30), <1>2, <1>4, <1>8, <3>1 DEF CredentialInv, ControlInv, RobotInv
      <3>2. CASE ~rotated /\ c.promise # NoPromise
        BY ZenonT(30), <1>3, <1>6, <1>7, <1>9, <2>1, <3>2
           DEF CredentialInv, ControlInv, LedgerInv, Published, Faithful
      <3>3. CASE ~rotated /\ c.promise = NoPromise
        <4>1. Unpromised(c) /\ secret[h] = c /\ pwd = c.pwd
          BY Zenon, <1>7, <1>14, <3>3 DEF Unpromised
        <4>2. pass.object.status.rotated = 0
          BY ZenonT(30), <1>2, <1>3, <4>1, RecordAssumption DEF NotRotated, Unpromised
        <4>3. promise = PasswordRotationInterval
          BY <3>3, <4>2, ClockAssumption DEF rotationNotBefore, FormatRotationNotBefore, Truncate
        <4> QED BY <1>2, <4>1, <4>3 DEF CredentialInv, ControlInv, LegacyInv
      <3> QED BY Zenon, <3>1, <3>2, <3>3
    <2>3. \A g \in HarborAccesses \ {h} : Own(secret[g]) => secret[g].pwd # pwd
      BY Zenon, <1>2, <1>4, <1>7, <1>14 DEF CredentialInv, ControlInv, SecretInv
    <2>4. Published(robots[s].pwd) => robots[s].pwd = pwd
      BY Zenon, <1>2, <1>3, <1>4, <1>7, <1>8 DEF Current
    <2> HIDE DEF pwd, promise, rotated, mine
    <2>5. ledger'[pwd] = [ledger[pwd] EXCEPT !.promise = promise] /\ \A q \in Passwords \ {pwd} : ledger'[q] = ledger[q]
      BY <1>2, <1>9, <1>14, Zenon
    <2>6. ledger'[pwd].promise = promise /\ ledger'[pwd].sa = s /\ ledger'[pwd].end = ledger[pwd].end
      BY <1>2, <1>9, <2>5, ZenonT(30) DEF Entry
    <2> HIDE DEF updated
    <2>7. secret' = [secret EXCEPT ![h] = updated]
      BY <1>14, Zenon
    <2>8. \A q \in Passwords \ {pwd} : ledger'[q] = ledger[q]
      BY Zenon, <2>5
    <2>9. h \in HarborAccesses /\ s \in ServiceAccounts /\ robots[s].owner = h
      BY Zenon, <1>2, <1>3
    <2>10. UNCHANGED <<access, robots, view, now>>
      BY Zenon, <1>1
    <2> HIDE DEF h, s
    <2>11. /\ Keeps /\ LedgerInv' /\ RobotInv' /\ SecretInv' /\ ViewInv' /\ LegacyInv'
          /\ ~Unpromised(secret'[h])
      BY ZenonT(30), <1>6, <1>8, <1>9, <1>11, <2>1, <2>2, <2>3, <2>4, <2>6, <2>7, <2>8, <2>9, <2>10, PublishKept
    <2>12. pass'.at = "clean" /\ pass'.h = h
      BY <1>10, <1>14, Zenon DEF Like, h
    <2>13. PassInv'
      BY Zenon, <2>11, <2>12 DEF PassInv, Deciding, Decided, Unpromised, Own
    <2> QED BY Zenon, <1>1, <2>11, <2>13, DataKept DEF ControlInv
  <1> QED BY <1>12, <1>13, <1>14, Zenon DEF writeRobotSecret

-----------------------------------------------------------------------------
(***************************************************************************)
(* At the start, and in every step.                                        *)
(***************************************************************************)
LEMMA InitInv ==
    ASSUME Init
    PROVE  CredentialInv
  <1>1. TypeInv
    BY Zenon, InitTypes
  <1>2. now \in Nat /\ HarborAccesses \subseteq Passwords
    BY Zenon, <1>1, DistinctAssumption DEF TypeInv, TypeOK, Passwords
  <1>3. OldPromise # NoPromise => Truncate(OldPromise) = OldPromise
    <2>1. PasswordRotationInterval \in Int
      BY ClockAssumption
    <2> QED BY Zenon, <2>1, RoundType DEF OldPromise
  <1>4. \A p \in Passwords :
           /\ ledger[p].end = "none"
           /\ ledger[p].promise \in {NoPromise, OldPromise}
    BY Zenon DEF Init, Unissued
  <1>5. LedgerInv
    BY Zenon, <1>3, <1>4 DEF LedgerInv, Published
  <1>6. \A h \in HarborAccesses : Old(h) => /\ ledger[h].sa = budget.accounts[h]
                                           /\ ledger[h].promise = OldPromise
    BY Zenon, <1>2 DEF Init
  <1>7. \A s \in ServiceAccounts : robots[s] # NoRobot =>
           /\ robots[s].pwd \in OldOwners(s)
           /\ robots[s].owner = robots[s].pwd
    <2> SUFFICES ASSUME NEW s \in ServiceAccounts, robots[s] # NoRobot
                 PROVE  robots[s].pwd \in OldOwners(s) /\ robots[s].owner = robots[s].pwd
      OBVIOUS
    <2> DEFINE h == CHOOSE h \in OldOwners(s) : TRUE
    <2>1. OldOwners(s) # {} /\ robots[s] = [id |-> h, owner |-> h, pwd |-> h, suspended |-> FALSE]
      BY Zenon DEF Init
    <2>2. h \in OldOwners(s)
      BY <2>1, Zenon
    <2>3. robots[s].pwd = h /\ robots[s].owner = h
      <3> HIDE DEF h
      <3> QED BY <2>1
    <2> QED BY Zenon, <2>2, <2>3
  <1>8. RobotInv
    <2>1. \A s \in ServiceAccounts : \A h \in OldOwners(s) :
             h \in HarborAccesses /\ Old(h) /\ budget.accounts[h] = s
      BY Zenon DEF OldOwners
    <2> QED BY ZenonT(30), <1>2, <1>4, <1>6, <1>7, <2>1 DEF RobotInv
  <1>9. \A h \in HarborAccesses : Own(secret[h]) =>
           /\ Old(h) /\ secret[h].pwd = h /\ secret[h].sa = budget.accounts[h]
           /\ secret[h].promise = OldPromise
    <2> SUFFICES ASSUME NEW h \in HarborAccesses, Own(secret[h])
                 PROVE  /\ Old(h) /\ secret[h].pwd = h /\ secret[h].sa = budget.accounts[h]
                        /\ secret[h].promise = OldPromise
      OBVIOUS
    <2>1. /\ Old(h)
          /\ secret[h] = [sa |-> budget.accounts[h], pwd |-> h, promise |-> OldPromise, own |-> TRUE,
                          robot |-> IF OldPromise = NoPromise THEN NoRobot ELSE h]
      BY Zenon DEF Init, Own
    <2> QED BY <2>1
  <1>10. SecretInv
    <2>1. ASSUME NEW h \in HarborAccesses, Own(secret[h])
          PROVE  Faithful(secret[h]) /\ Current(h, secret[h])
      <3>1. secret[h].sa \in ServiceAccounts
        BY Zenon, <1>1, <2>1 DEF TypeInv, TypeOK, Own, Secret
      <3> QED BY ZenonT(30), <1>2, <1>6, <1>7, <1>9, <2>1, <3>1 DEF Faithful, Current
    <2>2. \A h \in HarborAccesses : \A g \in HarborAccesses \ {h} :
             Own(secret[h]) /\ Own(secret[g]) => secret[g].pwd # secret[h].pwd
      BY Zenon, <1>9
    <2> QED BY <2>1, <2>2, ZenonT(30) DEF SecretInv
  <1>11. \A r \in Replicas : view[r].secret = secret /\ view[r].access = access
    BY ZenonT(30) DEF Init
  <1>12. ViewInv
    BY Zenon, <1>10, <1>11 DEF ViewInv, SecretInv, Faithful, Recalled
  <1>13. LegacyInv
    <2>1. \A h \in HarborAccesses : Old(h) => NotRotated(access[h])
      <3> SUFFICES ASSUME NEW h \in HarborAccesses, Old(h)
                   PROVE  access[h].status.rotated = 0
        BY Zenon DEF NotRotated
      <3>1. access[h] = [sa |-> budget.accounts[h], spec |-> "good", deleting |-> FALSE, gen |-> 1,
                         status |-> [id |-> h, rotated |-> 0, gen |-> 1]]
        BY Zenon DEF Init, Old
      <3> QED BY <3>1
    <2> QED BY ZenonT(30), <1>2, <1>4, <1>7, <1>9, <1>11, <2>1 DEF LegacyInv, Unpromised
  <1>14. PassInv
    BY ZenonT(30) DEF Init, PassInv, Deciding, Decided, NoPass, Passing
  <1>15. PullInv
    <2>1. \A n \in Nodes : pull[n] = NoPull
      BY Zenon DEF Init
    <2>2. NoPull.at = "idle" /\ NoPull.answer.status = 0
      BY Zenon DEF NoPull, Pulling, Refusal
    <2> QED BY <2>1, <2>2 DEF PullInv, Bounded
  <1>16. CacheInv
    BY Zenon DEF Init, CacheInv, NotCached
  <1> QED BY ZenonT(30), <1>1, <1>5, <1>8, <1>10, <1>12, <1>13, <1>14, <1>15, <1>16 DEF CredentialInv, ControlInv

LEMMA StepInv ==
    ASSUME CredentialInv, [Next]_vars
    PROVE  CredentialInv'
  <1>0. TypeInv'
    BY Zenon, StepTypes DEF CredentialInv
  <1> SUFFICES ControlInv' /\ PullInv' /\ CacheInv'
    BY Zenon, <1>0 DEF CredentialInv
  <1>1. CASE Pass
    BY Zenon, <1>1, RevokeInv, SuspendInv, EnsureRobotInv, RotateInv, WriteInv, FinishInv DEF Pass
  <1>2. CASE Environment
    BY Zenon, <1>2, PassDiesInv, EditInv, ReplaceSecretInv, FetchFailsInv, RefusedInv DEF Environment
  <1>3. CASE Sync
    <2>1. budget.up \subseteq Replicas
      BY Zenon DEF CredentialInv, TypeInv, TypeOK, Plan
    <2> QED BY Zenon, <1>3, <2>1, SyncInv DEF Sync
  <1>4. CASE \E h \in HarborAccesses : Begin(h)
    BY Zenon, <1>4, BeginInv
  <1>5. CASE \E n \in Nodes : Plugin(n) \/ ServeHTTP(n)
    BY Zenon, <1>5, FetchInv, ReceiveInv, RefusedInv, FindHarborAccessInv, ReadRobotSecretInv DEF Plugin, ServeHTTP
  <1>6. CASE Tick
    BY Zenon, <1>6, TickInv
  <1>7. CASE UNCHANGED vars
    <2>1. UNCHANGED <<access, robots, secret, view, pass, pull, cache, ledger, budget, now>>
      BY <1>7, Zenon DEF vars, credentialVars, limiterVars
    <2>2. now \in Nat
      BY Zenon DEF CredentialInv, TypeInv, TypeOK
    <2> QED BY <2>1, <2>2, ControlKept, KeepsAll, DataKept
  <1> QED BY ZenonT(30), <1>1, <1>2, <1>3, <1>4, <1>5, <1>6, <1>7 DEF Next

\* However many objects, replicas and nodes there are: no password is rotated
\* by schedule while a kubelet that got it under a promise may still use it
\* (cacheDuration, rotationReason, writeRobotSecret).
THEOREM PromiseHolds == Spec => []PromiseKept
  <1>1. Init => CredentialInv
    BY Zenon, InitInv
  <1>2. CredentialInv /\ [Next]_vars => CredentialInv'
    BY Zenon, StepInv
  <1>3. CredentialInv => PromiseKept
    BY ZenonT(30), InvGivesPromiseKept
  <1> QED BY <1>1, <1>2, <1>3, PTL DEF Spec

\* However many objects share the cluster: the handler never answers a pod with
\* a password that Harbor issued to another service account (ServeHTTP).
THEOREM AnswersAreRight == Spec => []RightRobot
  <1>1. Init => CredentialInv
    BY InitInv
  <1>2. CredentialInv /\ [Next]_vars => CredentialInv'
    BY StepInv
  <1>3. CredentialInv => RightRobot
    BY Zenon, InvGivesRightRobot
  <1> QED BY <1>1, <1>2, <1>3, PTL DEF Spec

(***************************************************************************)
(* The source limiter implements token buckets that are kept for good, for *)
(* every capacity, cost and set of sources, as long as an idle bucket is   *)
(* full before it may be dropped.                                          *)
(***************************************************************************)
\* A bucket was last filled no later than it was last used, and neither in
\* the future.
LimiterInv ==
    /\ now \in Nat
    /\ lastPrune \in Int
    /\ verdict \in [Sources -> BOOLEAN]
    /\ sources \in [Sources -> Bucket \cup {NoBucket}]
    /\ \A s \in Sources : sources[s] # NoBucket =>
          sources[s].last <= sources[s].seen /\ sources[s].seen <= now

\* A bucket that may be dropped is full.
LEMMA IdleIsFull ==
    ASSUME NEW b \in Bucket, NEW t \in Nat, b.last <= b.seen, t - b.seen > SourceIdleTTL
    PROVE  Advanced(b, t) = Capacity
  BY LimiterAssumption DEF Advanced, Bucket

\* Levels stay between empty and full.
LEMMA LevelType ==
    ASSUME NEW b \in Bucket, NEW t \in Nat, b.last <= t
    PROVE  Advanced(b, t) \in 0..Capacity
  BY LimiterAssumption DEF Advanced, Bucket

\* Pruning leaves every source's level as it is.
LEMMA PruneKeepsLevel ==
    ASSUME LimiterInv, NEW s \in Sources
    PROVE  /\ prune(now)[s] = sources[s] \/ (prune(now)[s] = NoBucket /\ LevelOf(s) = Capacity)
           /\ prune(now) \in [Sources -> Bucket \cup {NoBucket}]
  <1>1. CASE ~(now - lastPrune > PruneInterval)
    BY <1>1 DEF prune, LimiterInv
  <1>2. CASE now - lastPrune > PruneInterval
    <2> DEFINE dropped(q) == now - sources[q].seen > SourceIdleTTL
    <2>1. prune(now) = [q \in Sources |-> IF dropped(q) THEN NoBucket ELSE sources[q]]
      BY <1>2 DEF prune
    <2>2. dropped(s) => LevelOf(s) = Capacity
      <3>1. CASE sources[s] = NoBucket
        BY <3>1 DEF LevelOf
      <3>2. CASE sources[s] # NoBucket
        <4>1. sources[s] \in Bucket /\ sources[s].last <= sources[s].seen /\ now \in Nat
          BY <3>2 DEF LimiterInv
        <4>2. dropped(s) => Advanced(sources[s], now) = Capacity
          BY <4>1, IdleIsFull
        <4> QED BY <3>2, <4>2 DEF LevelOf
      <3> QED BY <3>1, <3>2
    <2>3. prune(now)[s] = IF dropped(s) THEN NoBucket ELSE sources[s]
      BY <2>1
    <2>4. prune(now) \in [Sources -> Bucket \cup {NoBucket}]
      BY <2>1 DEF LimiterInv
    <2> HIDE DEF dropped
    <2> QED BY <2>2, <2>3, <2>4
  <1> QED BY <1>1, <1>2

\* The buckets after Allow, one source at a time: another source's is kept
\* or dropped, its own is used.
LEMMA AllowStep ==
    ASSUME LimiterInv, NEW s \in Sources, NEW ok \in BOOLEAN, Allow(s, ok), now' = now
    PROVE  /\ sources' \in [Sources -> Bucket \cup {NoBucket}]
           /\ \A q \in Sources \ {s} : sources'[q] = prune(now)[q]
           /\ sources'[s] \in Bucket /\ sources'[s].last <= now /\ sources'[s].seen = now
           /\ ok = (LevelOf(s) >= Cost)
           /\ LevelOf(s)' = IF ok THEN LevelOf(s) - Cost ELSE LevelOf(s)
  <1> DEFINE kept == prune(now)
             b == IF kept[s] = NoBucket THEN NewBucket(now) ELSE kept[s]
             used == IF ok THEN [tokens |-> Advanced(b, now) - Cost, last |-> now, seen |-> now]
                     ELSE [tokens |-> b.tokens, last |-> b.last, seen |-> now]
  <1>1. /\ ok = (Advanced(b, now) >= Cost)
        /\ sources' = [kept EXCEPT ![s] = used]
    BY DEF Allow
  <1>2. kept \in [Sources -> Bucket \cup {NoBucket}]
    BY Zenon, PruneKeepsLevel
  <1>3. b \in Bucket /\ b.last <= now /\ Advanced(b, now) = LevelOf(s)
    <2>1. CASE kept[s] = NoBucket
      <3>1. LevelOf(s) = Capacity
        BY <2>1, PruneKeepsLevel DEF LevelOf
      <3>2. b = NewBucket(now) /\ now \in Nat
        BY <2>1 DEF LimiterInv
      <3>3. NewBucket(now) \in Bucket /\ NewBucket(now).last = now
        BY <3>2, LimiterAssumption DEF NewBucket, Bucket
      <3>4. Advanced(NewBucket(now), now) = Capacity
        BY <3>2, LimiterAssumption DEF NewBucket, Advanced
      <3> QED BY <3>1, <3>2, <3>3, <3>4
    <2>2. CASE kept[s] # NoBucket
      <3>1. kept[s] = sources[s] /\ b = sources[s] /\ sources[s] # NoBucket
        BY <2>2, PruneKeepsLevel
      <3>2. sources[s] \in Bucket /\ sources[s].last <= sources[s].seen /\ sources[s].seen <= now
        BY <3>1 DEF LimiterInv
      <3>3. sources[s].last <= now
        BY <3>2 DEF LimiterInv, Bucket
      <3> QED BY <3>1, <3>2, <3>3 DEF LevelOf
    <2> QED BY <2>1, <2>2
  <1>4. Advanced(b, now) \in 0..Capacity /\ now \in Nat
    BY Zenon, <1>3, LevelType DEF LimiterInv
  <1> HIDE DEF b
  <1>5. used \in Bucket /\ used.last <= now /\ used.seen = now
    <2>1. CASE ok
      <3>1. Advanced(b, now) >= Cost
        BY <1>1, <2>1, Zenon
      <3>2. used = [tokens |-> Advanced(b, now) - Cost, last |-> now, seen |-> now]
        BY <2>1
      <3> HIDE DEF used
      <3> QED BY <1>4, <3>1, <3>2, LimiterAssumption DEF Bucket
    <2>2. CASE ~ok
      BY <1>3, <1>4, <2>2 DEF Bucket
    <2> QED BY <2>1, <2>2
  <1>6. Advanced(used, now) = IF ok THEN Advanced(b, now) - Cost ELSE Advanced(b, now)
    BY <1>1, <1>3, <1>4, LimiterAssumption DEF Bucket, Advanced
  <1> HIDE DEF used, kept
  <1>7. sources'[s] = used /\ \A q \in Sources \ {s} : sources'[q] = kept[q]
    BY <1>1, <1>2
  <1>8. used # NoBucket
    BY <1>4, <1>5 DEF NoBucket, Bucket
  <1>9. LevelOf(s)' = Advanced(used, now)
    BY <1>7, <1>8 DEF LevelOf, Advanced
  <1>10. sources' \in [Sources -> Bucket \cup {NoBucket}]
    BY <1>1, <1>2, <1>5
  <1> QED BY Zenon, <1>1, <1>3, <1>5, <1>6, <1>7, <1>9, <1>10 DEF kept

LEMMA LimiterInvStep == LimiterInv /\ [LimiterNext]_limiterVars => LimiterInv'
  <1> SUFFICES ASSUME LimiterInv, [LimiterNext]_limiterVars PROVE LimiterInv'
    OBVIOUS
  <1>1. CASE UNCHANGED limiterVars
    BY <1>1 DEF LimiterInv, limiterVars
  <1>2. CASE LimiterTick
    BY <1>2 DEF LimiterInv, LimiterTick, Bucket
  <1>3. CASE \E s \in Sources, ok \in BOOLEAN : Allow(s, ok) /\ UNCHANGED now
    <2>1. PICK s \in Sources, ok \in BOOLEAN : Allow(s, ok) /\ now' = now
      BY <1>3
    <2>2. /\ sources' \in [Sources -> Bucket \cup {NoBucket}]
          /\ \A q \in Sources \ {s} : sources'[q] = prune(now)[q]
          /\ sources'[s] \in Bucket /\ sources'[s].last <= now /\ sources'[s].seen = now
      BY <2>1, AllowStep
    <2>3. \A q \in Sources \ {s} : sources'[q] = sources[q] \/ sources'[q] = NoBucket
      BY <2>2, PruneKeepsLevel
    <2>4. \A q \in Sources : sources'[q] # NoBucket =>
             sources'[q].last <= sources'[q].seen /\ sources'[q].seen <= now'
      <3> SUFFICES ASSUME NEW q \in Sources, sources'[q] # NoBucket
                   PROVE  sources'[q].last <= sources'[q].seen /\ sources'[q].seen <= now'
        OBVIOUS
      <3>1. now \in Nat /\ now <= now
        BY DEF LimiterInv
      <3>2. CASE q = s
        BY Zenon, <2>1, <2>2, <3>1, <3>2
      <3>3. CASE q # s
        BY Zenon, <2>1, <2>3, <3>3 DEF LimiterInv
      <3> QED BY Zenon, <3>2, <3>3
    <2>5. lastPrune' \in Int /\ verdict' \in [Sources -> BOOLEAN]
      BY <2>1 DEF Allow, LimiterInv
    <2> QED BY <2>1, <2>2, <2>4, <2>5 DEF LimiterInv
  <1> QED BY <1>1, <1>2, <1>3 DEF LimiterNext

\* No bucket is ahead of the clock: Allow and the passing of time keep it so.
THEOREM LimiterInvariant == LimiterSpec => []LimiterInv
  <1>1. LimiterInit => LimiterInv
    BY LimiterAssumption DEF LimiterInit, LimiterInv
  <1> QED BY <1>1, LimiterInvStep, PTL DEF LimiterSpec

\* One step of the clock fills every bucket by a unit, unless it is full.
LEMMA TickFills ==
    ASSUME LimiterInv, LimiterTick, NEW s \in Sources
    PROVE  LevelOf(s)' = IF LevelOf(s) < Capacity THEN LevelOf(s) + 1 ELSE Capacity
  <1>1. now \in Nat /\ now' = now + 1 /\ sources' = sources
    BY DEF LimiterTick, LimiterInv
  <1>2. CASE sources[s] = NoBucket
    BY <1>1, <1>2, LimiterAssumption DEF LevelOf
  <1>3. CASE sources[s] # NoBucket
    <2>1. sources[s] \in Bucket
      BY <1>3 DEF LimiterInv
    <2>2. LevelOf(s) = Advanced(sources[s], now) /\ LevelOf(s)' = Advanced(sources[s], now + 1)
      BY <1>1, <1>3 DEF LevelOf, Advanced
    <2> QED BY <1>1, <2>1, <2>2, LimiterAssumption DEF Advanced, Bucket
  <1> QED BY <1>2, <1>3

LEMMA BucketsStep ==
    LimiterInv /\ [LimiterNext]_limiterVars => [Buckets!BucketsNext]_(Buckets!bucketVars)
  <1> SUFFICES ASSUME LimiterInv, [LimiterNext]_limiterVars
               PROVE  [Buckets!BucketsNext]_(Buckets!bucketVars)
    OBVIOUS
  <1>1. CASE UNCHANGED limiterVars
    BY <1>1 DEF limiterVars, Buckets!bucketVars, LevelOf, Advanced
  <1>2. CASE LimiterTick
    <2>1. Buckets!Fill
      BY <1>2, TickFills DEF Buckets!Fill, LimiterTick
    <2> QED BY <2>1 DEF Buckets!BucketsNext
  <1>3. CASE \E s \in Sources, ok \in BOOLEAN : Allow(s, ok) /\ UNCHANGED now
    <2>1. PICK s \in Sources, ok \in BOOLEAN : Allow(s, ok) /\ now' = now
      BY <1>3
    <2>2. /\ \A q \in Sources \ {s} : sources'[q] = prune(now)[q]
          /\ ok = (LevelOf(s) >= Cost)
          /\ LevelOf(s)' = IF ok THEN LevelOf(s) - Cost ELSE LevelOf(s)
      BY <2>1, AllowStep
    <2>3. \A q \in Sources \ {s} : LevelOf(q)' = LevelOf(q)
      <3> TAKE q \in Sources \ {s}
      <3>1. sources'[q] = sources[q] \/ (sources'[q] = NoBucket /\ LevelOf(q) = Capacity)
        BY <2>2, PruneKeepsLevel
      <3> QED BY <2>1, <3>1 DEF LevelOf, Advanced
    <2>4. verdict' = [verdict EXCEPT ![s] = ok]
      BY <2>1 DEF Allow
    <2>5. LevelOf(s) \in 0..Capacity
      <3>1. CASE sources[s] = NoBucket
        BY <3>1, LimiterAssumption DEF LevelOf
      <3>2. CASE sources[s] # NoBucket
        <4>1. sources[s] \in Bucket /\ sources[s].last <= now /\ now \in Nat
          BY <3>2 DEF LimiterInv, Bucket
        <4> QED BY <3>2, <4>1, LevelType DEF LevelOf
      <3> QED BY <3>1, <3>2
    <2>6. CASE ok
      <3>1. [q \in Sources |-> LevelOf(q)']
              = [[q \in Sources |-> LevelOf(q)] EXCEPT ![s] = LevelOf(s) - Cost]
        BY Zenon, <2>2, <2>3, <2>6
      <3>2. Buckets!Admit(s)
        BY Zenon, <2>2, <2>4, <2>6, <3>1 DEF Buckets!Admit
      <3> QED BY <3>2 DEF Buckets!BucketsNext
    <2>7. CASE ~ok
      <3>1. [q \in Sources |-> LevelOf(q)'] = [q \in Sources |-> LevelOf(q)]
        BY <2>2, <2>3, <2>7
      <3>2. LevelOf(s) < Cost
        <4>1. ~(LevelOf(s) >= Cost)
          BY <2>2, <2>7, Zenon
        <4> QED BY <2>5, <4>1, LimiterAssumption
      <3>3. Buckets!Refuse(s)
        BY Zenon, <2>4, <2>7, <3>1, <3>2 DEF Buckets!Refuse
      <3> QED BY <3>3 DEF Buckets!BucketsNext
    <2> QED BY Zenon, <2>6, <2>7
  <1> QED BY <1>1, <1>2, <1>3 DEF LimiterNext

\* The limiter implements token buckets that are never dropped: no source is
\* admitted more often, or refused more often, because Allow drops idle
\* buckets and fills them late.
THEOREM LimiterImplements == LimiterSpec => LimiterKeepsRate
  <1>1. LimiterInit => Buckets!BucketsInit
    BY DEF LimiterInit, Buckets!BucketsInit, LevelOf
  <1>2. LimiterInv /\ [LimiterNext]_limiterVars => [Buckets!BucketsNext]_(Buckets!bucketVars)
    BY BucketsStep
  <1> QED BY <1>1, <1>2, LimiterInvariant, PTL DEF LimiterSpec, LimiterKeepsRate, Buckets!BucketsSpec
=============================================================================
