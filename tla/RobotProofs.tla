---------------------------- MODULE RobotProofs ----------------------------
(***************************************************************************)
(* What a pass and a sweep know of the robots and the Secrets they work    *)
(* on, however these change behind their back.  RobotInv ties the robot a  *)
(* pass looked up, the Secret it read and the robots a sweep listed to     *)
(* what Harbor and the API server hold now; it is inductive without any    *)
(* condition on the instance.  From it follow that a stored password that  *)
(* Harbor no longer accepts is due, that robots keep their first owner,    *)
(* that foreign robots and Secrets are left alone, and that a robot        *)
(* resumes with a new password only.                                       *)
(***************************************************************************)
EXTENDS RobotLifecycleProofs

\* The pass has read the Secret, and has not replaced the password yet.
ReadPCs == {"addFinalizer", "lookup", "create", "relookup", "dropSecret",
            "resumeRotate", "converge", "rotate"}
\* It has a password to store, or nothing to replace.
StorePCs == {"resumeEnable", "putSecret", "reread"}
\* It holds a robot: one that it may adopt, or one that it owns.
AdoptPCs == {"dropSecret", "resumeRotate", "resumeEnable", "converge"}
HeldPCs == {"rotate", "putSecret", "reread"}

Ours(s) == s.exists /\ s.stamp = "this"

\* Only the bridge writes credentials, it stamps them, and the robot they
\* are for has an ID below n.
Stamped(s, n) ==
    s.exists => IF s.stamp = "this" THEN s.rid # 0 /\ s.rid < n ELSE s.user = NoName

\* Secret x was read, s is there now: it is not from the past, and if it is
\* the version or the object that was read, it is not a foreign one.
ReadStill(x, s) ==
    /\ x.ver <= s.ver /\ x.uid <= s.uid
    /\ x.exists => /\ x.stamp # "none"
                   /\ s.exists /\ s.ver = x.ver => s.uid = x.uid /\ s.stamp # "none"
                   /\ s.exists /\ s.uid = x.uid => s.stamp # "none"

SameCredentials(x, s) ==
    Ours(s) => x.exists /\ s.user = x.user /\ s.rid = x.rid /\ (x.due => s.due)

\* A Secret listed with this UID may be deleted when s is there now.
Deletable(uid, s) == uid <= s.uid /\ (s.exists /\ s.uid = uid => s.stamp # "none")

SecretsStamped ==
    \A h \in HarborAccesses :
        /\ Stamped(secret[h], nextID)
        /\ Ours(secret[h]) => \A r \in robots : r.id = secret[h].rid => r.owner = h

PassSecret ==
    /\ pc \in ReadPCs =>
          /\ ReadStill(pass.sec, secret[pass.h]) /\ Stamped(pass.sec, nextID)
          /\ SameCredentials(pass.sec, secret[pass.h]) /\ pass.pw = 0
    /\ pc \in {"resumeEnable", "putSecret"} => ReadStill(pass.sec, secret[pass.h])
    /\ pc = "getSecret" => pass.pw = 0
    /\ pc = "dropSecret" => pass.sec.exists
    /\ pc = "resumeRotate" => ~pass.sec.exists
    /\ pc = "rotate" => rotationReason(pass.ha, pass.sec, pass.rob)
    /\ pc \in {"resumeEnable", "reread"} => pass.pw # 0
    /\ pc = "putSecret" /\ pass.pw = 0 => Ours(pass.sec) /\ pass.sec.rid = pass.rob.id

\* What a pass p at at knows of robot r, the one it holds.
Known(at, p, r) ==
    /\ r.name = p.rob.name /\ r.owner \in {p.h, Unclaimed}
    /\ at \in HeldPCs => r.owner = p.h
    /\ at \in StorePCs /\ p.pw # 0 => r.pw = p.pw
    /\ at = "resumeEnable" => ~r.oldPw
    /\ at = "converge" /\ "disable" \notin Admin /\ r.disabled => p.rob.disabled

PassRobot ==
    /\ pc \in AdoptPCs \cup HeldPCs =>
          /\ pass.rob.id # 0 /\ pass.rob.id < nextID /\ pass.rob.name # NoName
          /\ \A r \in robots : r.id = pass.rob.id => Known(pc, pass, r)
    /\ pc \in {"disable", "revoke"} =>
          /\ pass.rob.id < nextID
          /\ \A r \in robots : r.id = pass.rob.id => r.owner = pass.h
    /\ pc \in {"delStale", "delRobots"} =>
          /\ \A i \in pass.todo : i < nextID
          /\ \A r \in robots : r.id \in pass.todo => r.owner = pass.h

SweepRobots ==
    /\ spc \in {"owners", "robots", "delRobot"} => \A k \in sweep.robots :
          /\ k.id < nextID
          /\ \A r \in robots : r.id = k.id => r.owner = k.owner
    /\ spc = "delRobot" =>
          /\ sweep.id < nextID
          /\ \A r \in robots : r.id = sweep.id => r.owner \in HarborAccesses

SweepSecrets ==
    \A k \in sweep.secrets \cup {sweep.sec} :
        k.h \in HarborAccesses => Deletable(k.uid, secret[k.h])

RobotInv ==
    /\ TypeInv /\ (\A r \in robots : r.id # 0) /\ SecretsStamped /\ DeadPasswordIsDue
    /\ PassSecret /\ PassRobot /\ SweepRobots /\ SweepSecrets

(***************************************************************************)
(* What steps do to robots and Secrets.                                    *)
(***************************************************************************)
IDsGrow == \A i \in Nat : i < nextID => i < nextID'

\* Robots keep their IDs, names and owners; new ones have new IDs.
Follows(r, s) ==
    r.id = s.id /\ r.name = s.name /\ (s.owner # Unclaimed => r.owner = s.owner)

RobotsFollow ==
    IDsGrow /\ \A r \in robots' : ~(r.id < nextID) \/ \E s \in robots : Follows(r, s)

PasswordsKept ==
    \A r \in robots' : \/ ~(r.id < nextID)
                       \/ \E s \in robots : r.id = s.id /\ r.name = s.name /\ r.pw = s.pw

\* What a step that is not the pass's own may do to a robot.
Kept(r, s) ==
    /\ r.id = s.id /\ r.name = s.name /\ r.owner = s.owner /\ r.pw = s.pw
    /\ r.oldPw => s.oldPw
    /\ r.disabled /\ ~s.disabled => "disable" \in Admin

RobotsKept ==
    IDsGrow /\ \A r \in robots' : ~(r.id < nextID) \/ \E s \in robots : Kept(r, s)

\* Secret s is now t: gone, the same with its rotation due, or a foreign one.
KeptSecret(t, s) ==
    /\ s.ver <= t.ver /\ s.uid <= t.uid
    /\ \/ ~t.exists
       \/ /\ t.exists = s.exists /\ t.ver = s.ver /\ t.uid = s.uid /\ t.stamp = s.stamp
          /\ t.user = s.user /\ t.rid = s.rid /\ t.pw = s.pw /\ (s.due => t.due)
       \/ t.stamp # "this" /\ t.user = NoName /\ s.ver < t.ver /\ s.uid < t.uid

SecretsKept == \A h \in HarborAccesses : KeptSecret(secret'[h], secret[h])

\* A robot changes or goes only by a pass for its owner, when it is adopted,
\* by the janitor if it has an owner, or by an administrator.
Touched ==
    \A r \in robots :
        \/ r \in robots' \/ ByAdministrator
        \/ r.owner = Unclaimed /\ Same(r) # {}
        \/ r.owner = pass.h /\ pass.h \in HarborAccesses
        \/ r.owner \in HarborAccesses /\ spc = "delRobot"

Enabled ==
    \A r \in robots : \A s \in Same(r) :
        r.disabled /\ ~s.disabled /\ s.oldPw =>
            ByAdministrator \/ (pc = "converge" /\ r.id = pass.rob.id /\ ~pass.rob.disabled)

SecretsSpared ==
    \A h \in HarborAccesses :
        secret[h].exists /\ secret[h].stamp = "none" /\ ~secret[h].due =>
            \/ ByAdministrator
            \/ secret'[h] = secret[h] \/ secret'[h] = [secret[h] EXCEPT !.due = TRUE]

Safe == RobotsFollow /\ Touched /\ Enabled /\ SecretsSpared

(***************************************************************************)
(* Facts about values.                                                     *)
(***************************************************************************)
LEMMA KeptSecretFacts ==
    ASSUME NEW s \in Secret, NEW t \in Secret, KeptSecret(t, s)
    PROVE  /\ \A x \in Secret : ReadStill(x, s) => ReadStill(x, t)
           /\ \A x \in Secret : SameCredentials(x, s) => SameCredentials(x, t)
           /\ \A n : Stamped(s, n) => Stamped(t, n)
           /\ \A u \in Nat : Deletable(u, s) => Deletable(u, t)
           /\ Ours(t) => /\ Ours(s) /\ t.rid = s.rid /\ t.user = s.user /\ t.pw = s.pw
                         /\ s.due => t.due
  <1>1. \A x \in Secret : x.ver \in Nat /\ x.uid \in Nat
    BY Zenon DEF Secret
  <1>2. \A x \in Secret : ReadStill(x, s) => ReadStill(x, t)
    BY <1>1 DEF KeptSecret, ReadStill
  <1>3. \A u \in Nat : Deletable(u, s) => Deletable(u, t)
    BY <1>1 DEF KeptSecret, Deletable
  <1>4. /\ \A x \in Secret : SameCredentials(x, s) => SameCredentials(x, t)
        /\ \A n : Stamped(s, n) => Stamped(t, n)
        /\ Ours(t) => /\ Ours(s) /\ t.rid = s.rid /\ t.user = s.user /\ t.pw = s.pw
                      /\ s.due => t.due
    BY Zenon DEF KeptSecret, SameCredentials, Stamped, Ours
  <1> QED BY Zenon, <1>2, <1>3, <1>4

LEMMA KeptKnown ==
    ASSUME NEW at, NEW p, NEW r, NEW s, Kept(r, s), Known(at, p, s)
    PROVE  Known(at, p, r)
  BY Zenon DEF Kept, Known

LEMMA StampedGrow ==
    ASSUME NEW s \in Secret, Stamped(s, nextID), IDsGrow
    PROVE  Stamped(s, nextID')
  BY Zenon DEF Stamped, IDsGrow, Secret

(***************************************************************************)
(* Facts about steps.                                                      *)
(***************************************************************************)
LEMMA KeptFollow == RobotsKept => RobotsFollow /\ PasswordsKept
  BY Zenon DEF RobotsKept, RobotsFollow, PasswordsKept, Kept, Follows

LEMMA FewerRobots ==
    ASSUME HarborOK, robots' \subseteq robots, UNCHANGED nextID
    PROVE  RobotsKept /\ Enabled
  <1>1. RobotsKept
    BY Zenon DEF RobotsKept, IDsGrow, Kept
  <1>2. Enabled
    BY Zenon DEF Enabled, Same, HarborOK
  <1> QED BY Zenon, <1>1, <1>2

LEMMA SameRobots ==
    ASSUME HarborOK, UNCHANGED harborVars
    PROVE  RobotsKept /\ Enabled /\ Touched
  <1>1. robots' \subseteq robots /\ UNCHANGED nextID
    BY Zenon DEF harborVars
  <1> QED BY Zenon, <1>1, FewerRobots DEF Touched, harborVars

LEMMA SameSecrets ==
    ASSUME APIOK, UNCHANGED secret
    PROVE  SecretsKept /\ SecretsSpared
  <1>1. \A h \in HarborAccesses : secret[h].ver \in Nat /\ secret[h].uid \in Nat
    BY Zenon DEF APIOK, Secret
  <1> QED BY <1>1 DEF SecretsKept, KeptSecret, SecretsSpared

\* Robots keep IDs that are not zero, and Secrets of ours the robot's owner.
LEMMA StampsKept ==
    ASSUME RobotInv, TypeInv', RobotsFollow, SecretsKept
    PROVE  SecretsStamped' /\ \A r \in robots' : r.id # 0
  <1>1. \A r \in robots' : r.id # 0
    <2>1. \A r \in robots' : r.id \in Nat /\ nextID \in Nat \ {0}
      BY Zenon, Split DEF RobotInv, HarborOK, TypeInv, TypeOK, Robot
    <2>2. \A r \in robots' : ~(r.id < nextID) => r.id # 0
      BY <2>1
    <2> QED BY Zenon, <2>2 DEF RobotsFollow, Follows, RobotInv
  <1>2. SecretsStamped'
    <2> SUFFICES ASSUME NEW h \in HarborAccesses
                 PROVE  /\ Stamped(secret'[h], nextID')
                        /\ Ours(secret'[h]) =>
                             \A r \in robots' : r.id = secret'[h].rid => r.owner = h
      BY Zenon DEF SecretsStamped
    <2>1. secret[h] \in Secret /\ secret'[h] \in Secret
      BY Zenon, Split DEF RobotInv, APIOK, TypeInv, TypeOK
    <2>2. KeptSecret(secret'[h], secret[h]) /\ Stamped(secret[h], nextID)
      BY Zenon DEF SecretsKept, RobotInv, SecretsStamped
    <2>3. Stamped(secret'[h], nextID')
      BY Zenon, <2>1, <2>2, KeptSecretFacts, StampedGrow DEF RobotsFollow
    <2>4. ASSUME Ours(secret'[h]), NEW r \in robots', r.id = secret'[h].rid
          PROVE  r.owner = h
      <3>1. Ours(secret[h]) /\ r.id = secret[h].rid
        BY Zenon, <2>1, <2>2, <2>4, KeptSecretFacts
      <3>2. r.id < nextID
        BY Zenon, <2>2, <3>1 DEF Stamped, Ours
      <3>3. PICK s \in robots : Follows(r, s)
        BY Zenon, <3>2 DEF RobotsFollow
      <3>4. s.owner = h
        BY Zenon, <3>1, <3>3 DEF RobotInv, SecretsStamped, Follows
      <3> QED BY Zenon, <3>3, <3>4, BridgeAssumption DEF Follows
    <2> QED BY Zenon, <2>3, <2>4
  <1> QED BY Zenon, <1>1, <1>2

LEMMA PasswordsDue ==
    ASSUME RobotInv, TypeInv', PasswordsKept, SecretsKept
    PROVE  DeadPasswordIsDue'
  <1> SUFFICES ASSUME NEW h \in HarborAccesses, NEW r \in robots',
                      Ours(secret'[h]), secret'[h].rid = r.id, secret'[h].user = r.name,
                      secret'[h].pw # r.pw
               PROVE  secret'[h].due
    BY Zenon DEF DeadPasswordIsDue, Ours
  <1>1. secret[h] \in Secret /\ secret'[h] \in Secret /\ KeptSecret(secret'[h], secret[h])
    BY Zenon, Split DEF RobotInv, APIOK, TypeInv, TypeOK, SecretsKept
  <1>2. /\ Ours(secret[h]) /\ secret[h].rid = r.id /\ secret[h].user = r.name
        /\ secret[h].pw # r.pw /\ (secret[h].due => secret'[h].due)
    BY Zenon, <1>1, KeptSecretFacts
  <1>3. r.id < nextID
    BY Zenon, <1>2 DEF RobotInv, SecretsStamped, Stamped, Ours
  <1>4. PICK s \in robots : r.id = s.id /\ r.name = s.name /\ r.pw = s.pw
    BY Zenon, <1>3 DEF PasswordsKept
  <1> QED BY Zenon, <1>2, <1>4 DEF RobotInv, DeadPasswordIsDue, Ours

\* What a sweep knows of the robots and the Secrets it listed stays true.
LEMMA ListedKept ==
    ASSUME RobotInv, RobotsFollow
    PROVE  /\ spc \in {"owners", "robots", "delRobot"} => \A k \in sweep.robots :
                 /\ k.id < nextID' /\ k.owner \in HarborAccesses
                 /\ \A r \in robots' : r.id = k.id => r.owner = k.owner
           /\ spc = "delRobot" =>
                 /\ sweep.id < nextID'
                 /\ \A r \in robots' : r.id = sweep.id => r.owner \in HarborAccesses
  <1>1. /\ sweep.id \in Nat
        /\ \A k \in sweep.robots : k.id \in Nat /\ k.owner \in HarborAccesses
    BY Zenon, Split DEF RobotInv, SweepOK, Sweep, Listed
  <1>2. ASSUME spc \in {"owners", "robots", "delRobot"}, NEW k \in sweep.robots
        PROVE  /\ k.id < nextID' /\ k.owner \in HarborAccesses
               /\ \A r \in robots' : r.id = k.id => r.owner = k.owner
    <2>1. k.id < nextID /\ \A r \in robots : r.id = k.id => r.owner = k.owner
      BY Zenon, <1>2 DEF RobotInv, SweepRobots
    <2>2. k.id < nextID'
      BY Zenon, <1>1, <2>1 DEF RobotsFollow, IDsGrow
    <2>3. ASSUME NEW r \in robots', r.id = k.id
          PROVE  r.owner = k.owner
      <3>1. PICK s \in robots : Follows(r, s)
        BY Zenon, <2>1, <2>3 DEF RobotsFollow
      <3>2. s.owner = k.owner
        BY Zenon, <2>1, <2>3, <3>1 DEF Follows
      <3> QED BY Zenon, <1>1, <3>1, <3>2, BridgeAssumption DEF Follows
    <2> QED BY Zenon, <1>1, <2>2, <2>3
  <1>3. ASSUME spc = "delRobot"
        PROVE  /\ sweep.id < nextID'
               /\ \A r \in robots' : r.id = sweep.id => r.owner \in HarborAccesses
    <2>1. /\ sweep.id < nextID
          /\ \A r \in robots : r.id = sweep.id => r.owner \in HarborAccesses
      BY Zenon, <1>3 DEF RobotInv, SweepRobots
    <2> QED BY Zenon, <1>1, <2>1, BridgeAssumption DEF RobotsFollow, IDsGrow, Follows
  <1> QED BY Zenon, <1>2, <1>3

LEMMA OrphansKept ==
    ASSUME RobotInv, TypeInv', SecretsKept
    PROVE  \A k \in sweep.secrets \cup {sweep.sec} :
              k.h \in HarborAccesses => Deletable(k.uid, secret'[k.h])
  <1> SUFFICES ASSUME NEW k \in sweep.secrets \cup {sweep.sec}, k.h \in HarborAccesses
               PROVE  Deletable(k.uid, secret'[k.h])
    BY Zenon
  <1>1. k.uid \in Nat
    BY Zenon, Split DEF RobotInv, SweepOK, Sweep, SecretKey
  <1>2. secret[k.h] \in Secret /\ secret'[k.h] \in Secret
    BY Zenon, Split DEF RobotInv, APIOK, TypeInv, TypeOK
  <1>3. Deletable(k.uid, secret[k.h]) /\ KeptSecret(secret'[k.h], secret[k.h])
    BY Zenon DEF RobotInv, SweepSecrets, SecretsKept
  <1> QED BY Zenon, <1>1, <1>2, <1>3, KeptSecretFacts

LEMMA SweepRobotsKept ==
    ASSUME RobotInv, RobotsFollow, UNCHANGED sweepVars
    PROVE  SweepRobots'
  BY Zenon, ListedKept DEF SweepRobots, sweepVars

LEMMA SweepSecretsKept ==
    ASSUME RobotInv, TypeInv', SecretsKept, UNCHANGED sweepVars
    PROVE  SweepSecrets'
  BY Zenon, OrphansKept DEF SweepSecrets, sweepVars

\* What a pass knows stays true when others change robots and Secrets.
LEMMA PassKept ==
    ASSUME RobotInv, TypeInv', RobotsKept, SecretsKept, UNCHANGED passVars
    PROVE  PassSecret' /\ PassRobot'
  <1>1. pass \in Pass /\ pass.sec \in Secret /\ pass.todo \subseteq Nat /\ pass.rob.id \in Nat
    BY Zenon, Split, Defaults DEF RobotInv, PassOK, Pass, Robot
  <1>2. PassSecret'
    <2>1. CASE pc = "idle"
      BY Zenon, <2>1 DEF PassSecret, passVars, ReadPCs
    <2>2. CASE pc # "idle"
      <3>1. pass.h \in HarborAccesses
        BY Zenon, <2>2, Split DEF RobotInv, PassOK, PassNamed
      <3>2. /\ secret[pass.h] \in Secret /\ secret'[pass.h] \in Secret
            /\ KeptSecret(secret'[pass.h], secret[pass.h])
        BY Zenon, <3>1, Split DEF RobotInv, APIOK, TypeInv, TypeOK, SecretsKept
      <3>3. ReadStill(pass.sec, secret[pass.h]) => ReadStill(pass.sec, secret'[pass.h])
        BY Zenon, <1>1, <3>2, KeptSecretFacts
      <3>4. SameCredentials(pass.sec, secret[pass.h])
              => SameCredentials(pass.sec, secret'[pass.h])
        BY ZenonT(30), <1>1, <3>2, KeptSecretFacts
      <3>5. Stamped(pass.sec, nextID) => Stamped(pass.sec, nextID')
        BY Zenon, <1>1, StampedGrow DEF RobotsKept
      <3> QED BY Zenon, <3>3, <3>4, <3>5 DEF RobotInv, PassSecret, passVars
    <2> QED BY Zenon, <2>1, <2>2
  <1>3. ASSUME pc \in AdoptPCs \cup HeldPCs
        PROVE  /\ pass.rob.id # 0 /\ pass.rob.id < nextID' /\ pass.rob.name # NoName
               /\ \A r \in robots' : r.id = pass.rob.id => Known(pc, pass, r)
    <2>1. /\ pass.rob.id # 0 /\ pass.rob.id < nextID /\ pass.rob.name # NoName
          /\ \A r \in robots : r.id = pass.rob.id => Known(pc, pass, r)
      BY Zenon, <1>3 DEF RobotInv, PassRobot
    <2>2. ASSUME NEW r \in robots', r.id = pass.rob.id
          PROVE  Known(pc, pass, r)
      <3>1. PICK s \in robots : Kept(r, s)
        BY Zenon, <2>1, <2>2 DEF RobotsKept
      <3>2. Known(pc, pass, s)
        BY Zenon, <2>1, <2>2, <3>1 DEF Kept
      <3> QED BY Zenon, <3>1, <3>2, KeptKnown
    <2> QED BY Zenon, <1>1, <2>1, <2>2 DEF RobotsKept, IDsGrow
  <1>4. ASSUME pc \in {"disable", "revoke"}
        PROVE  /\ pass.rob.id < nextID'
               /\ \A r \in robots' : r.id = pass.rob.id => r.owner = pass.h
    <2>1. /\ pass.rob.id < nextID
          /\ \A r \in robots : r.id = pass.rob.id => r.owner = pass.h
      BY Zenon, <1>4 DEF RobotInv, PassRobot
    <2>2. pass.rob.id < nextID'
      BY Zenon, <1>1, <2>1 DEF RobotsKept, IDsGrow
    <2>3. ASSUME NEW r \in robots', r.id = pass.rob.id
          PROVE  r.owner = pass.h
      <3>1. PICK s \in robots : Kept(r, s)
        BY Zenon, <2>1, <2>3 DEF RobotsKept
      <3>2. s.id = pass.rob.id /\ r.owner = s.owner
        BY Zenon, <2>3, <3>1 DEF Kept
      <3> QED BY Zenon, <2>1, <3>2
    <2> QED BY Zenon, <2>2, <2>3
  <1>5. ASSUME pc \in {"delStale", "delRobots"}
        PROVE  /\ \A i \in pass.todo : i < nextID'
               /\ \A r \in robots' : r.id \in pass.todo => r.owner = pass.h
    <2>1. /\ \A i \in pass.todo : i < nextID
          /\ \A r \in robots : r.id \in pass.todo => r.owner = pass.h
      BY Zenon, <1>5 DEF RobotInv, PassRobot
    <2>2. \A i \in pass.todo : i \in Nat
      BY Zenon, Split DEF RobotInv, PassOK, Pass
    <2>3. \A i \in pass.todo : i < nextID'
      BY Zenon, <2>1, <2>2 DEF RobotsKept, IDsGrow
    <2>4. ASSUME NEW r \in robots', r.id \in pass.todo
          PROVE  r.owner = pass.h
      <3>1. PICK s \in robots : Kept(r, s)
        BY Zenon, <2>1, <2>4 DEF RobotsKept
      <3>2. s.id \in pass.todo /\ r.owner = s.owner
        BY Zenon, <2>4, <3>1 DEF Kept
      <3> QED BY Zenon, <2>1, <3>2
    <2> QED BY Zenon, <2>3, <2>4
  <1>6. PassRobot'
    BY Zenon, <1>3, <1>4, <1>5 DEF PassRobot, passVars
  <1> QED BY Zenon, <1>2, <1>6

\* Places where a pass knows nothing of its robot and its Secret.
Dull(at) ==
    at \notin ReadPCs \cup StorePCs \cup {"getSecret", "disable", "revoke", "delStale", "delRobots"}

LEMMA DullPass == Dull(pc') => PassSecret' /\ PassRobot'
  BY Zenon DEF Dull, PassSecret, PassRobot, ReadPCs, StorePCs, AdoptPCs, HeldPCs

LEMMA FailedDull == Failed => Dull(pc')
  BY Zenon DEF Failed, Goto, Done, Dull, ReadPCs, StorePCs

LEMMA DoneDull == Done => Dull(pc')
  BY Zenon DEF Done, Dull, ReadPCs, StorePCs

\* Steps of the pass: what is left to show for one that only reads or
\* deletes, and for one that ends where it knows nothing.
LEMMA PassStepKeeps ==
    ASSUME RobotInv, TypeInv', RobotsFollow, PasswordsKept, SecretsKept,
           UNCHANGED sweepVars, PassSecret', PassRobot'
    PROVE  RobotInv'
  BY Zenon, StampsKept, PasswordsDue, SweepRobotsKept, SweepSecretsKept DEF RobotInv

LEMMA ReadKeeps ==
    ASSUME RobotInv, TypeInv', UNCHANGED <<harborVars, secret, sweepVars>>,
           PassSecret', PassRobot'
    PROVE  RobotInv' /\ Safe
  <1>1. RobotsKept /\ Enabled /\ Touched /\ SecretsKept /\ SecretsSpared
    BY Zenon, SameRobots, SameSecrets, Split DEF RobotInv
  <1> QED BY Zenon, <1>1, KeptFollow, PassStepKeeps DEF Safe

LEMMA DullKeeps ==
    ASSUME RobotInv, TypeInv', UNCHANGED <<harborVars, secret, sweepVars>>, Dull(pc')
    PROVE  RobotInv' /\ Safe
  BY Zenon, DullPass, ReadKeeps

\* Steps of others.
LEMMA OutsideKeeps ==
    ASSUME RobotInv, TypeInv', RobotsKept, SecretsKept, UNCHANGED passVars,
           SweepRobots', SweepSecrets'
    PROVE  RobotInv'
  BY Zenon, KeptFollow, StampsKept, PasswordsDue, PassKept DEF RobotInv

\* Deleting the Secret of h.
LEMMA DeleteSecretKept ==
    ASSUME APIOK, NEW h, DeleteSecret(h)
    PROVE  SecretsKept
  <1> SUFFICES ASSUME NEW k \in HarborAccesses
               PROVE  KeptSecret(secret'[k], secret[k])
    BY Zenon DEF SecretsKept
  <1>1. secret[k].ver \in Nat /\ secret[k].uid \in Nat
    BY Zenon DEF APIOK, Secret
  <1>2. CASE k = h
    <2>1. secret'[k] = NoSecret(secret[k].ver + 1, secret[k].uid)
      BY Zenon, <1>2 DEF APIOK, DeleteSecret
    <2>2. /\ secret'[k].ver = secret[k].ver + 1 /\ secret'[k].uid = secret[k].uid
          /\ ~secret'[k].exists
      BY <2>1 DEF NoSecret
    <2> QED BY <1>1, <2>2 DEF KeptSecret
  <1>3. CASE k # h
    <2>1. secret'[k] = secret[k]
      BY Zenon, <1>3 DEF APIOK, DeleteSecret
    <2> QED BY <1>1, <2>1 DEF KeptSecret
  <1> QED BY Zenon, <1>2, <1>3

\* It spares the others, and its own unless that is a foreign one.
LEMMA DeleteSecretSpared ==
    ASSUME APIOK, NEW h, DeleteSecret(h),
           h \in HarborAccesses => secret[h].exists /\ secret[h].stamp # "none"
    PROVE  SecretsSpared
  BY Zenon DEF SecretsSpared, DeleteSecret, APIOK

(***************************************************************************)
(* Steps of the pass.                                                      *)
(***************************************************************************)
LEMMA ReconcileRobot ==
    ASSUME RobotInv, TypeInv', NEW h \in HarborAccesses, Reconcile(h)
    PROVE  RobotInv' /\ Safe
  <1>1. /\ pc' \in {"delList", "getSecret", "refuse"}
        /\ pass' = [NoPass EXCEPT !.h = h, !.ha = cache[leader][h]]
    BY Zenon DEF Reconcile, Goto
  <1>2. NoPass.pw = 0
    BY Zenon DEF NoPass
  <1>3. pass'.pw = 0
    BY Zenon, <1>1, <1>2, NoPassType DEF Pass
  <1>4. PassSecret' /\ PassRobot'
    BY Zenon, <1>1, <1>3 DEF PassSecret, PassRobot, ReadPCs, AdoptPCs, HeldPCs
  <1> QED BY Zenon, <1>4, ReadKeeps DEF Reconcile, apiVars

LEMMA DullSteps ==
    ASSUME RobotInv, TypeInv', \/ markStatus \/ refuseStatus \/ releaseList \/ CallFails
                               \/ releasePatch \/ deletePatch
    PROVE  RobotInv' /\ Safe
  <1>1. Dull(pc')
    BY Zenon, DoneDull, FailedDull
       DEF markStatus, refuseStatus, releaseList, releasePatch, deletePatch, RemoveFinalizer,
           CallFails, Goto, Dull, ReadPCs, StorePCs
  <1>2. UNCHANGED <<harborVars, secret, sweepVars>>
    BY Zenon DEF markStatus, refuseStatus, releaseList, releasePatch, deletePatch,
                 RemoveFinalizer, CallFails, apiVars
  <1> QED BY Zenon, <1>1, <1>2, DullKeeps

\* A Secret that is no conflict is not a foreign one.
LEMMA NoConflict ==
    ASSUME NEW s, NEW n, NEW name, Stamped(s, n), s.exists, ~secretConflict(s, name)
    PROVE  s.stamp # "none"
  BY Zenon DEF Stamped, secretConflict

LEMMA ReadNow ==
    ASSUME NEW s \in Secret, s.exists => s.stamp # "none"
    PROVE  ReadStill(s, s) /\ SameCredentials(s, s)
  <1>1. s.ver \in Nat /\ s.uid \in Nat
    BY Zenon DEF Secret
  <1> QED BY <1>1 DEF ReadStill, SameCredentials, Ours

LEMMA getRobotSecretRobot ==
    ASSUME RobotInv, TypeInv', getRobotSecret
    PROVE  RobotInv' /\ Safe
  <1> DEFINE s == secret[pass.h]
  <1>1. pass \in Pass /\ pass.h \in HarborAccesses /\ pass.pw = 0
    BY Zenon, Split DEF RobotInv, getRobotSecret, PassOK, PassNamed, PassSecret
  <1>2. s \in Secret /\ Stamped(s, nextID)
    BY Zenon, <1>1, Split DEF RobotInv, APIOK, SecretsStamped
  <1>3. /\ pass' = [pass EXCEPT !.sec = s]
        /\ pc' = "status" \/ (pc' \in {"lookup", "addFinalizer"} /\ ~secretConflict(s, pass.ha.sa))
    BY Zenon DEF getRobotSecret, Goto
  <1>4. UNCHANGED <<harborVars, secret, sweepVars>>
    BY Zenon DEF getRobotSecret, apiVars
  <1>5. pass'.h = pass.h /\ pass'.sec = s /\ pass'.pw = 0
    BY Zenon, <1>1, <1>2, <1>3 DEF Pass
  <1>6. CASE pc' = "status"
    BY Zenon, <1>4, <1>6, DullKeeps DEF Dull, ReadPCs, StorePCs
  <1>7. CASE pc' \in {"lookup", "addFinalizer"} /\ ~secretConflict(s, pass.ha.sa)
    <2>1. ReadStill(s, s) /\ SameCredentials(s, s)
      BY Zenon, <1>2, <1>7, NoConflict, ReadNow
    <2>2. PassSecret'
      BY Zenon, <1>2, <1>4, <1>5, <1>7, <2>1 DEF PassSecret, harborVars
    <2>3. PassRobot'
      BY Zenon, <1>7 DEF PassRobot, AdoptPCs, HeldPCs
    <2> QED BY Zenon, <1>4, <2>2, <2>3, ReadKeeps
  <1> QED BY Zenon, <1>3, <1>6, <1>7

\* A step between two places where the pass holds no robot yet.
LEMMA SeekingKeeps ==
    ASSUME RobotInv, TypeInv', UNCHANGED <<harborVars, secret, sweepVars>>,
           pc \in {"addFinalizer", "lookup", "create"},
           pc' \in {"lookup", "create", "relookup"},
           pass'.h = pass.h, pass'.sec = pass.sec, pass'.pw = pass.pw
    PROVE  RobotInv' /\ Safe
  <1>1. PassSecret'
    BY Zenon DEF RobotInv, PassSecret, ReadPCs, harborVars
  <1>2. PassRobot'
    BY Zenon DEF PassRobot, AdoptPCs, HeldPCs
  <1> QED BY Zenon, <1>1, <1>2, ReadKeeps

LEMMA ensureFinalizerRobot ==
    ASSUME RobotInv, TypeInv', ensureFinalizer
    PROVE  RobotInv' /\ Safe
  <1> DEFINE a == Bumped([pass.ha EXCEPT !.fin = TRUE], pass.h)
  <1>1. UNCHANGED <<harborVars, secret, sweepVars>> /\ pc = "addFinalizer"
    BY Zenon DEF ensureFinalizer
  <1>2. CASE Failed
    BY Zenon, <1>1, <1>2, FailedDull, DullKeeps
  <1>3. CASE pc' = "lookup" /\ pass' = [pass EXCEPT !.ha = a]
    <2>1. pass'.h = pass.h /\ pass'.sec = pass.sec /\ pass'.pw = pass.pw
      BY Zenon, <1>3, Split DEF RobotInv, PassOK, Pass
    <2> QED BY Zenon, <1>1, <1>3, <2>1, SeekingKeeps
  <1> QED BY Zenon, <1>2, <1>3 DEF ensureFinalizer, Answered, Goto

\* Where there is no reason to rotate, the Secret has the robot's password.
LEMMA NothingToStore ==
    ASSUME NEW a, NEW s, NEW r, NEW n, Stamped(s, n), r.name # NoName,
           ~rotationReason(a, s, r)
    PROVE  Ours(s) /\ s.rid = r.id
  BY Zenon DEF Stamped, rotationReason, Ours

LEMMA SeenFields ==
    ASSUME NEW r \in Robot
    PROVE  /\ Seen(r).id = r.id /\ Seen(r).name = r.name /\ Seen(r).disabled = r.disabled
  BY Zenon DEF Seen, Robot

LEMMA lookupRobotFound ==
    ASSUME RobotInv, TypeInv', pc \in {"lookup", "relookup"},
           UNCHANGED <<harborVars, secret, sweepVars>>,
           NEW r \in robots, r.name = pass.ha.sa, r.owner \in {pass.h, Unclaimed},
           Goto(AfterLookup(pass, r), [pass EXCEPT !.rob = Seen(r)])
    PROVE  RobotInv' /\ Safe
  <1>1. /\ pass \in Pass /\ Accepted(pass.ha) /\ HarborOK /\ r \in Robot
        /\ r.id \in Nat /\ r.id # 0 /\ r.id < nextID
    BY Zenon, Split DEF RobotInv, PassOK, PassNamed, NormalPCs, HarborOK, Robot
  <1>2. /\ pass'.h = pass.h /\ pass'.ha = pass.ha /\ pass'.sec = pass.sec /\ pass'.pw = pass.pw
        /\ pass'.rob = Seen(r) /\ pc' = AfterLookup(pass, r)
    BY Zenon, <1>1 DEF Goto, Pass
  <1>3. /\ pass'.rob.id = r.id /\ pass'.rob.name = r.name /\ pass'.rob.disabled = r.disabled
        /\ r.name # NoName
    BY Zenon, <1>1, <1>2, SeenFields DEF Accepted
  <1>4. /\ pass.pw = 0 /\ Stamped(pass.sec, nextID) /\ ReadStill(pass.sec, secret[pass.h])
        /\ SameCredentials(pass.sec, secret[pass.h])
    BY Zenon DEF RobotInv, PassSecret, ReadPCs
  <1>5. /\ pc' \in {"dropSecret", "resumeRotate", "converge", "rotate", "putSecret"}
        /\ pc' = "dropSecret" => pass.sec.exists
        /\ pc' = "resumeRotate" => ~pass.sec.exists
        /\ pc' = "rotate" => rotationReason(pass.ha, pass.sec, r)
        /\ pc' = "putSecret" => ~rotationReason(pass.ha, pass.sec, r)
        /\ pc' \in {"rotate", "putSecret"} => r.owner = pass.h
    BY Zenon, <1>2 DEF AfterLookup, AfterConverge, Drift
  <1>6. rotationReason(pass.ha, pass.sec, r) <=> rotationReason(pass'.ha, pass'.sec, pass'.rob)
    BY Zenon, <1>2, <1>3 DEF rotationReason
  <1>7. PassSecret'
    <2>1. pc' = "putSecret" => Ours(pass.sec) /\ pass.sec.rid = r.id
      <3>1. ASSUME pc' = "putSecret"
            PROVE  Ours(pass.sec) /\ pass.sec.rid = r.id
        <4>1. ~rotationReason(pass.ha, pass.sec, r)
          BY Zenon, <1>5, <3>1
        <4> QED BY ZenonT(30), <1>3, <1>4, <4>1, NothingToStore
      <3> QED BY Zenon, <3>1
    <2>2. pc' = "rotate" => rotationReason(pass'.ha, pass'.sec, pass'.rob)
      BY Zenon, <1>5, <1>6
    <2>3. UNCHANGED <<secret, nextID>>
      BY Zenon DEF harborVars
    <2> QED BY Zenon, <1>2, <1>3, <1>4, <1>5, <2>1, <2>2, <2>3 DEF PassSecret
  <1>8. PassRobot'
    <2>1. Known(pc', pass', r)
      BY Zenon, <1>2, <1>3, <1>4, <1>5 DEF Known, HeldPCs, StorePCs
    <2>2. \A q \in robots' : q.id = pass'.rob.id => q = r
      BY Zenon, <1>1, <1>3 DEF harborVars, HarborOK
    <2>3. UNCHANGED nextID
      BY Zenon DEF harborVars
    <2> QED BY ZenonT(30), <1>1, <1>3, <1>5, <2>1, <2>2, <2>3 DEF PassRobot
  <1> QED BY Zenon, <1>7, <1>8, ReadKeeps

LEMMA lookupRobotRobot ==
    ASSUME RobotInv, TypeInv', lookupRobot
    PROVE  RobotInv' /\ Safe
  <1>1. UNCHANGED <<harborVars, secret, sweepVars>> /\ pc \in {"lookup", "relookup"}
    BY Zenon DEF lookupRobot, apiVars
  <1>2. CASE Failed \/ Goto("status", pass)
    <2>1. Dull(pc')
      BY Zenon, <1>2, FailedDull DEF Goto, Dull, ReadPCs, StorePCs
    <2> QED BY Zenon, <1>1, <2>1, DullKeeps
  <1>3. CASE pc = "lookup" /\ Goto("create", pass)
    BY Zenon, <1>1, <1>3, SeekingKeeps DEF Goto
  <1>4. ASSUME NEW r \in robots, r.name = pass.ha.sa, r.owner \in {pass.h, Unclaimed},
               Goto(AfterLookup(pass, r), [pass EXCEPT !.rob = Seen(r)])
        PROVE  RobotInv' /\ Safe
    BY Zenon, <1>1, <1>4, lookupRobotFound
  <1> QED BY Zenon, <1>2, <1>3, <1>4 DEF lookupRobot

\* A new robot has a new ID, and leaves the others alone.
LEMMA AddedRobot ==
    ASSUME TypeInv, TypeInv', NEW new, new.id = nextID, robots' = robots \cup {new},
           nextID' = nextID + 1
    PROVE  RobotsKept /\ Enabled /\ Touched
  <1>1. nextID \in Nat /\ ~(nextID < nextID)
    BY DEF TypeInv, TypeOK
  <1>2. IDsGrow
    BY <1>1 DEF IDsGrow
  <1>3. RobotsKept
    BY Zenon, <1>1, <1>2 DEF RobotsKept, Kept
  <1>4. Enabled
    BY Zenon DEF Enabled, Same, TypeInv, TypeOK
  <1> QED BY Zenon, <1>3, <1>4 DEF Touched

LEMMA createRobotRobot ==
    ASSUME RobotInv, TypeInv', createRobot
    PROVE  RobotInv' /\ Safe
  <1> DEFINE new == [id |-> nextID, name |-> pass.ha.sa, owner |-> pass.h,
                     suspended |-> FALSE, disabled |-> FALSE,
                     perms |-> pass.ha.perms, pw |-> nextID,
                     adminOff |-> FALSE, oldPw |-> FALSE]
             p == [pass EXCEPT !.rob = Seen(new), !.created = TRUE, !.pw = nextID]
  <1>1. /\ pass \in Pass /\ Accepted(pass.ha) /\ pass.h \in HarborAccesses
        /\ HarborOK /\ APIOK /\ pc = "create"
    BY Zenon, Split DEF RobotInv, createRobot, PassOK, PassNamed, NormalPCs
  <1>2. UNCHANGED <<secret, sweepVars>>
    BY Zenon DEF createRobot, apiVars
  <1>3. CASE Goto("relookup", pass) /\ UNCHANGED <<harborVars, spent>>
    BY Zenon, <1>1, <1>2, <1>3, SeekingKeeps DEF Goto
  <1>4. CASE /\ robots' = robots \cup {new} /\ nextID' = nextID + 1
             /\ Answered("putSecret", p)
    <2>1. /\ new \in Robot /\ new.id = nextID /\ new.name = pass.ha.sa
          /\ new.owner = pass.h /\ new.pw = nextID
      BY Zenon, <1>1 DEF Pass, HarborAccess, Accepted, Robot, RobotNames, HarborOK
    <2>2. RobotsKept /\ Enabled /\ Touched
      BY Zenon, <1>4, <2>1, AddedRobot DEF RobotInv
    <2>3. SecretsKept /\ SecretsSpared
      BY Zenon, <1>1, <1>2, SameSecrets
    <2>4. PassSecret' /\ PassRobot'
      <3>1. CASE Failed
        BY Zenon, <3>1, FailedDull, DullPass
      <3>2. CASE pc' = "putSecret" /\ pass' = p
        <4>1. /\ pass'.h = pass.h /\ pass'.sec = pass.sec /\ pass'.pw = nextID
              /\ pass'.rob = Seen(new)
          BY Zenon, <1>1, <3>2 DEF Pass
        <4>2. /\ pass'.rob.id = nextID /\ pass'.rob.name = pass.ha.sa
              /\ pass.ha.sa # NoName
          BY ZenonT(30), <1>1, <2>1, <4>1, SeenFields DEF Accepted
        <4>3. /\ nextID # 0 /\ nextID < nextID'
              /\ \A r \in robots : r.id # nextID
          BY <1>1, <1>4 DEF HarborOK
        <4>4. ReadStill(pass.sec, secret[pass.h])
          BY Zenon, <1>1 DEF RobotInv, PassSecret, ReadPCs
        <4>5. PassSecret'
          BY Zenon, <1>2, <3>2, <4>1, <4>3, <4>4 DEF PassSecret, ReadPCs
        <4>6. Known(pc', pass', new)
          BY Zenon, <2>1, <3>2, <4>1, <4>2 DEF Known
        <4>7. \A r \in robots' : r.id = pass'.rob.id => r = new
          BY Zenon, <1>4, <4>2, <4>3
        <4>8. PassRobot'
          BY Zenon, <3>2, <4>2, <4>3, <4>6, <4>7 DEF PassRobot
        <4> QED BY Zenon, <4>5, <4>8
      <3> QED BY Zenon, <1>4, <3>1, <3>2 DEF Answered, Goto
    <2> QED BY Zenon, <1>2, <2>2, <2>3, <2>4, KeptFollow, PassStepKeeps DEF Safe
  <1> QED BY Zenon, <1>3, <1>4 DEF createRobot

LEMMA dropSecretRobot ==
    ASSUME RobotInv, TypeInv', dropSecret
    PROVE  RobotInv' /\ Safe
  <1> DEFINE h == pass.h
             x == [pass.sec EXCEPT !.exists = FALSE]
             p == [pass EXCEPT !.sec.exists = FALSE]
  <1>1. /\ pass \in Pass /\ h \in HarborAccesses /\ HarborOK /\ APIOK
        /\ pc = "dropSecret" /\ pass.sec \in Secret
    BY Zenon, Split DEF RobotInv, dropSecret, PassOK, PassNamed, Pass
  <1>2. UNCHANGED <<harborVars, sweepVars>>
    BY Zenon DEF dropSecret
  <1>3. /\ ReadStill(pass.sec, secret[h]) /\ Stamped(pass.sec, nextID) /\ pass.pw = 0
    BY Zenon, <1>1 DEF RobotInv, PassSecret, ReadPCs
  <1>4. SecretsKept /\ SecretsSpared
    <2>1. CASE UNCHANGED secret
      BY Zenon, <1>1, <2>1, SameSecrets
    <2>2. CASE secret[h].exists /\ secret[h].uid = pass.sec.uid /\ DeleteSecret(h)
      <3>1. secret[h].stamp # "none"
        <4>1. pass.sec.exists
          BY Zenon, <1>1 DEF RobotInv, PassSecret
        <4> QED BY Zenon, <1>3, <2>2, <4>1 DEF ReadStill
      <3> QED BY Zenon, <1>1, <2>2, <3>1, DeleteSecretKept, DeleteSecretSpared
    <2> QED BY Zenon, <2>1, <2>2 DEF dropSecret
  <1>5. RobotsKept /\ Enabled /\ Touched
    BY Zenon, <1>1, <1>2, SameRobots
  <1>6. PassSecret' /\ PassRobot'
    <2>1. CASE Failed
      BY Zenon, <2>1, FailedDull, DullPass
    <2>2. CASE pc' = "resumeRotate" /\ pass' = p /\ ~secret'[h].exists
      <3>1. /\ pass'.h = h /\ pass'.sec = x /\ pass'.pw = 0 /\ pass'.rob = pass.rob
        BY Zenon, <1>1, <1>3, <2>2 DEF Pass
      <3>2. x.ver = pass.sec.ver /\ x.uid = pass.sec.uid /\ x.exists = FALSE
        BY Zenon, <1>1 DEF Secret
      <3>3. secret[h] \in Secret /\ secret'[h] \in Secret /\ KeptSecret(secret'[h], secret[h])
        BY Zenon, <1>1, <1>4 DEF APIOK, TypeInv, TypeOK, SecretsKept
      <3>4. ReadStill(pass.sec, secret'[h])
        BY ZenonT(30), <1>1, <1>3, <3>3, KeptSecretFacts
      <3>5. /\ ReadStill(x, secret'[h]) /\ Stamped(x, nextID') /\ SameCredentials(x, secret'[h])
        BY Zenon, <2>2, <3>2, <3>4 DEF ReadStill, Stamped, SameCredentials, Ours
      <3>6. PassSecret'
        BY Zenon, <2>2, <3>1, <3>2, <3>5 DEF PassSecret
      <3>7. \A r : Known("dropSecret", pass, r) => Known("resumeRotate", pass', r)
        BY Zenon, <3>1 DEF Known, HeldPCs, StorePCs
      <3>8. PassRobot'
        BY Zenon, <1>1, <1>2, <2>2, <3>1, <3>7
           DEF RobotInv, PassRobot, harborVars, AdoptPCs
      <3> QED BY Zenon, <3>6, <3>8
    <2>3. ASSUME DeleteSecret(h) PROVE ~secret'[h].exists
      BY Zenon, <1>1, <2>3 DEF DeleteSecret, NoSecret, APIOK
    <2> QED BY Zenon, <2>1, <2>2, <2>3 DEF dropSecret, Answered, Goto
  <1> QED BY Zenon, <1>2, <1>4, <1>5, <1>6, KeptFollow, PassStepKeeps DEF Safe

\* What Harbor's calls do to the robots.

\* Robot r is what s is after robot id got a new password.
Refreshed(r, s, id) ==
    /\ r.id = s.id /\ r.name = s.name /\ r.owner = s.owner /\ r.disabled = s.disabled
    /\ s.id = id => r.pw = NewPassword(s.pw) /\ ~r.oldPw
    /\ s.id # id => r = s

\* Robot r is what s is after an Update of robot id by a pass for h.
Rewritten(r, s, id, h, sus, dis) ==
    /\ r.id = s.id /\ r.name = s.name /\ r.pw = s.pw
    /\ s.id = id => r.owner = h /\ r.disabled = dis /\ (r.oldPw => s.oldPw \/ sus)
    /\ s.id # id => r = s

LEMMA RefreshFacts ==
    ASSUME HarborOK, NEW id, RefreshSec(id)
    PROVE  /\ \A r \in robots' : \E s \in robots : Refreshed(r, s, id)
           /\ \A s \in robots : \E r \in robots' : r.id = s.id
           /\ \A s \in robots : s.id # id => s \in robots'
  <1> DEFINE New(r) == IF r.id = id THEN [r EXCEPT !.pw = NewPassword(@), !.oldPw = FALSE] ELSE r
  <1>1. ASSUME NEW s \in robots
        PROVE  Refreshed(New(s), s, id)
    <2>1. s \in Robot
      BY Zenon DEF HarborOK
    <2> QED BY <2>1, Zenon DEF Robot, Refreshed
  <1>2. robots' = {New(r) : r \in robots}
    BY Zenon DEF RefreshSec
  <1> HIDE DEF New
  <1>3. ASSUME NEW r \in robots'
        PROVE  \E s \in robots : Refreshed(r, s, id)
    <2>1. PICK s \in robots : r = New(s)
      BY Zenon, <1>2
    <2> QED BY Zenon, <1>1, <2>1
  <1>4. ASSUME NEW s \in robots
        PROVE  (\E r \in robots' : r.id = s.id) /\ (s.id # id => s \in robots')
    <2>1. New(s) \in robots'
      BY Zenon, <1>2
    <2> QED BY Zenon, <1>1, <2>1 DEF Refreshed
  <1> QED BY Zenon, <1>3, <1>4

LEMMA PutFacts ==
    ASSUME HarborOK, NEW id, NEW h, NEW sus, NEW dis, NEW perms,
           PutRobot(id, h, sus, dis, perms)
    PROVE  /\ \A r \in robots' : \E s \in robots : Rewritten(r, s, id, h, sus, dis)
           /\ \A s \in robots : \E r \in robots' : r.id = s.id
           /\ \A s \in robots : s.id # id => s \in robots'
  <1> DEFINE Put(r) == IF r.id = id
                       THEN [r EXCEPT !.owner = h, !.suspended = sus,
                                      !.disabled = dis, !.perms = perms,
                                      !.oldPw = @ \/ sus]
                       ELSE r
  <1>1. ASSUME NEW s \in robots
        PROVE  Rewritten(Put(s), s, id, h, sus, dis)
    <2>1. s \in Robot
      BY Zenon DEF HarborOK
    <2> DEFINE w == s.oldPw \/ sus
               q == [s EXCEPT !.owner = h, !.suspended = sus, !.disabled = dis,
                              !.perms = perms, !.oldPw = w]
    <2>2. Put(s) = IF s.id = id THEN q ELSE s
      OBVIOUS
    <2> HIDE DEF w, Put
    <2>3. /\ q.id = s.id /\ q.name = s.name /\ q.pw = s.pw
          /\ q.owner = h /\ q.disabled = dis /\ q.oldPw = w
      BY <2>1, Zenon DEF Robot
    <2> HIDE DEF q
    <2> QED BY <2>2, <2>3, Zenon DEF w, Rewritten
  <1>2. robots' = {Put(r) : r \in robots}
    BY Zenon DEF PutRobot
  <1> HIDE DEF Put
  <1>3. ASSUME NEW r \in robots'
        PROVE  \E s \in robots : Rewritten(r, s, id, h, sus, dis)
    <2>1. PICK s \in robots : r = Put(s)
      BY Zenon, <1>2
    <2> QED BY Zenon, <1>1, <2>1
  <1>4. ASSUME NEW s \in robots
        PROVE  (\E r \in robots' : r.id = s.id) /\ (s.id # id => s \in robots')
    <2>1. Put(s) \in robots'
      BY Zenon, <1>2
    <2> QED BY Zenon, <1>1, <2>1 DEF Rewritten
  <1> QED BY Zenon, <1>3, <1>4

\* The robot the pass holds, seen from a robot with its ID.
LEMMA Holding ==
    ASSUME RobotInv, pc \in AdoptPCs \cup HeldPCs, NEW r \in robots, r.id = pass.rob.id
    PROVE  Known(pc, pass, r) /\ pass.rob.name # NoName /\ r.id # 0
  BY Zenon DEF RobotInv, PassRobot

\* A rotation replaces the password of a Secret that has a reason to rotate.
LEMMA RefreshDue ==
    ASSUME RobotInv, pc \in {"resumeRotate", "rotate"}, RefreshSec(pass.rob.id),
           UNCHANGED secret
    PROVE  DeadPasswordIsDue'
  <1> SUFFICES ASSUME NEW h \in HarborAccesses, NEW r \in robots',
                      Ours(secret[h]), secret[h].rid = r.id, secret[h].user = r.name,
                      secret[h].pw # r.pw
               PROVE  secret[h].due
    BY Zenon DEF DeadPasswordIsDue, Ours
  <1>1. HarborOK
    BY Zenon, Split DEF RobotInv
  <1>5. PICK s \in robots : Refreshed(r, s, pass.rob.id)
    BY Zenon, <1>1, RefreshFacts
  <1>2. /\ r.id = s.id /\ r.name = s.name /\ r.owner = s.owner
        /\ s.id # pass.rob.id => r = s
    BY Zenon, <1>5 DEF Refreshed
  <1>3. CASE s.id # pass.rob.id
    BY Zenon, <1>2, <1>3 DEF RobotInv, DeadPasswordIsDue, Ours
  <1>4. CASE s.id = pass.rob.id
    <2>1. Known(pc, pass, s) /\ s.id # 0
      BY Zenon, <1>4, Holding DEF AdoptPCs, HeldPCs
    <2>2. s.owner = h
      BY Zenon, <1>2 DEF RobotInv, SecretsStamped
    <2>3. h = pass.h
      BY Zenon, <2>1, <2>2, BridgeAssumption DEF Known
    <2>4. SameCredentials(pass.sec, secret[h])
      BY Zenon, <2>3 DEF RobotInv, PassSecret, ReadPCs
    <2>5. /\ pass.sec.exists /\ pass.sec.user = r.name /\ pass.sec.rid = r.id
          /\ pass.sec.due => secret[h].due
      BY Zenon, <2>4 DEF SameCredentials
    <2>6. rotationReason(pass.ha, pass.sec, pass.rob)
      BY Zenon, <2>5 DEF RobotInv, PassSecret
    <2>7. r.name = pass.rob.name /\ r.id = pass.rob.id /\ r.id # 0
      BY Zenon, <1>2, <1>4, <2>1 DEF Known
    <2>8. pass.sec.due
      BY Zenon, <2>5, <2>6, <2>7 DEF rotationReason
    <2> QED BY Zenon, <2>5, <2>8
  <1> QED BY Zenon, <1>3, <1>4

LEMMA RotateRobotRobot ==
    ASSUME RobotInv, TypeInv', NEW from, NEW to, RotateRobot(from, to),
           \/ from = "resumeRotate" /\ to = "resumeEnable"
           \/ from = "rotate" /\ to = "putSecret"
    PROVE  RobotInv' /\ Safe
  <1>1. /\ pass \in Pass /\ pass.h \in HarborAccesses /\ HarborOK /\ APIOK
        /\ pc = from /\ pc \in {"resumeRotate", "rotate"}
    BY Zenon, Split DEF RobotInv, RotateRobot, PassOK, PassNamed
  <1>2. UNCHANGED <<secret, nextID, sweepVars>>
    BY Zenon DEF RotateRobot, apiVars
  <1>3. CASE Failed /\ UNCHANGED robots
    BY Zenon, <1>2, <1>3, FailedDull, DullKeeps DEF harborVars
  <1>4. ASSUME NEW q \in robots, q.id = pass.rob.id, RefreshSec(q.id),
               Answered(to, [pass EXCEPT !.pw = NewPassword(q.pw)])
        PROVE  RobotInv' /\ Safe
    <2>1. /\ \A r \in robots' : \E s \in robots : Refreshed(r, s, q.id)
          /\ \A s \in robots : \E r \in robots' : r.id = s.id
          /\ \A s \in robots : s.id # q.id => s \in robots'
      BY Zenon, <1>1, <1>4, RefreshFacts
    <2>2. RobotsFollow
      BY Zenon, <1>2, <2>1 DEF RobotsFollow, IDsGrow, Follows, Refreshed
    <2>3. Enabled
      BY ZenonT(30), <1>1, <2>1 DEF Enabled, Same, HarborOK, Refreshed
    <2>4. Known(pc, pass, q) /\ pass.rob.name # NoName /\ q.id # 0
      BY Zenon, <1>1, <1>4, Holding DEF AdoptPCs, HeldPCs
    <2>5. Touched
      <3>1. ASSUME NEW s \in robots, s.id = q.id
            PROVE  s.owner \in {pass.h, Unclaimed} /\ Same(s) # {}
        <4>1. s = q
          BY Zenon, <1>1, <3>1 DEF HarborOK
        <4>2. PICK r \in robots' : r.id = s.id
          BY Zenon, <2>1
        <4>3. s.owner \in {pass.h, Unclaimed}
          BY Zenon, <2>4, <4>1 DEF Known
        <4> QED BY Zenon, <4>2, <4>3 DEF Same
      <3> QED BY Zenon, <1>1, <2>1, <3>1 DEF Touched
    <2>6. SecretsKept /\ SecretsSpared
      BY Zenon, <1>1, <1>2, SameSecrets
    <2>7. SecretsStamped' /\ \A r \in robots' : r.id # 0
      BY Zenon, <2>2, <2>6, StampsKept
    <2>8. DeadPasswordIsDue'
      BY Zenon, <1>1, <1>2, <1>4, RefreshDue
    <2>9. SweepRobots' /\ SweepSecrets'
      BY Zenon, <1>2, <2>2, <2>6, SweepRobotsKept, SweepSecretsKept
    <2>10. PassSecret' /\ PassRobot'
      <3>1. CASE Failed
        BY Zenon, <3>1, FailedDull, DullPass
      <3>2. CASE pc' = to /\ pass' = [pass EXCEPT !.pw = NewPassword(q.pw)]
        <4>1. /\ pass'.h = pass.h /\ pass'.sec = pass.sec /\ pass'.rob = pass.rob
              /\ pass'.pw = NewPassword(q.pw)
          BY Zenon, <1>1, <3>2 DEF Pass
        <4>2. NewPassword(q.pw) # 0
          <5>1. q.pw \in Nat
            BY Zenon, <1>1 DEF HarborOK, Robot
          <5> QED BY <5>1, BridgeAssumption DEF NewPassword
        <4>3. ReadStill(pass.sec, secret[pass.h])
          BY Zenon, <1>1 DEF RobotInv, PassSecret, ReadPCs
        <4>4. PassSecret'
          BY Zenon, <1>2, <3>2, <4>1, <4>2, <4>3 DEF PassSecret, ReadPCs
        <4>5. ASSUME NEW r \in robots', r.id = pass.rob.id
              PROVE  Known(pc', pass', r)
          <5>1. PICK s \in robots : Refreshed(r, s, q.id)
            BY Zenon, <2>1
          <5>2. s = q
            BY Zenon, <1>1, <1>4, <4>5, <5>1 DEF HarborOK, Refreshed
          <5>3. /\ r.name = q.name /\ r.owner = q.owner /\ ~r.oldPw
                /\ r.pw = NewPassword(q.pw)
            BY Zenon, <5>1, <5>2 DEF Refreshed
          <5> QED BY Zenon, <1>1, <2>4, <3>2, <4>1, <5>3 DEF Known, HeldPCs
        <4>6. pass.rob.id # 0 /\ pass.rob.id < nextID
          BY Zenon, <1>1 DEF RobotInv, PassRobot, AdoptPCs, HeldPCs
        <4>7. PassRobot'
          BY Zenon, <1>2, <2>4, <3>2, <4>1, <4>5, <4>6 DEF PassRobot
        <4> QED BY Zenon, <4>4, <4>7
      <3> QED BY Zenon, <1>4, <3>1, <3>2 DEF Answered, Goto
    <2> QED BY ZenonT(30), <2>2, <2>3, <2>5, <2>6, <2>7, <2>8, <2>9, <2>10 DEF RobotInv, Safe
  <1> QED BY Zenon, <1>3, <1>4 DEF RotateRobot

\* An Update of the robot the pass holds: all but what the pass knows then.
LEMMA UpdateRobotRobot ==
    ASSUME RobotInv, TypeInv', pc # "idle", NEW sus, NEW dis, NEW perms, NEW to, NEW p,
           UpdateRobot(sus, dis, perms, to, p),
           \A r \in robots : r.id = pass.rob.id =>
               /\ r.owner \in {pass.h, Unclaimed}
               /\ r.disabled /\ ~dis /\ (r.oldPw \/ sus) => pc = "converge" /\ ~pass.rob.disabled,
           PutRobot(pass.rob.id, pass.h, sus, dis, perms) /\ Goto(to, p)
               => PassSecret' /\ PassRobot'
    PROVE  RobotInv' /\ Safe
  <1>1. pass.h \in HarborAccesses /\ HarborOK /\ APIOK
    BY Zenon, Split DEF RobotInv, PassOK, PassNamed
  <1>2. UNCHANGED <<secret, nextID, sweepVars>>
    BY Zenon DEF UpdateRobot, apiVars
  <1>3. CASE Failed /\ UNCHANGED robots
    BY Zenon, <1>2, <1>3, FailedDull, DullKeeps DEF harborVars
  <1>4. CASE PutRobot(pass.rob.id, pass.h, sus, dis, perms) /\ Answered(to, p)
    <2>1. /\ \A r \in robots' : \E s \in robots :
                 Rewritten(r, s, pass.rob.id, pass.h, sus, dis)
          /\ \A s \in robots : \E r \in robots' : r.id = s.id
          /\ \A s \in robots : s.id # pass.rob.id => s \in robots'
      BY Zenon, <1>1, <1>4, PutFacts
    <2>2. RobotsFollow
      <3>1. ASSUME NEW r \in robots' PROVE \E s \in robots : Follows(r, s)
        <4>1. PICK s \in robots : Rewritten(r, s, pass.rob.id, pass.h, sus, dis)
          BY Zenon, <2>1
        <4> QED BY Zenon, <4>1 DEF Follows, Rewritten
      <3> QED BY Zenon, <1>2, <3>1 DEF RobotsFollow, IDsGrow
    <2>3. PasswordsKept
      BY Zenon, <2>1 DEF PasswordsKept, Rewritten
    <2>4. Enabled
      <3> SUFFICES ASSUME NEW s \in robots, NEW r \in Same(s),
                          s.disabled, ~r.disabled, r.oldPw
                   PROVE  pc = "converge" /\ s.id = pass.rob.id /\ ~pass.rob.disabled
        BY Zenon DEF Enabled
      <3>1. r \in robots' /\ r.id = s.id
        BY Zenon DEF Same
      <3>2. PICK t \in robots : Rewritten(r, t, pass.rob.id, pass.h, sus, dis)
        BY Zenon, <2>1, <3>1
      <3>3. t = s
        BY Zenon, <1>1, <3>1, <3>2 DEF HarborOK, Rewritten
      <3> QED BY Zenon, <3>2, <3>3 DEF Rewritten
    <2>5. Touched
      BY Zenon, <1>1, <2>1 DEF Touched, Same
    <2>6. SecretsKept /\ SecretsSpared
      BY Zenon, <1>1, <1>2, SameSecrets
    <2>7. PassSecret' /\ PassRobot'
      BY Zenon, <1>4, FailedDull, DullPass DEF Answered
    <2> QED BY Zenon, <1>2, <2>2, <2>3, <2>4, <2>5, <2>6, <2>7, PassStepKeeps DEF Safe
  <1> QED BY Zenon, <1>3, <1>4 DEF UpdateRobot

\* What the pass knows of the robot it has just written.
LEMMA WrittenKnown ==
    ASSUME RobotInv, pc \in {"resumeEnable", "converge"}, NEW dis, NEW perms,
           PutRobot(pass.rob.id, pass.h, FALSE, dis, perms), UNCHANGED nextID,
           pass'.h = pass.h, pass'.pw = pass.pw, pass'.rob.id = pass.rob.id,
           pass'.rob.name = pass.rob.name, pc' \in {"rotate", "putSecret"},
           pass.pw # 0 => pc = "resumeEnable"
    PROVE  PassRobot'
  <1>1. HarborOK
    BY Zenon, Split DEF RobotInv
  <1>2. ASSUME NEW r \in robots', r.id = pass.rob.id
        PROVE  Known(pc', pass', r)
    <2>4. PICK s \in robots : Rewritten(r, s, pass.rob.id, pass.h, FALSE, dis)
      BY Zenon, <1>1, PutFacts
    <2>1. /\ r.id = s.id /\ r.name = s.name /\ r.pw = s.pw
          /\ s.id = pass.rob.id => r.owner = pass.h
      BY Zenon, <2>4 DEF Rewritten
    <2>2. Known(pc, pass, s)
      BY Zenon, <1>2, <2>1, Holding DEF AdoptPCs, HeldPCs
    <2>3. /\ r.owner = pass.h /\ r.name = pass.rob.name
          /\ pass.pw # 0 => r.pw = pass.pw
      BY Zenon, <1>2, <2>1, <2>2 DEF Known, StorePCs
    <2> QED BY Zenon, <2>3 DEF Known
  <1>3. pass.rob.id # 0 /\ pass.rob.id < nextID /\ pass.rob.name # NoName
    BY Zenon DEF RobotInv, PassRobot, AdoptPCs, HeldPCs
  <1> QED BY Zenon, <1>2, <1>3 DEF PassRobot

LEMMA resumeEnableRobot ==
    ASSUME RobotInv, TypeInv', resumeEnable
    PROVE  RobotInv' /\ Safe
  <1> DEFINE p == [pass EXCEPT !.rob.disabled = FALSE, !.rob.suspended = FALSE]
  <1>1. pass \in Pass /\ pass.rob \in Robot /\ pc = "resumeEnable"
    BY Zenon, Split, Defaults DEF RobotInv, PassOK, Pass, resumeEnable
  <1>2. UpdateRobot(FALSE, FALSE, pass.ha.perms, "putSecret", p)
    BY Zenon DEF resumeEnable
  <1>3. UNCHANGED <<secret, nextID>>
    BY Zenon, <1>2 DEF UpdateRobot, apiVars
  <1>4. /\ p.h = pass.h /\ p.sec = pass.sec /\ p.pw = pass.pw
        /\ p.rob.id = pass.rob.id /\ p.rob.name = pass.rob.name
    <2> DEFINE q == [pass EXCEPT !.rob.disabled = FALSE]
    <2>1. /\ q \in Pass /\ q.h = pass.h /\ q.sec = pass.sec /\ q.pw = pass.pw
          /\ q.rob = [pass.rob EXCEPT !.disabled = FALSE]
      <3>1. Like(q, pass)
        <4>1. [pass.rob EXCEPT !.disabled = FALSE] \in Robot
          BY Zenon, <1>1 DEF Robot
        <4> QED BY Zenon, <1>1, <4>1 DEF Like, Pass
      <3> QED BY Zenon, <1>1, <3>1 DEF Like, Pass
    <2> HIDE DEF q
    <2>2. q.rob \in Robot /\ q.rob.id = pass.rob.id /\ q.rob.name = pass.rob.name
      <3>1. q.rob \in Robot
        BY Zenon, <2>1, Defaults DEF Pass
      <3> QED BY Zenon, <1>1, <2>1, <3>1 DEF Robot
    <2>3. p = [q EXCEPT !.rob.suspended = FALSE]
      BY DEF q
    <2> HIDE DEF p
    <2>4. /\ p.h = q.h /\ p.sec = q.sec /\ p.pw = q.pw
          /\ p.rob = [q.rob EXCEPT !.suspended = FALSE]
      BY Zenon, <2>1, <2>3 DEF Pass
    <2>5. p.rob.id = q.rob.id /\ p.rob.name = q.rob.name
      BY Zenon, <2>2, <2>4 DEF Robot
    <2> QED BY Zenon, <2>1, <2>2, <2>4, <2>5
  <1>5. ReadStill(pass.sec, secret[pass.h]) /\ pass.pw # 0
    BY Zenon, <1>1 DEF RobotInv, PassSecret
  <1> HIDE DEF p
  <1>6. ASSUME PutRobot(pass.rob.id, pass.h, FALSE, FALSE, pass.ha.perms), Goto("putSecret", p)
        PROVE  PassSecret' /\ PassRobot'
    <2>1. pc' = "putSecret" /\ pass' = p
      BY Zenon, <1>6 DEF Goto
    <2>2. PassSecret'
      BY Zenon, <1>3, <1>4, <1>5, <2>1 DEF PassSecret, ReadPCs
    <2>3. PassRobot'
      BY Zenon, <1>1, <1>3, <1>4, <1>6, <2>1, WrittenKnown
    <2> QED BY Zenon, <2>2, <2>3
  <1>7. ASSUME NEW r \in robots, r.id = pass.rob.id
        PROVE  r.owner \in {pass.h, Unclaimed} /\ ~r.oldPw
    BY Zenon, <1>1, <1>7, Holding DEF Known, AdoptPCs
  <1> QED BY Zenon, <1>1, <1>2, <1>6, <1>7, UpdateRobotRobot

LEMMA convergeRobot ==
    ASSUME RobotInv, TypeInv', converge
    PROVE  RobotInv' /\ Safe
  <1> DEFINE at == AfterConverge(pass, pass.rob)
  <1>1. /\ UpdateRobot(FALSE, pass.rob.disabled, pass.ha.perms, at, pass)
        /\ pc = "converge"
    BY Zenon DEF converge
  <1>2. UNCHANGED <<secret, nextID>>
    BY Zenon, <1>1 DEF UpdateRobot, apiVars
  <1>3. /\ ReadStill(pass.sec, secret[pass.h]) /\ Stamped(pass.sec, nextID)
        /\ SameCredentials(pass.sec, secret[pass.h]) /\ pass.pw = 0
        /\ pass.rob.name # NoName
    BY Zenon, <1>1 DEF RobotInv, PassSecret, PassRobot, ReadPCs, AdoptPCs
  <1>4. /\ at = "rotate" => rotationReason(pass.ha, pass.sec, pass.rob)
        /\ at = "putSecret" => Ours(pass.sec) /\ pass.sec.rid = pass.rob.id
        /\ at \in {"rotate", "putSecret"}
    BY ZenonT(30), <1>3, NothingToStore DEF AfterConverge
  <1> HIDE DEF at
  <1>5. ASSUME PutRobot(pass.rob.id, pass.h, FALSE, pass.rob.disabled, pass.ha.perms),
               Goto(at, pass)
        PROVE  PassSecret' /\ PassRobot'
    <2>1. pc' = at /\ pass' = pass
      BY Zenon, <1>5 DEF Goto
    <2>2. PassSecret'
      BY Zenon, <1>2, <1>3, <1>4, <2>1 DEF PassSecret
    <2>3. PassRobot'
      BY ZenonT(30), <1>1, <1>2, <1>3, <1>4, <1>5, <2>1, WrittenKnown
    <2> QED BY Zenon, <2>2, <2>3
  <1>6. ASSUME NEW r \in robots, r.id = pass.rob.id
        PROVE  r.owner \in {pass.h, Unclaimed}
    BY Zenon, <1>1, <1>6, Holding DEF Known, AdoptPCs
  <1> QED BY Zenon, <1>1, <1>5, <1>6, UpdateRobotRobot

LEMMA disableRobotRobot ==
    ASSUME RobotInv, TypeInv', disableRobot
    PROVE  RobotInv' /\ Safe
  <1>1. /\ UpdateRobot(TRUE, TRUE, pass.rob.perms, "refuseStatus", pass)
        /\ pc = "disable"
    BY Zenon DEF disableRobot
  <1>2. Goto("refuseStatus", pass) => PassSecret' /\ PassRobot'
    BY Zenon, DullPass DEF Goto, Dull, ReadPCs, StorePCs
  <1>3. \A r \in robots : r.id = pass.rob.id => r.owner = pass.h
    BY Zenon, <1>1 DEF RobotInv, PassRobot
  <1> QED BY Zenon, <1>1, <1>2, <1>3, UpdateRobotRobot

\* A Secret with the robot's credentials that has nothing new to store.
LEMMA CredentialsKept ==
    ASSUME NEW p \in Pass, p.pw = 0, Ours(p.sec), p.sec.rid = p.rob.id
    PROVE  WithCredentials(p) = p.sec
  <1>1. p.sec \in Secret
    BY Zenon DEF Pass
  <1>2. WithCredentials(p) = [p.sec EXCEPT !.stamp = "this", !.rid = p.rob.id,
                                 !.user = @, !.pw = @, !.due = @]
    BY DEF WithCredentials
  <1>3. [p.sec EXCEPT !.stamp = p.sec.stamp, !.rid = p.sec.rid,
                      !.user = @, !.pw = @, !.due = @] = p.sec
    BY Zenon, <1>1 DEF Secret
  <1> QED BY Zenon, <1>2, <1>3 DEF Ours

\* The Secret as written: stamped, with the credentials of the robot.
Stored(p, v, u) == [WithCredentials(p) EXCEPT !.exists = TRUE, !.ver = v, !.uid = u]

LEMMA StoredFields ==
    ASSUME NEW p \in Pass, p.pw # 0, NEW v, NEW u
    PROVE  LET t == Stored(p, v, u) IN
           /\ t.exists /\ t.ver = v /\ t.uid = u /\ t.stamp = "this" /\ t.rid = p.rob.id
           /\ t.user = p.rob.name /\ t.pw = p.pw
  <1>1. WithCredentials(p) \in Secret
    BY Zenon, WithCredentialsType
  <1>2. p.sec \in Secret
    BY Zenon DEF Pass
  <1>3. /\ WithCredentials(p).stamp = "this" /\ WithCredentials(p).rid = p.rob.id
        /\ WithCredentials(p).user = p.rob.name /\ WithCredentials(p).pw = p.pw
    BY <1>2 DEF WithCredentials, Secret
  <1> HIDE DEF WithCredentials
  <1> QED BY Zenon, <1>1, <1>3 DEF Secret, Stored

\* The write of the new password.
LEMMA StoreKeeps ==
    ASSUME RobotInv, TypeInv', pc = "putSecret", pass.pw # 0, NEW t \in Secret,
           secret' = [secret EXCEPT ![pass.h] = t], UNCHANGED <<harborVars, sweepVars>>,
           t.exists, t.stamp = "this", t.rid = pass.rob.id, t.user = pass.rob.name,
           t.pw = pass.pw, secret[pass.h].uid <= t.uid,
           secret[pass.h].exists => secret[pass.h].stamp # "none",
           Dull(pc')
    PROVE  RobotInv' /\ Safe
  <1>1. pass.h \in HarborAccesses /\ HarborOK /\ APIOK /\ SweepOK
    BY Zenon, Split DEF RobotInv, PassOK, PassNamed
  <1>2. secret'[pass.h] = t /\ \A h \in HarborAccesses : h # pass.h => secret'[h] = secret[h]
    BY Zenon, <1>1 DEF APIOK
  <1>3. /\ pass.rob.id # 0 /\ pass.rob.id < nextID
        /\ \A r \in robots : r.id = pass.rob.id =>
              r.owner = pass.h /\ r.pw = pass.pw
    BY Zenon DEF RobotInv, PassRobot, Known, HeldPCs, StorePCs
  <1>4. RobotsKept /\ Enabled /\ Touched
    BY Zenon, <1>1, SameRobots
  <1>5. UNCHANGED <<robots, nextID>>
    BY Zenon DEF harborVars
  <1>6. SecretsStamped'
    <2>1. ASSUME NEW h \in HarborAccesses, h = pass.h
          PROVE  /\ Stamped(secret'[h], nextID)
                 /\ \A r \in robots : r.id = secret'[h].rid => r.owner = h
      <3>1. secret'[h] = t
        BY Zenon, <1>2, <2>1
      <3> QED BY Zenon, <1>3, <2>1, <3>1 DEF Stamped
    <2>2. ASSUME NEW h \in HarborAccesses, h # pass.h
          PROVE  /\ Stamped(secret'[h], nextID)
                 /\ Ours(secret'[h]) => \A r \in robots : r.id = secret'[h].rid => r.owner = h
      BY ZenonT(30), <1>2, <2>2 DEF RobotInv, SecretsStamped
    <2> QED BY Zenon, <1>5, <2>1, <2>2 DEF SecretsStamped
  <1>7. DeadPasswordIsDue'
    <2>1. \A h \in HarborAccesses : h # pass.h => secret'[h] = secret[h]
      BY Zenon, <1>2
    <2>2. \A r \in robots : t.rid = r.id => t.pw = r.pw
      BY Zenon, <1>3
    <2>3. DeadPasswordIsDue
      BY Zenon DEF RobotInv
    <2>4. ASSUME NEW h \in HarborAccesses, NEW r \in robots,
                 secret'[h].exists, secret'[h].stamp = "this", secret'[h].rid = r.id,
                 secret'[h].user = r.name, secret'[h].pw # r.pw
          PROVE  secret'[h].due
      <3>1. h # pass.h
        BY ZenonT(30), <1>2, <2>2, <2>4
      <3>2. secret'[h] = secret[h]
        BY Zenon, <2>1, <3>1
      <3> QED BY Zenon, <2>3, <2>4, <3>2 DEF DeadPasswordIsDue
    <2> QED BY Zenon, <1>5, <2>4 DEF DeadPasswordIsDue
  <1>8. SweepSecrets'
    <2> SUFFICES ASSUME NEW k \in sweep.secrets \cup {sweep.sec}, k.h \in HarborAccesses
                 PROVE  Deletable(k.uid, secret'[k.h])
      BY Zenon DEF SweepSecrets, sweepVars
    <2>1. Deletable(k.uid, secret[k.h])
      BY Zenon DEF RobotInv, SweepSecrets
    <2>2. CASE k.h = pass.h
      <3>1. k.uid \in Nat
        BY Zenon, <1>1 DEF SweepOK, Sweep, SecretKey
      <3>2. t.uid \in Nat /\ secret[pass.h].uid \in Nat
        BY Zenon, <1>1 DEF APIOK, Secret
      <3>3. k.uid <= secret[pass.h].uid
        BY Zenon, <2>1, <2>2 DEF Deletable
      <3>4. k.uid <= t.uid
        BY <3>1, <3>2, <3>3
      <3> QED BY Zenon, <1>2, <2>2, <3>4 DEF Deletable
    <2>3. CASE k.h # pass.h
      BY Zenon, <1>2, <2>1, <2>3
    <2> QED BY Zenon, <2>2, <2>3
  <1>9. SweepRobots'
    BY Zenon, <1>4, KeptFollow, SweepRobotsKept
  <1>10. SecretsSpared
    BY Zenon, <1>2 DEF SecretsSpared
  <1> QED BY ZenonT(30), <1>4, <1>5, <1>6, <1>7, <1>8, <1>9, <1>10, KeptFollow, DullPass
          DEF RobotInv, Safe

LEMMA putRobotSecretRobot ==
    ASSUME RobotInv, TypeInv', putRobotSecret
    PROVE  RobotInv' /\ Safe
  <1> DEFINE h == pass.h
             new == WithCredentials(pass)
             u == IF secret[h].exists THEN new.uid ELSE secret[h].uid + 1
             t == [new EXCEPT !.exists = TRUE, !.ver = secret[h].ver + 1, !.uid = u]
             done == [pass EXCEPT !.out = ~pass.rob.disabled]
             unchanged == pass.pw = 0 /\ new = pass.sec
             fits == IF pass.sec.exists
                     THEN secret[h].exists /\ secret[h].ver = pass.sec.ver
                     ELSE ~secret[h].exists
  <1>1. /\ pass \in Pass /\ h \in HarborAccesses /\ APIOK /\ pc = "putSecret"
        /\ pass.sec \in Secret /\ secret[h] \in Secret
    BY Zenon, Split DEF RobotInv, putRobotSecret, PassOK, PassNamed, Pass, APIOK
  <1>2. UNCHANGED <<harborVars, sweepVars>>
    BY Zenon DEF putRobotSecret
  <1>3. Dull(AfterSecret(pass))
    BY Zenon DEF AfterSecret, Dull, ReadPCs, StorePCs
  <1>4. ~unchanged => pass.pw # 0
    BY Zenon, <1>1, CredentialsKept DEF RobotInv, PassSecret
  <1>5. CASE Goto(AfterSecret(pass), done) /\ UNCHANGED secret
    BY Zenon, <1>2, <1>3, <1>5, DullKeeps DEF Goto
  <1>6. CASE Failed /\ UNCHANGED secret
    BY Zenon, <1>2, <1>6, FailedDull, DullKeeps
  <1>7. CASE /\ ~unchanged /\ fits
             /\ secret' = [secret EXCEPT ![h] = t] /\ Answered(AfterSecret(pass), done)
    <2>1. pass.pw # 0
      BY Zenon, <1>4, <1>7
    <2>2. ReadStill(pass.sec, secret[h])
      BY Zenon, <1>1 DEF RobotInv, PassSecret
    <2>3. secret[h].exists => secret[h].stamp # "none" /\ secret[h].uid = pass.sec.uid
      BY Zenon, <1>7, <2>2 DEF ReadStill
    <2>4. new.uid = pass.sec.uid /\ new \in Secret
      <3>1. new \in Secret
        BY Zenon, <1>1, WithCredentialsType
      <3>2. new.uid = pass.sec.uid
        BY <1>1 DEF WithCredentials, Secret
      <3> QED BY Zenon, <3>1, <3>2
    <2>5. /\ t.exists /\ t.stamp = "this" /\ t.rid = pass.rob.id /\ t.user = pass.rob.name
          /\ t.pw = pass.pw /\ t.uid = u
      <3> HIDE DEF u
      <3>1. t = Stored(pass, secret[h].ver + 1, u)
        BY Zenon DEF Stored
      <3> DEFINE z == Stored(pass, secret[h].ver + 1, u)
      <3>2. pass \in Pass /\ pass.pw # 0
        BY Zenon, <1>1, <2>1
      <3>3. /\ z.exists /\ z.stamp = "this" /\ z.rid = pass.rob.id /\ z.user = pass.rob.name
            /\ z.pw = pass.pw /\ z.uid = u
        BY <3>2, StoredFields
      <3> HIDE DEF t, z
      <3> QED BY Zenon, <3>1, <3>3 DEF z
    <2>6. u \in Nat /\ secret[h].uid <= u /\ secret[h].ver + 1 \in Nat
      <3>1. secret[h].uid \in Nat /\ secret[h].ver \in Nat /\ pass.sec.uid \in Nat
        BY Zenon, <1>1 DEF Secret
      <3> QED BY <2>3, <2>4, <3>1
    <2> HIDE DEF u, new
    <2>7. t \in Secret
      BY Zenon, <2>4, <2>6 DEF Secret
    <2>8. Dull(pc')
      BY Zenon, <1>3, <1>7, FailedDull DEF Answered, Goto
    <2>9. secret[h].uid <= t.uid
      BY Zenon, <2>5, <2>6
    <2> HIDE DEF t
    <2> QED BY ZenonT(30), <1>1, <1>2, <1>7, <2>1, <2>3, <2>5, <2>7, <2>8, <2>9, StoreKeeps
  <1>8. CASE /\ pass.pw # 0 /\ Goto("reread", [pass EXCEPT !.tries = @ + 1])
             /\ UNCHANGED secret
    <2>1. /\ pc' = "reread" /\ pass'.h = pass.h /\ pass'.pw = pass.pw /\ pass'.rob = pass.rob
      BY Zenon, <1>1, <1>8 DEF Goto, Pass
    <2>2. PassSecret'
      BY Zenon, <1>8, <2>1 DEF PassSecret, ReadPCs
    <2>3. \A r : Known("putSecret", pass, r) => Known("reread", pass', r)
      BY Zenon, <2>1 DEF Known, HeldPCs, StorePCs
    <2>4. PassRobot'
      BY Zenon, <1>1, <1>2, <2>1, <2>3 DEF RobotInv, PassRobot, harborVars, HeldPCs
    <2> QED BY Zenon, <1>2, <1>8, <2>2, <2>4, ReadKeeps
  <1> HIDE DEF new, done
  <1> QED BY Zenon, <1>5, <1>6, <1>7, <1>8 DEF putRobotSecret, new, done

LEMMA rereadSecretRobot ==
    ASSUME RobotInv, TypeInv', rereadSecret
    PROVE  RobotInv' /\ Safe
  <1> DEFINE s == secret[pass.h]
  <1>1. pass \in Pass /\ pass.h \in HarborAccesses /\ pass.pw # 0 /\ pc = "reread"
    BY Zenon, Split DEF RobotInv, rereadSecret, PassOK, PassNamed, PassSecret
  <1>2. s \in Secret /\ Stamped(s, nextID)
    BY Zenon, <1>1, Split DEF RobotInv, APIOK, SecretsStamped
  <1>3. UNCHANGED <<harborVars, secret, sweepVars>>
    BY Zenon DEF rereadSecret, apiVars
  <1>4. CASE Failed
    BY Zenon, <1>3, <1>4, FailedDull, DullKeeps
  <1>5. CASE ~secretConflict(s, pass.rob.name) /\ Goto("putSecret", [pass EXCEPT !.sec = s])
    <2>1. /\ pc' = "putSecret" /\ pass'.h = pass.h /\ pass'.sec = s /\ pass'.pw = pass.pw
          /\ pass'.rob = pass.rob
      BY Zenon, <1>1, <1>2, <1>5 DEF Goto, Pass
    <2>2. ReadStill(s, s)
      BY Zenon, <1>2, <1>5, NoConflict, ReadNow
    <2>3. PassSecret'
      BY Zenon, <1>1, <1>3, <2>1, <2>2 DEF PassSecret, ReadPCs
    <2>4. \A r : Known("reread", pass, r) => Known("putSecret", pass', r)
      BY Zenon, <2>1 DEF Known, HeldPCs, StorePCs
    <2>5. PassRobot'
      BY Zenon, <1>1, <1>3, <2>1, <2>4 DEF RobotInv, PassRobot, harborVars, HeldPCs
    <2> QED BY Zenon, <1>3, <2>3, <2>5, ReadKeeps
  <1> QED BY Zenon, <1>4, <1>5 DEF rereadSecret

LEMMA ListRobotsRobot ==
    ASSUME RobotInv, TypeInv', NEW from, NEW keep, NEW each \in {"delStale", "delRobots"},
           NEW after \in {"status", "delSecret"}, ListRobots(from, keep, each, after)
    PROVE  RobotInv' /\ Safe
  <1> DEFINE gone == {r.id : r \in Owned(pass.h)} \ keep
  <1>1. UNCHANGED <<harborVars, secret, sweepVars>>
    BY Zenon DEF ListRobots, apiVars
  <1>2. CASE pc' = after
    BY Zenon, <1>1, <1>2, DullKeeps DEF Dull, ReadPCs, StorePCs
  <1>3. CASE pc' = each /\ pass' = [pass EXCEPT !.todo = gone]
    <2>1. pass \in Pass /\ HarborOK
      BY Zenon, Split DEF RobotInv, PassOK
    <2>2. pass'.h = pass.h /\ pass'.todo = gone
      BY Zenon, <1>3, <2>1 DEF Pass
    <2>3. \A i \in gone : \E r \in robots : r.id = i /\ r.owner = pass.h
      BY Zenon DEF Owned, robotOwnedBy
    <2> HIDE DEF gone
    <2>4. \A i \in gone : i < nextID
      BY Zenon, <2>1, <2>3 DEF HarborOK
    <2>5. \A r \in robots : r.id \in gone => r.owner = pass.h
      BY ZenonT(30), <2>1, <2>3 DEF HarborOK
    <2>6. PassRobot'
      BY Zenon, <1>1, <1>3, <2>2, <2>4, <2>5 DEF PassRobot, AdoptPCs, HeldPCs, harborVars
    <2>7. PassSecret'
      BY Zenon, <1>3 DEF PassSecret, ReadPCs
    <2> QED BY Zenon, <1>1, <2>6, <2>7, ReadKeeps
  <1> QED BY Zenon, <1>2, <1>3 DEF ListRobots, Goto

\* Robots of the pass's own HarborAccess are deleted.
LEMMA DeletedByPass ==
    ASSUME RobotInv, TypeInv', pc # "idle", NEW ids, DeleteRobots(ids),
           \A r \in robots : r.id \in ids => r.owner = pass.h,
           UNCHANGED <<nextID, secret, sweepVars>>, PassSecret', PassRobot'
    PROVE  RobotInv' /\ Safe
  <1>1. pass.h \in HarborAccesses /\ HarborOK /\ APIOK
    BY Zenon, Split DEF RobotInv, PassOK, PassNamed
  <1>2. robots' \subseteq robots /\ Touched
    BY Zenon, <1>1 DEF DeleteRobots, Touched
  <1>3. RobotsKept /\ Enabled /\ SecretsKept /\ SecretsSpared
    BY Zenon, <1>1, <1>2, FewerRobots, SameSecrets
  <1> QED BY Zenon, <1>2, <1>3, KeptFollow, PassStepKeeps DEF Safe

LEMMA DeleteListedRobot ==
    ASSUME RobotInv, TypeInv', NEW from \in {"delStale", "delRobots"},
           NEW after \in {"status", "delSecret"}, DeleteListed(from, after)
    PROVE  RobotInv' /\ Safe
  <1>1. PICK id \in pass.todo :
           /\ DeleteRobots({id})
           /\ Answered(IF pass.todo \ {id} = {} THEN after ELSE from,
                       [pass EXCEPT !.todo = pass.todo \ {id}])
    BY Zenon DEF DeleteListed
  <1> DEFINE rest == pass.todo \ {id}
  <1>2. /\ UNCHANGED <<nextID, secret, sweepVars>> /\ pc = from /\ pc # "idle"
    BY Zenon DEF DeleteListed, apiVars
  <1>3. /\ \A i \in pass.todo : i < nextID
        /\ \A r \in robots : r.id \in pass.todo => r.owner = pass.h
    BY Zenon, <1>2 DEF RobotInv, PassRobot
  <1>4. CASE Failed
    BY Zenon, <1>1, <1>2, <1>3, <1>4, FailedDull, DullPass, DeletedByPass
  <1>5. CASE pc' = after
    <2>1. Dull(pc')
      BY Zenon, <1>5 DEF Dull, ReadPCs, StorePCs
    <2> QED BY Zenon, <1>1, <1>2, <1>3, <2>1, DullPass, DeletedByPass
  <1>6. CASE pc' = from /\ pass' = [pass EXCEPT !.todo = rest]
    <2>1. pass'.h = pass.h /\ pass'.todo = rest
      BY Zenon, <1>6, Split DEF RobotInv, PassOK, Pass
    <2>2. \A r \in robots' : r \in robots
      BY Zenon, <1>1 DEF DeleteRobots
    <2>3. PassRobot'
      BY Zenon, <1>2, <1>3, <1>6, <2>1, <2>2 DEF PassRobot, AdoptPCs, HeldPCs
    <2>4. PassSecret'
      BY Zenon, <1>6 DEF PassSecret, ReadPCs
    <2> QED BY Zenon, <1>1, <1>2, <1>3, <2>3, <2>4, DeletedByPass
  <1> QED BY Zenon, <1>1, <1>4, <1>5, <1>6 DEF Answered, Goto

LEMMA revokeRobotRobot ==
    ASSUME RobotInv, TypeInv', revokeRobot
    PROVE  RobotInv' /\ Safe
  <1>1. /\ DeleteRobots({pass.rob.id}) /\ UNCHANGED <<nextID, secret, sweepVars>>
        /\ pc = "revoke"
    BY Zenon DEF revokeRobot, apiVars
  <1>2. Dull(pc')
    BY Zenon, FailedDull DEF revokeRobot, Answered, Goto, Dull, ReadPCs, StorePCs
  <1>3. \A r \in robots : r.id = pass.rob.id => r.owner = pass.h
    BY Zenon, <1>1 DEF RobotInv, PassRobot
  <1> QED BY Zenon, <1>1, <1>2, <1>3, DullPass, DeletedByPass

\* The pass deletes its own Secret.
LEMMA DeleteOwnRobot ==
    ASSUME RobotInv, TypeInv', refuseSecret \/ deleteSecret
    PROVE  RobotInv' /\ Safe
  <1>1. UNCHANGED <<harborVars, sweepVars>> /\ (DeleteOwnSecret \/ UNCHANGED secret)
    BY Zenon DEF refuseSecret, deleteSecret
  <1>2. Dull(pc')
    BY Zenon, FailedDull DEF refuseSecret, deleteSecret, AfterOwnSecret, Answered, Goto, Dull,
                             ReadPCs, StorePCs
  <1>3. HarborOK /\ APIOK
    BY Zenon, Split DEF RobotInv
  <1>4. CASE UNCHANGED secret
    BY Zenon, <1>1, <1>2, <1>4, DullKeeps
  <1>5. CASE /\ secret[pass.h].exists /\ ~secretDeleteConflict(secret[pass.h], pass.ha.sa)
             /\ DeleteSecret(pass.h)
    <2>1. pass.h \in HarborAccesses => secret[pass.h].stamp # "none"
      BY Zenon, <1>5, NoConflict DEF secretDeleteConflict, RobotInv, SecretsStamped
    <2>2. SecretsKept /\ SecretsSpared
      BY Zenon, <1>3, <1>5, <2>1, DeleteSecretKept, DeleteSecretSpared
    <2>3. RobotsKept /\ Enabled /\ Touched
      BY Zenon, <1>1, <1>3, SameRobots
    <2> QED BY Zenon, <1>1, <1>2, <2>2, <2>3, KeptFollow, DullPass, PassStepKeeps DEF Safe
  <1> QED BY Zenon, <1>1, <1>4, <1>5 DEF DeleteOwnSecret

LEMMA suspendLookupRobot ==
    ASSUME RobotInv, TypeInv', suspendLookup
    PROVE  RobotInv' /\ Safe
  <1>1. UNCHANGED <<harborVars, secret, sweepVars>>
    BY Zenon DEF suspendLookup, apiVars
  <1>2. CASE pc' = "refuseStatus"
    BY Zenon, <1>1, <1>2, DullKeeps DEF Dull, ReadPCs, StorePCs
  <1>3. ASSUME NEW r \in robots, r.owner = pass.h, pc' \in {"disable", "revoke"},
               pass' = [pass EXCEPT !.rob = Seen(r)]
        PROVE  RobotInv' /\ Safe
    <2>1. pass \in Pass /\ HarborOK /\ r \in Robot /\ r.id < nextID
      BY Zenon, Split DEF RobotInv, PassOK, HarborOK
    <2>2. pass'.h = pass.h /\ pass'.rob.id = r.id
      BY Zenon, <1>3, <2>1, SeenFields DEF Pass
    <2>3. \A q \in robots : q.id = r.id => q.owner = pass.h
      BY Zenon, <1>3, <2>1 DEF HarborOK
    <2>4. PassRobot'
      BY Zenon, <1>1, <1>3, <2>1, <2>2, <2>3 DEF PassRobot, AdoptPCs, HeldPCs, harborVars
    <2>5. PassSecret'
      BY Zenon, <1>3 DEF PassSecret, ReadPCs
    <2> QED BY Zenon, <1>1, <2>4, <2>5, ReadKeeps
  <1> QED BY Zenon, <1>2, <1>3 DEF suspendLookup, Goto, robotOwnedBy

LEMMA PassStepRobot ==
    ASSUME RobotInv, TypeInv', PassStep \/ CallFails
    PROVE  RobotInv' /\ Safe
  <1>1. CASE listStaleRobots \/ deleteList
    BY Zenon, <1>1, ListRobotsRobot DEF listStaleRobots, deleteList
  <1>2. CASE deleteStaleRobots \/ deleteRobots
    BY Zenon, <1>2, DeleteListedRobot DEF deleteStaleRobots, deleteRobots
  <1>3. CASE resumeRotate \/ rotate
    BY Zenon, <1>3, RotateRobotRobot DEF resumeRotate, rotate
  <1> QED BY ZenonT(30), <1>1, <1>2, <1>3, getRobotSecretRobot, ensureFinalizerRobot,
             lookupRobotRobot, createRobotRobot, dropSecretRobot, resumeEnableRobot,
             convergeRobot, putRobotSecretRobot, rereadSecretRobot, DullSteps,
             DeleteOwnRobot, suspendLookupRobot, disableRobotRobot, revokeRobotRobot
          DEF PassStep

(***************************************************************************)
(* Steps of the sweep.                                                     *)
(***************************************************************************)
LEMMA NothingSwept == SweepDone => SweepRobots' /\ SweepSecrets'
  <1>1. NoSweep.secrets = {} /\ NoSweep.sec.h \notin HarborAccesses
    BY Zenon, BridgeAssumption DEF NoSweep
  <1> QED BY Zenon, <1>1 DEF SweepDone, SweepRobots, SweepSecrets

\* The sweep goes on with less to judge.
LEMMA SweepNarrows ==
    ASSUME RobotInv, TypeInv', RobotsFollow, SecretsKept,
           sweep'.robots \subseteq sweep.robots, sweep'.secrets \subseteq sweep.secrets,
           sweep'.sec \in sweep.secrets \cup {sweep.sec, NoSweep.sec},
           \/ spc \in {"owners", "robots", "delRobot"}
           \/ spc' \notin {"owners", "robots", "delRobot"},
           spc' = "delRobot" => \E k \in sweep.robots : k.id = sweep'.id
    PROVE  SweepRobots' /\ SweepSecrets'
  <1>1. SweepRobots'
    BY Zenon, ListedKept DEF SweepRobots
  <1>2. NoSweep.sec.h \notin HarborAccesses
    BY Zenon, BridgeAssumption DEF NoSweep
  <1>3. SweepSecrets'
    BY Zenon, <1>2, OrphansKept DEF SweepSecrets
  <1> QED BY Zenon, <1>1, <1>3

\* A sweep step that leaves robots and Secrets alone.
LEMMA SweepReadKeeps ==
    ASSUME RobotInv, TypeInv', UNCHANGED <<harborVars, secret, passVars>>,
           SweepRobots', SweepSecrets'
    PROVE  RobotInv' /\ Safe
  <1>1. RobotsKept /\ Enabled /\ Touched /\ SecretsKept /\ SecretsSpared
    BY Zenon, SameRobots, SameSecrets, Split DEF RobotInv
  <1> QED BY Zenon, <1>1, KeptFollow, OutsideKeeps DEF Safe

LEMMA NothingChanged ==
    ASSUME RobotInv, UNCHANGED <<harborVars, secret>>
    PROVE  RobotsFollow /\ RobotsKept /\ SecretsKept
  BY Zenon, SameRobots, SameSecrets, KeptFollow, Split DEF RobotInv

LEMMA sweepListRobotsRobot ==
    ASSUME RobotInv, TypeInv', sweepListRobots
    PROVE  RobotInv' /\ Safe
  <1>1. UNCHANGED <<harborVars, secret, passVars>> /\ spc' = "owners"
    BY Zenon DEF sweepListRobots, SweepOn, apiVars
  <1>2. NoSweep.robots = {} /\ NoSweep.secrets = {} /\ NoSweep.sec.h \notin HarborAccesses
    BY Zenon, BridgeAssumption DEF NoSweep
  <1>3. sweep'.robots \subseteq Candidates /\ sweep'.secrets = {} /\ sweep'.sec = NoSweep.sec
    <2>1. CASE sweep' = [NoSweep EXCEPT !.listed = TRUE, !.robots = Candidates,
                                        !.since = spent.edits]
      BY Zenon, <1>2, <2>1, NoSweepType DEF Sweep
    <2>2. CASE sweep' = [NoSweep EXCEPT !.since = spent.edits]
      BY Zenon, <1>2, <2>2, NoSweepType DEF Sweep
    <2> QED BY Zenon, <2>1, <2>2 DEF sweepListRobots, SweepOn
  <1>4. ASSUME NEW k \in Candidates
        PROVE  k.id < nextID /\ \A r \in robots : r.id = k.id => r.owner = k.owner
    <2>1. PICK q \in robots : k = [id |-> q.id, name |-> q.name, owner |-> q.owner]
      BY Zenon, <1>4 DEF Candidates
    <2>2. k.id = q.id /\ k.owner = q.owner
      BY Zenon, <2>1
    <2> QED BY Zenon, <2>2, Split DEF RobotInv, HarborOK
  <1>5. SweepRobots'
    BY Zenon, <1>1, <1>3, <1>4 DEF SweepRobots, harborVars
  <1>6. SweepSecrets'
    BY Zenon, <1>2, <1>3 DEF SweepSecrets
  <1> QED BY Zenon, <1>1, <1>5, <1>6, SweepReadKeeps

LEMMA listOwnersRobot ==
    ASSUME RobotInv, TypeInv', listOwners
    PROVE  RobotInv' /\ Safe
  <1> DEFINE robs == {r \in sweep.robots : robotVerdict(r, liveOwner(r.owner))}
             secs == {k \in listRobotSecrets : secretVerdict(k.stamp, liveOwner(k.h))}
             own == {[h |-> h, ver |-> liveOwner(h).ver] :
                       h \in {k \in HarborAccesses : Releasable(liveOwner(k))}}
             s == [sweep EXCEPT !.robots = robs, !.secrets = secs, !.owners = own]
  <1>1. UNCHANGED <<harborVars, secret, passVars>> /\ spc = "owners"
    BY Zenon DEF listOwners, apiVars
  <1>2. CASE SweepDone
    BY Zenon, <1>1, <1>2, NothingSwept, SweepReadKeeps
  <1>3. CASE spc' = AfterRobot(s) /\ sweep' = s
    <2>1. sweep \in Sweep /\ APIOK
      BY Zenon, Split DEF RobotInv, SweepOK
    <2>2. sweep'.robots = robs /\ sweep'.secrets = secs /\ sweep'.sec = sweep.sec
      BY Zenon, <1>3, <2>1 DEF Sweep
    <2>3. spc' # "delRobot"
      BY Zenon, <1>3 DEF AfterRobot, AfterRobots, AfterSecrets
    <2>4. RobotsFollow /\ SecretsKept
      BY Zenon, <1>1, NothingChanged
    <2>5. SweepRobots'
      BY Zenon, <1>1, <2>2, <2>3, <2>4, ListedKept DEF SweepRobots
    <2>6. ASSUME NEW k \in secs
          PROVE  k.h \in HarborAccesses => Deletable(k.uid, secret[k.h])
      <3>1. PICK h \in HarborAccesses :
               /\ secret[h].exists /\ secret[h].stamp \in {"this", "other"}
               /\ k = [h |-> h, uid |-> secret[h].uid, stamp |-> secret[h].stamp]
        BY Zenon, <2>6 DEF listRobotSecrets
      <3>2. k.h = h /\ k.uid = secret[h].uid /\ secret[h].uid \in Nat
        BY Zenon, <2>1, <3>1 DEF APIOK, Secret
      <3>3. k.uid <= secret[h].uid
        BY <3>2
      <3> QED BY Zenon, <3>1, <3>2, <3>3 DEF Deletable
    <2>7. SweepSecrets'
      BY Zenon, <1>1, <2>2, <2>6 DEF RobotInv, SweepSecrets
    <2> QED BY Zenon, <1>1, <2>5, <2>7, SweepReadKeeps
  <1> HIDE DEF s
  <1> QED BY Zenon, <1>2, <1>3 DEF listOwners, Continue, SweepOn, s

LEMMA recheckRobotRobot ==
    ASSUME RobotInv, TypeInv', recheckRobot
    PROVE  RobotInv' /\ Safe
  <1>1. UNCHANGED <<harborVars, secret, passVars>> /\ spc = "robots" /\ sweep \in Sweep
    BY Zenon, Split DEF recheckRobot, apiVars, RobotInv, SweepOK
  <1>2. CASE SweepDone
    BY Zenon, <1>1, <1>2, NothingSwept, SweepReadKeeps
  <1>3. ASSUME NEW k \in sweep.robots,
               LET s == [sweep EXCEPT !.robots = @ \ {k}] IN
               \/ spc' = "delRobot" /\ sweep' = [s EXCEPT !.id = k.id]
               \/ spc' = AfterRobot(s) /\ sweep' = s
        PROVE  RobotInv' /\ Safe
    <2> DEFINE s == [sweep EXCEPT !.robots = @ \ {k}]
    <2>1. /\ s \in Sweep /\ s.robots = sweep.robots \ {k} /\ s.secrets = sweep.secrets
          /\ s.sec = sweep.sec
      BY Zenon, <1>1 DEF Sweep
    <2>2. AfterRobot(s) # "delRobot"
      BY Zenon DEF AfterRobot, AfterRobots, AfterSecrets
    <2> HIDE DEF s
    <2>3. /\ sweep'.robots \subseteq sweep.robots /\ sweep'.secrets \subseteq sweep.secrets
          /\ sweep'.sec = sweep.sec /\ (spc' = "delRobot" => sweep'.id = k.id)
      <3>1. CASE spc' = "delRobot" /\ sweep' = [s EXCEPT !.id = k.id]
        BY Zenon, <2>1, <3>1 DEF Sweep
      <3>2. CASE spc' = AfterRobot(s) /\ sweep' = s
        BY Zenon, <2>1, <2>2, <3>2
      <3> QED BY Zenon, <1>3, <3>1, <3>2 DEF s
    <2>4. SweepRobots' /\ SweepSecrets'
      BY Zenon, <1>1, <2>3, NothingChanged, SweepNarrows
    <2> QED BY Zenon, <1>1, <2>4, SweepReadKeeps
  <1> QED BY Zenon, <1>2, <1>3 DEF recheckRobot, Continue, SweepOn

\* The janitor deletes a robot that has an owner.
LEMMA deleteRobotRobot ==
    ASSUME RobotInv, TypeInv', deleteRobot
    PROVE  RobotInv' /\ Safe
  <1> DEFINE s == [sweep EXCEPT !.id = 0]
  <1>1. /\ UNCHANGED <<nextID, secret, passVars>> /\ spc = "delRobot"
        /\ sweep \in Sweep /\ HarborOK /\ APIOK
    BY Zenon, Split DEF deleteRobot, apiVars, RobotInv, SweepOK
  <1>2. robots' \subseteq robots /\ \A r \in robots : r.id # sweep.id => r \in robots'
    BY Zenon DEF deleteRobot, DeleteRobots
  <1>3. \A r \in robots : r.id = sweep.id => r.owner \in HarborAccesses
    BY Zenon, <1>1 DEF RobotInv, SweepRobots
  <1>4. RobotsKept /\ Enabled /\ SecretsKept /\ SecretsSpared
    BY Zenon, <1>1, <1>2, FewerRobots, SameSecrets
  <1>5. Touched
    BY Zenon, <1>1, <1>2, <1>3 DEF Touched
  <1>6. SweepRobots' /\ SweepSecrets'
    <2>1. CASE SweepDone
      BY Zenon, <2>1, NothingSwept
    <2>2. CASE spc' = AfterRobot(s) /\ sweep' = s
      <3>1. /\ sweep'.robots = sweep.robots /\ sweep'.secrets = sweep.secrets
            /\ sweep'.sec = sweep.sec
        BY Zenon, <1>1, <2>2 DEF Sweep
      <3>2. spc' # "delRobot"
        BY Zenon, <2>2 DEF AfterRobot, AfterRobots, AfterSecrets
      <3> QED BY Zenon, <1>1, <1>4, <3>1, <3>2, KeptFollow, SweepNarrows
    <2> QED BY Zenon, <2>1, <2>2 DEF deleteRobot, Continue, SweepOn
  <1> QED BY Zenon, <1>1, <1>4, <1>5, <1>6, KeptFollow, OutsideKeeps DEF Safe

LEMMA recheckSecretRobot ==
    ASSUME RobotInv, TypeInv', recheckSecret
    PROVE  RobotInv' /\ Safe
  <1>1. UNCHANGED <<harborVars, secret, passVars>> /\ sweep \in Sweep
    BY Zenon, Split DEF recheckSecret, apiVars, RobotInv, SweepOK
  <1>2. CASE SweepDone
    BY Zenon, <1>1, <1>2, NothingSwept, SweepReadKeeps
  <1>3. ASSUME NEW k \in sweep.secrets,
               LET s == [sweep EXCEPT !.secrets = @ \ {k}] IN
               \/ spc' = "delSecret" /\ sweep' = [s EXCEPT !.sec = k]
               \/ spc' = AfterRobots(s) /\ sweep' = s
        PROVE  RobotInv' /\ Safe
    <2> DEFINE s == [sweep EXCEPT !.secrets = @ \ {k}]
    <2>1. /\ s \in Sweep /\ s.robots = sweep.robots /\ s.secrets = sweep.secrets \ {k}
          /\ s.sec = sweep.sec
      BY Zenon, <1>1 DEF Sweep
    <2>2. AfterRobots(s) \notin {"owners", "robots", "delRobot"}
      BY Zenon DEF AfterRobots, AfterSecrets
    <2> HIDE DEF s
    <2>3. /\ sweep'.robots \subseteq sweep.robots /\ sweep'.secrets \subseteq sweep.secrets
          /\ sweep'.sec \in {sweep.sec, k} /\ spc' \notin {"owners", "robots", "delRobot"}
      <3>1. CASE spc' = "delSecret" /\ sweep' = [s EXCEPT !.sec = k]
        BY Zenon, <2>1, <3>1 DEF Sweep
      <3>2. CASE spc' = AfterRobots(s) /\ sweep' = s
        BY Zenon, <2>1, <2>2, <3>2
      <3> QED BY Zenon, <1>3, <3>1, <3>2 DEF s
    <2>4. SweepRobots' /\ SweepSecrets'
      BY Zenon, <1>1, <2>3, NothingChanged, SweepNarrows
    <2> QED BY Zenon, <1>1, <2>4, SweepReadKeeps
  <1> QED BY Zenon, <1>2, <1>3 DEF recheckSecret, Continue, SweepOn

LEMMA deleteOrphanSecretRobot ==
    ASSUME RobotInv, TypeInv', deleteOrphanSecret
    PROVE  RobotInv' /\ Safe
  <1> DEFINE k == sweep.sec
             s == [sweep EXCEPT !.sec = NoSweep.sec]
  <1>1. /\ UNCHANGED <<harborVars, passVars>> /\ sweep \in Sweep /\ HarborOK /\ APIOK
    BY Zenon, Split DEF deleteOrphanSecret, RobotInv, SweepOK
  <1>2. SecretsKept /\ SecretsSpared
    <2>1. CASE UNCHANGED secret
      BY Zenon, <1>1, <2>1, SameSecrets
    <2>2. CASE secret[k.h].exists /\ secret[k.h].uid = k.uid /\ DeleteSecret(k.h)
      <3>1. k.h \in HarborAccesses => secret[k.h].stamp # "none"
        BY Zenon, <2>2 DEF RobotInv, SweepSecrets, Deletable
      <3> QED BY Zenon, <1>1, <2>2, <3>1, DeleteSecretKept, DeleteSecretSpared
    <2> QED BY Zenon, <2>1, <2>2 DEF deleteOrphanSecret
  <1>3. RobotsKept /\ Enabled /\ Touched
    BY Zenon, <1>1, SameRobots
  <1>4. SweepRobots' /\ SweepSecrets'
    <2>1. CASE SweepDone
      BY Zenon, <2>1, NothingSwept
    <2>2. CASE spc' = AfterRobots(s) /\ sweep' = s
      <3>1. /\ sweep'.robots = sweep.robots /\ sweep'.secrets = sweep.secrets
            /\ sweep'.sec = NoSweep.sec
        BY Zenon, <1>1, <2>2 DEF Sweep
      <3>2. spc' \notin {"owners", "robots", "delRobot"}
        BY Zenon, <2>2 DEF AfterRobots, AfterSecrets
      <3> QED BY Zenon, <1>2, <1>3, <3>1, <3>2, KeptFollow, SweepNarrows
    <2> QED BY Zenon, <2>1, <2>2 DEF deleteOrphanSecret, Continue, SweepOn
  <1> QED BY Zenon, <1>1, <1>2, <1>3, <1>4, KeptFollow, OutsideKeeps DEF Safe

\* The release of owners the bridge no longer selects.
LEMMA ReleaseRobot ==
    ASSUME RobotInv, TypeInv', relistRobots \/ releaseUnselected
    PROVE  RobotInv' /\ Safe
  <1>1. UNCHANGED <<harborVars, secret, passVars>> /\ sweep \in Sweep
    BY Zenon, Split DEF relistRobots, releaseUnselected, apiVars, RobotInv, SweepOK
  <1>2. CASE SweepDone
    BY Zenon, <1>1, <1>2, NothingSwept, SweepReadKeeps
  <1>3. ASSUME NEW x, spc' = "release", sweep' = [sweep EXCEPT !.owners = x]
        PROVE  RobotInv' /\ Safe
    <2>1. /\ sweep'.robots = sweep.robots /\ sweep'.secrets = sweep.secrets
          /\ sweep'.sec = sweep.sec
      BY Zenon, <1>1, <1>3 DEF Sweep
    <2>2. SweepRobots' /\ SweepSecrets'
      BY Zenon, <1>1, <1>3, <2>1, NothingChanged, SweepNarrows
    <2> QED BY Zenon, <1>1, <2>2, SweepReadKeeps
  <1>4. CASE relistRobots
    <2> DEFINE x == {k \in sweep.owners : Owned(k.h) = {}}
               s == [sweep EXCEPT !.owners = x]
    <2>1. SweepDone \/ (spc' = "release" /\ sweep' = s)
      BY Zenon, <1>4 DEF relistRobots, Continue, SweepOn
    <2> QED BY Zenon, <1>2, <1>3, <2>1
  <1>5. CASE releaseUnselected
    <2>1. PICK k \in sweep.owners :
             LET s == [sweep EXCEPT !.owners = @ \ {k}] IN
             Continue(IF s.owners # {} THEN "release" ELSE "idle", s)
      BY Zenon, <1>5 DEF releaseUnselected
    <2>2. SweepDone \/ (spc' = "release" /\ sweep' = [sweep EXCEPT !.owners = sweep.owners \ {k}])
      BY Zenon, <2>1 DEF Continue, SweepOn
    <2> QED BY Zenon, <1>2, <1>3, <2>2
  <1> QED BY Zenon, <1>4, <1>5

(***************************************************************************)
(* Users, administrators, time and crashes.                                *)
(***************************************************************************)
LEMMA QuietKeeps ==
    ASSUME RobotInv, TypeInv', UNCHANGED <<harborVars, secret, passVars, sweepVars>>
    PROVE  RobotInv' /\ Safe
  BY Zenon, NothingChanged, SweepRobotsKept, SweepSecretsKept, SweepReadKeeps

LEMMA PromisePassesRobot ==
    ASSUME RobotInv, TypeInv', NEW h \in HarborAccesses, PromisePasses(h)
    PROVE  RobotInv' /\ Safe
  <1> DEFINE t == [secret[h] EXCEPT !.due = TRUE]
  <1>1. HarborOK /\ APIOK /\ UNCHANGED <<harborVars, passVars, sweepVars>>
    BY Zenon, Split DEF RobotInv, PromisePasses
  <1>2. secret' = [secret EXCEPT ![h] = t]
    BY Zenon DEF PromisePasses
  <1>3. /\ secret[h] \in Secret /\ t.exists = secret[h].exists /\ t.ver = secret[h].ver
        /\ t.uid = secret[h].uid /\ t.stamp = secret[h].stamp /\ t.user = secret[h].user
        /\ t.rid = secret[h].rid /\ t.pw = secret[h].pw /\ t.due
    BY Zenon, <1>1 DEF APIOK, Secret
  <1>4. secret'[h] = t /\ \A k \in HarborAccesses : k # h => secret'[k] = secret[k]
    BY Zenon, <1>1, <1>2 DEF APIOK
  <1>5. SecretsSpared
    BY Zenon, <1>4 DEF SecretsSpared
  <1> HIDE DEF t
  <1>6. \A k \in HarborAccesses : secret[k].ver \in Nat /\ secret[k].uid \in Nat
    BY Zenon, <1>1 DEF APIOK, Secret
  <1>7. SecretsKept
    BY <1>3, <1>4, <1>6 DEF SecretsKept, KeptSecret
  <1>8. RobotsKept /\ Enabled /\ Touched
    BY Zenon, <1>1, SameRobots
  <1> QED BY ZenonT(30), <1>1, <1>5, <1>7, <1>8, KeptFollow, SweepRobotsKept, SweepSecretsKept,
             OutsideKeeps DEF Safe

LEMMA SpentByAdmin ==
    ASSUME SpentOK, NEW act, ByAdmin(act)
    PROVE  ByAdministrator /\ act \in Admin
  BY DEF SpentOK, ByAdmin, Spend, ByAdministrator

\* An administrator's change, which nothing is said about.
LEMMA AdminKeeps ==
    ASSUME RobotInv, TypeInv', ByAdministrator, RobotsKept, SecretsKept,
           UNCHANGED <<passVars, sweepVars>>
    PROVE  RobotInv' /\ Safe
  <1>1. Enabled /\ Touched /\ SecretsSpared
    BY Zenon DEF Enabled, Touched, SecretsSpared
  <1> QED BY Zenon, <1>1, KeptFollow, SweepRobotsKept, SweepSecretsKept, OutsideKeeps DEF Safe

LEMMA AdminRobotRobot ==
    ASSUME RobotInv, TypeInv', AdminRobot
    PROVE  RobotInv' /\ Safe
  <1>1. /\ UNCHANGED <<nextID, secret, passVars, sweepVars>> /\ HarborOK /\ APIOK /\ SpentOK
    BY Zenon, Split DEF RobotInv, AdminRobot, apiVars
  <1>2. ByAdministrator
    BY Zenon, <1>1, SpentByAdmin DEF AdminRobot
  <1>3. RobotsKept
    <2>1. ASSUME NEW r \in robots, NEW new, RobotAsOf(r, new), Kept(new, r)
          PROVE  RobotsKept
      BY Zenon, <1>1, <2>1 DEF RobotAsOf, RobotsKept, IDsGrow, Kept
    <2>2. ASSUME NEW ids, DeleteRobots(ids)
          PROVE  RobotsKept
      BY Zenon, <1>1, <2>2, FewerRobots DEF DeleteRobots
    <2>3. ASSUME NEW r \in robots
          PROVE  /\ "disable" \in Admin => Kept([r EXCEPT !.disabled = TRUE, !.adminOff = TRUE], r)
                 /\ Kept([r EXCEPT !.disabled = FALSE, !.adminOff = FALSE], r)
                 /\ Kept([r EXCEPT !.perms = Star], r)
      <3>1. r \in Robot
        BY Zenon, <1>1 DEF HarborOK
      <3> QED BY Zenon, <3>1 DEF Kept, Robot
    <2> QED BY Zenon, <1>1, <2>1, <2>2, <2>3 DEF AdminRobot, ByAdmin
  <1>4. SecretsKept
    BY Zenon, <1>1, SameSecrets
  <1> QED BY Zenon, <1>1, <1>2, <1>3, <1>4, AdminKeeps

LEMMA PlantRobotRobot ==
    ASSUME RobotInv, TypeInv', PlantRobot
    PROVE  RobotInv' /\ Safe
  <1>1. /\ UNCHANGED <<secret, passVars, sweepVars>> /\ APIOK /\ SpentOK
    BY Zenon, Split DEF RobotInv, PlantRobot, apiVars
  <1>2. PICK n \in RobotNames, o \in {Foreign, Unclaimed} :
           robots' = robots \cup {[NoRobot EXCEPT !.id = nextID, !.name = n, !.owner = o,
                                                  !.pw = nextID]}
    BY Zenon DEF PlantRobot
  <1>3. [NoRobot EXCEPT !.id = nextID, !.name = n, !.owner = o, !.pw = nextID].id = nextID
    BY Zenon, Defaults DEF Robot
  <1>4. RobotsKept
    BY Zenon, <1>2, <1>3, AddedRobot DEF RobotInv, PlantRobot
  <1>5. SecretsKept /\ ByAdministrator
    BY Zenon, <1>1, SameSecrets, SpentByAdmin DEF PlantRobot
  <1> QED BY Zenon, <1>1, <1>4, <1>5, AdminKeeps

LEMMA AdminSecretRobot ==
    ASSUME RobotInv, TypeInv', AdminSecret
    PROVE  RobotInv' /\ Safe
  <1>1. /\ UNCHANGED <<harborVars, passVars, sweepVars>> /\ HarborOK /\ APIOK /\ SpentOK
    BY Zenon, Split DEF RobotInv, AdminSecret
  <1>2. ByAdministrator /\ RobotsKept
    BY Zenon, <1>1, SpentByAdmin, SameRobots DEF AdminSecret
  <1>3. SecretsKept
    <2>1. ASSUME NEW h \in HarborAccesses, DeleteSecret(h) PROVE SecretsKept
      BY Zenon, <1>1, <2>1, DeleteSecretKept
    <2>2. ASSUME NEW h \in HarborAccesses, NEW st \in {"peer", "other", "none"},
                 secret' = [secret EXCEPT ![h] =
                    [NoSecret(@.ver + 1, @.uid + 1) EXCEPT !.exists = TRUE, !.stamp = st]]
          PROVE  SecretsKept
      <3> DEFINE n == NoSecret(secret[h].ver + 1, secret[h].uid + 1)
                 t == [n EXCEPT !.exists = TRUE, !.stamp = st]
      <3>1. \A k \in HarborAccesses : secret[k].ver \in Nat /\ secret[k].uid \in Nat
        BY Zenon, <1>1 DEF APIOK, Secret
      <3>2. n \in Secret
        <4>1. secret[h].ver + 1 \in Nat /\ secret[h].uid + 1 \in Nat
          BY <3>1
        <4> QED BY Zenon, <4>1, Defaults
      <3>3. n.ver = secret[h].ver + 1 /\ n.uid = secret[h].uid + 1 /\ n.user = NoName
        BY Zenon DEF NoSecret
      <3> HIDE DEF n
      <3>4. t.ver = n.ver /\ t.uid = n.uid /\ t.user = n.user /\ t.stamp = st
        BY Zenon, <3>2 DEF Secret
      <3>5. secret'[h] = t /\ \A k \in HarborAccesses : k # h => secret'[k] = secret[k]
        BY Zenon, <1>1, <2>2 DEF APIOK, n
      <3> HIDE DEF t
      <3>6. KeptSecret(t, secret[h])
        BY <3>1, <3>3, <3>4 DEF KeptSecret
      <3>7. ASSUME NEW k \in HarborAccesses, k # h PROVE KeptSecret(secret'[k], secret[k])
        BY <3>1, <3>5, <3>7 DEF KeptSecret
      <3> QED BY Zenon, <3>5, <3>6, <3>7 DEF SecretsKept
    <2> QED BY Zenon, <2>1, <2>2 DEF AdminSecret
  <1> QED BY Zenon, <1>1, <1>2, <1>3, AdminKeeps

\* A new leader starts with no pass and no sweep.
LEMMA TakeoverRobot ==
    ASSUME RobotInv, TypeInv', NEW r \in Replicas, Takeover(r)
    PROVE  RobotInv' /\ Safe
  <1>1. UNCHANGED <<harborVars, secret>> /\ Done /\ SweepDone
    BY Zenon DEF Takeover, apiVars
  <1>2. RobotsKept /\ Enabled /\ Touched /\ SecretsKept /\ SecretsSpared
    BY Zenon, <1>1, SameRobots, SameSecrets, Split DEF RobotInv
  <1>3. PassSecret' /\ PassRobot' /\ SweepRobots' /\ SweepSecrets'
    BY Zenon, <1>1, DoneDull, DullPass, NothingSwept
  <1>4. SecretsStamped' /\ (\A q \in robots' : q.id # 0) /\ DeadPasswordIsDue'
    BY Zenon, <1>2, KeptFollow, StampsKept, PasswordsDue
  <1> QED BY Zenon, <1>2, <1>3, <1>4, KeptFollow DEF RobotInv, Safe

LEMMA NextRobot ==
    ASSUME RobotInv, TypeInv', Next
    PROVE  RobotInv' /\ Safe
  <1>1. CASE Bridge
    <2>1. CASE SweepStep
      BY ZenonT(30), <2>1, listOwnersRobot, recheckRobotRobot, deleteRobotRobot, recheckSecretRobot,
         deleteOrphanSecretRobot, ReleaseRobot DEF SweepStep
    <2> QED BY Zenon, <1>1, <2>1, ReconcileRobot, PassStepRobot, sweepListRobotsRobot DEF Bridge
  <1>2. CASE Environment
    <2>1. ASSUME \/ ReleaseByHand
                 \/ \E h \in HarborAccesses :
                       \/ CreateHA(h) \/ EditSpec(h) \/ Relabel(h) \/ DeleteHA(h)
                       \/ \E r \in Replicas : SyncCache(r, h)
          PROVE  RobotInv' /\ Safe
      <3>1. UNCHANGED <<harborVars, secret, passVars, sweepVars>>
        BY Zenon, <2>1 DEF CreateHA, EditSpec, Relabel, DeleteHA, ReleaseByHand, SyncCache,
                           UserVars, apiVars
      <3> QED BY Zenon, <3>1, QuietKeeps
    <2> QED BY ZenonT(30), <1>2, <2>1, PromisePassesRobot, AdminRobotRobot, PlantRobotRobot,
               AdminSecretRobot, TakeoverRobot DEF Environment
  <1> QED BY Zenon, <1>1, <1>2 DEF Next

LEMMA StepRobot ==
    ASSUME RobotInv, [Next]_vars
    PROVE  RobotInv' /\ (Safe \/ UNCHANGED vars)
  <1>1. TypeInv'
    BY Zenon, NextType DEF RobotInv
  <1>2. CASE UNCHANGED vars
    <2>1. UNCHANGED <<harborVars, secret, passVars, sweepVars>>
      BY Zenon, <1>2 DEF vars, harborVars, passVars, sweepVars
    <2> QED BY Zenon, <1>1, <1>2, <2>1, QuietKeeps
  <1> QED BY Zenon, <1>1, <1>2, NextRobot

LEMMA InitRobot == Init => RobotInv
  <1> SUFFICES ASSUME Init PROVE RobotInv
    OBVIOUS
  <1>1. /\ robots = {} /\ pc = "idle" /\ spc = "idle" /\ sweep = NoSweep
        /\ secret = [h \in HarborAccesses |-> NoSecret(0, 0)]
    BY Zenon DEF Init
  <1>2. \A h \in HarborAccesses : ~secret[h].exists
    BY Zenon, <1>1 DEF NoSecret
  <1>3. SecretsStamped /\ DeadPasswordIsDue
    BY Zenon, <1>1, <1>2 DEF SecretsStamped, Stamped, Ours, DeadPasswordIsDue
  <1>4. PassSecret /\ PassRobot
    BY Zenon, <1>1 DEF PassSecret, PassRobot, ReadPCs, AdoptPCs, HeldPCs
  <1>5. NoSweep.secrets = {} /\ NoSweep.sec.h \notin HarborAccesses
    BY Zenon, BridgeAssumption DEF NoSweep
  <1>6. SweepRobots /\ SweepSecrets
    BY Zenon, <1>1, <1>5 DEF SweepRobots, SweepSecrets
  <1> QED BY Zenon, <1>1, <1>3, <1>4, <1>6, InitType DEF RobotInv

(***************************************************************************)
(* The theorems.                                                           *)
(***************************************************************************)
\* In every instance, a robot Secret whose password Harbor no longer accepts
\* carries a reason to rotate: RefreshSecret only replaces the password of a
\* robot whose Secret has one, in the version the pass read and since.
THEOREM DeadPasswords == Spec => []DeadPasswordIsDue
  <1>1. RobotInv /\ [Next]_vars => RobotInv'
    BY Zenon, StepRobot
  <1>2. RobotInv => DeadPasswordIsDue
    BY Zenon DEF RobotInv
  <1> QED BY <1>1, <1>2, InitRobot, PTL DEF Spec

\* In every instance, a robot keeps the first HarborAccess that owned it, and
\* goes only by a pass for it, by the janitor or by an administrator.
THEOREM OwnersKeepRobots == Spec => FirstOwnerKeepsRobot
  <1>1. RobotInv /\ [Next]_vars => RobotInv' /\ [OwnersStay]_vars
    <2> SUFFICES ASSUME RobotInv, [Next]_vars
                 PROVE  RobotInv' /\ [OwnersStay]_vars
      OBVIOUS
    <2>1. RobotInv' /\ (Safe \/ UNCHANGED vars)
      BY Zenon, StepRobot
    <2>2. ASSUME Safe, NEW r \in robots, r.owner \in HarborAccesses
          PROVE  /\ \A s \in Same(r) : s.owner = r.owner
                 /\ Same(r) = {} => pass.h = r.owner \/ spc = "delRobot" \/ ByAdministrator
      <3>1. HarborOK
        BY Zenon, Split DEF RobotInv
      <3>2. ASSUME NEW s \in Same(r) PROVE s.owner = r.owner
        <4>1. s \in robots' /\ s.id = r.id /\ r.id < nextID
          BY Zenon, <3>1, <3>2 DEF Same, HarborOK
        <4>2. PICK q \in robots : Follows(s, q)
          BY Zenon, <2>2, <4>1 DEF Safe, RobotsFollow
        <4>3. q = r
          BY Zenon, <3>1, <4>1, <4>2 DEF HarborOK, Follows
        <4> QED BY Zenon, <2>2, <4>2, <4>3, BridgeAssumption DEF Follows
      <3>3. r \in robots' => Same(r) # {}
        BY Zenon DEF Same
      <3> QED BY Zenon, <2>2, <3>2, <3>3, BridgeAssumption DEF Safe, Touched
    <2> QED BY Zenon, <2>1, <2>2 DEF OwnersStay
  <1> QED BY <1>1, InitRobot, PTL DEF Spec, FirstOwnerKeepsRobot

\* In every instance, the bridge leaves robots and Secrets of others alone.
THEOREM ForeignSpared == Spec => ForeignLeftAlone
  <1>1. RobotInv /\ [Next]_vars => RobotInv' /\ [ForeignStays]_vars
    <2> SUFFICES ASSUME RobotInv, [Next]_vars
                 PROVE  RobotInv' /\ [ForeignStays]_vars
      OBVIOUS
    <2>1. RobotInv' /\ (Safe \/ UNCHANGED vars)
      BY Zenon, StepRobot
    <2>2. Safe => ForeignStays
      BY Zenon, BridgeAssumption DEF Safe, Touched, SecretsSpared, ForeignStays
    <2> QED BY Zenon, <2>1, <2>2
  <1> QED BY <1>1, InitRobot, PTL DEF Spec, ForeignLeftAlone

\* Where no administrator disables robots by hand, the bridge never enables a
\* robot whose password is from before a suspension.  (Where one does, the
\* Update of step 7 carries the flag of the lookup and may undo that.)
THEOREM ResumesRotate ==
    ASSUME "disable" \notin Admin
    PROVE  Spec => ResumeNeedsNewPassword
  <1>1. RobotInv /\ [Next]_vars => RobotInv' /\ [ResumesRotated]_vars
    <2> SUFFICES ASSUME RobotInv, [Next]_vars
                 PROVE  RobotInv' /\ [ResumesRotated]_vars
      OBVIOUS
    <2>1. RobotInv' /\ (Safe \/ UNCHANGED vars)
      BY Zenon, StepRobot
    <2>2. ASSUME NEW r \in robots, pc = "converge", r.id = pass.rob.id, r.disabled
          PROVE  pass.rob.disabled
      BY Zenon, <2>2, Holding DEF Known, AdoptPCs
    <2>3. Safe => ResumesRotated
      BY Zenon, <2>2 DEF Safe, Enabled, ResumesRotated
    <2> QED BY Zenon, <2>1, <2>3
  <1> QED BY <1>1, InitRobot, PTL DEF Spec, ResumeNeedsNewPassword

=============================================================================
