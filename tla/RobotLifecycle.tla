--------------------------- MODULE RobotLifecycle ---------------------------
(***************************************************************************)
(* The control plane at work: the Reconciler and the Janitor on the        *)
(* leader, informer caches that lag, users who edit HarborAccess objects,  *)
(* administrators who change robots and Secrets behind the bridge's back,  *)
(* rotation schedules that come due, failing calls and crashes.            *)
(***************************************************************************)
EXTENDS Reconciler, Janitor

AdminActs == {"disable", "enable", "delete", "regrant", "plantRobot",
              "dropSecret", "plantSecret", "release"}

ASSUME AdminAssumption == Admin \subseteq AdminActs

(***************************************************************************)
(* Users.                                                                  *)
(***************************************************************************)
UserVars == <<secret, harborVars, cache, leader, passVars, sweepVars>>

Specs == [sa: ServiceAccounts \cup {NoName}, ok: BOOLEAN, perms: Grants]

WithSpec(a, s) == [a EXCEPT !.sa = s.sa, !.ok = s.ok, !.perms = s.perms, !.observed = FALSE]

CreateHA(h) ==
    /\ ~ha[h].exists
    /\ Spend("edits", MaxEdits)
    /\ \E s \in Specs :
          ha' = [ha EXCEPT ![h] =
                   WithSpec([Absent(ha[h].ver + 1) EXCEPT !.exists = TRUE, !.sel = TRUE], s)]
    /\ UNCHANGED UserVars

EditSpec(h) ==
    /\ ha[h].exists
    /\ Spend("edits", MaxEdits)
    /\ \E s \in Specs :
          /\ s # [sa |-> ha[h].sa, ok |-> ha[h].ok, perms |-> ha[h].perms]
          /\ ha' = [ha EXCEPT ![h] = Bumped(WithSpec(@, s), h)]
    /\ UNCHANGED UserVars

Relabel(h) ==
    /\ Selective /\ ha[h].exists
    /\ Spend("edits", MaxEdits)
    /\ ha' = [ha EXCEPT ![h] = Bumped([@ EXCEPT !.sel = ~ha[h].sel], h)]
    /\ UNCHANGED UserVars

\* The API server keeps a deleted object while it holds a finalizer.
DeleteHA(h) ==
    /\ ha[h].exists /\ ~ha[h].del
    /\ Spend("edits", MaxEdits)
    /\ ha' = [ha EXCEPT ![h] =
                IF ha[h].fin THEN Bumped([@ EXCEPT !.del = TRUE], h)
                ELSE Absent(ha[h].ver + 1)]
    /\ UNCHANGED UserVars

(***************************************************************************)
(* Administrators of Harbor and of the bridge namespace.                   *)
(***************************************************************************)
ByAdmin(act) == act \in Admin /\ Spend("admin", MaxAdmin)

RobotAsOf(r, new) == robots' = (robots \ {r}) \cup {new}

AdminRobot ==
    /\ \E r \in robots :
          \/ /\ ByAdmin("disable") /\ ~r.disabled
             /\ RobotAsOf(r, [r EXCEPT !.disabled = TRUE, !.adminOff = TRUE])
          \/ /\ ByAdmin("enable") /\ r.disabled
             /\ RobotAsOf(r, [r EXCEPT !.disabled = FALSE, !.adminOff = FALSE])
          \/ /\ ByAdmin("delete") /\ DeleteRobots({r.id})
          \/ /\ ByAdmin("regrant") /\ RobotAsOf(r, [r EXCEPT !.perms = Star])
    /\ UNCHANGED <<nextID, apiVars, cache, leader, passVars, sweepVars>>

\* A hand-made robot at a name of ours, with or without our cluster tag.
PlantRobot ==
    /\ ByAdmin("plantRobot") /\ nextID <= MaxRobots
    /\ \E n \in RobotNames, o \in {Foreign, Unclaimed} :
          /\ \A r \in robots : r.name # n
          /\ robots' = robots \cup {[NoRobot EXCEPT !.id = nextID, !.name = n, !.owner = o, !.pw = nextID]}
    /\ nextID' = nextID + 1
    /\ UNCHANGED <<apiVars, cache, leader, passVars, sweepVars>>

AdminSecret ==
    /\ \E h \in HarborAccesses :
          \/ ByAdmin("dropSecret") /\ secret[h].exists /\ DeleteSecret(h)
          \/ /\ ByAdmin("plantSecret") /\ ~secret[h].exists
             /\ \E st \in {"peer", "other", "none"} :
                   secret' = [secret EXCEPT ![h] =
                      [NoSecret(@.ver + 1, @.uid + 1) EXCEPT !.exists = TRUE, !.stamp = st]]
    /\ UNCHANGED <<ha, harborVars, cache, leader, passVars, sweepVars>>

ReleaseByHand ==
    /\ ByAdmin("release")
    /\ \E h \in HarborAccesses :
          /\ ha[h].exists /\ ha[h].fin
          /\ ha' = [ha EXCEPT ![h] = WithoutFinalizer(h)]
    /\ UNCHANGED UserVars

(***************************************************************************)
(* Time, caches and crashes.                                               *)
(***************************************************************************)
PromisePasses(h) ==
    /\ secret[h].exists /\ ~secret[h].due
    /\ Spend("due", MaxDue)
    /\ secret' = [secret EXCEPT ![h].due = TRUE]
    /\ UNCHANGED <<ha, harborVars, cache, leader, passVars, sweepVars>>

SyncCache(r, h) ==
    /\ cache[r][h] # ha[h]
    /\ cache' = [cache EXCEPT ![r][h] = ha[h]]
    /\ UNCHANGED <<apiVars, harborVars, leader, passVars, sweepVars, spent>>

\* The leader dies; its process restarts with a fresh cache, and r leads.
Takeover(r) ==
    /\ Fault
    /\ TakeoverLag \/ r = leader \/ cache[r] = ha
    /\ leader' = r
    /\ cache' = [cache EXCEPT ![leader] = ha]
    /\ Done /\ SweepDone
    /\ UNCHANGED <<apiVars, harborVars>>

(***************************************************************************)
(* The specification.                                                      *)
(***************************************************************************)
Init ==
    /\ \E s \in [HarborAccesses -> Specs] :
          ha = [h \in HarborAccesses |->
                  WithSpec([Absent(1) EXCEPT !.exists = TRUE, !.sel = TRUE], s[h])]
    /\ cache = [r \in Replicas |-> ha]
    /\ secret = [h \in HarborAccesses |-> NoSecret(0, 0)]
    /\ robots = {} /\ nextID = 1
    /\ leader \in Replicas
    /\ pc = "idle" /\ pass = NoPass
    /\ spc = "idle" /\ sweep = NoSweep
    /\ spent = [k \in {"edits", "admin", "due", "faults"} |-> 0]

Bridge ==
    \/ \E h \in HarborAccesses : Reconcile(h)
    \/ PassStep \/ CallFails
    \/ sweepListRobots \/ SweepStep

Environment ==
    \/ \E h \in HarborAccesses :
          CreateHA(h) \/ EditSpec(h) \/ Relabel(h) \/ DeleteHA(h) \/ PromisePasses(h)
    \/ AdminRobot \/ PlantRobot \/ AdminSecret \/ ReleaseByHand
    \/ \E r \in Replicas : Takeover(r) \/ \E h \in HarborAccesses : SyncCache(r, h)

Next == Bridge \/ Environment

Spec == Init /\ [][Next]_vars

\* A pass and a sweep go on once begun; the work queue hands out every key
\* again and again (resync), in turn; the sweep ticker fires; caches catch up.
Fairness ==
    /\ WF_vars(PassStep) /\ WF_vars(SweepStep) /\ WF_vars(sweepListRobots)
    /\ \A h \in HarborAccesses : SF_vars(Reconcile(h))
    /\ \A r \in Replicas, h \in HarborAccesses : WF_vars(SyncCache(r, h))

LiveSpec == Spec /\ Fairness

(***************************************************************************)
(* Properties.                                                             *)
(***************************************************************************)
\* Every variable holds values of its type, and robot IDs are unique.
TypeOK ==
    /\ ha \in [HarborAccesses -> HarborAccess]
    /\ cache \in [Replicas -> [HarborAccesses -> HarborAccess]]
    /\ secret \in [HarborAccesses -> Secret]
    /\ robots \subseteq Robot /\ nextID \in Nat \ {0}
    /\ leader \in Replicas
    /\ pc \in PCs /\ pass \in Pass
    /\ spc \in SweepPCs /\ sweep \in Sweep
    /\ spent \in [{"edits", "admin", "due", "faults"} -> Nat]
    /\ \A r \in robots : r.id < nextID
    /\ \A r, s \in robots : r.id = s.id => r = s

\* A robot of a HarborAccess never exists without the finalizer that revokes
\* it: the object is there and holds it (ensureFinalizer runs before Create,
\* reconcileDelete and releaseRefused remove it after the last robot).
FinalizerCoversRobot ==
    \A r \in robots : r.owner \in HarborAccesses =>
        ha[r.owner].exists /\ ha[r.owner].fin

\* A robot Secret whose password Harbor no longer accepts carries a reason
\* to rotate it, so no crash or lost answer between RefreshSecret and
\* writeRobotSecret leaves a dead password that looks current.
DeadPasswordIsDue ==
    \A h \in HarborAccesses, r \in robots :
        (/\ secret[h].exists /\ secret[h].stamp = "this"
         /\ secret[h].rid = r.id /\ secret[h].user = r.name
         /\ secret[h].pw # r.pw) => secret[h].due

\* The robot an administrator disabled stays disabled until an administrator
\* enables it: no Update of the bridge re-enables it.
AdminDisableStays == \A r \in robots : r.adminOff => r.disabled

Same(r) == {s \in robots' : s.id = r.id}

ByAdministrator == spent'.admin # spent.admin

ResumesRotated ==
    \A r \in robots : \A s \in Same(r) :
        r.disabled /\ ~s.disabled /\ s.oldPw => ByAdministrator

\* No step of the bridge enables a robot whose password is from before a
\* suspension: step 6b rotates first and enables second.
ResumeNeedsNewPassword == [][ResumesRotated]_vars

OwnersStay ==
    \A r \in robots : r.owner \in HarborAccesses =>
        /\ \A s \in Same(r) : s.owner = r.owner
        /\ Same(r) = {} => pass.h = r.owner \/ spc = "delRobot" \/ ByAdministrator

\* The first HarborAccess to own a robot keeps it: no pass over another one
\* with the same serviceAccountRef adopts it (ensureRobot), and only a pass
\* for its owner, the janitor or an administrator deletes it.
FirstOwnerKeepsRobot == [][OwnersStay]_vars

ForeignStays ==
    ~ByAdministrator =>
        /\ \A r \in robots : r.owner = Foreign => r \in robots'
        /\ \A h \in HarborAccesses :
              secret[h].exists /\ secret[h].stamp = "none" /\ ~secret[h].due
                  => \/ secret'[h] = secret[h]
                     \/ secret'[h] = [secret[h] EXCEPT !.due = TRUE]

\* A robot whose description is not this cluster's, and an unmanaged Secret
\* that does not hold the robot's credentials, are left alone by the bridge.
ForeignLeftAlone == [][ForeignStays]_vars

SparesWanted ==
    \A r \in robots :
        (/\ r.owner \in HarborAccesses /\ ~robotVerdict(r, ha[r.owner])
         /\ spc = "delRobot" /\ sweep' # sweep /\ Same(r) = {})
            => spent.edits > sweep.since

\* The janitor never deletes the robot its owner uses, however far the cache
\* lags, unless a user changed an owner while the sweep was running (between
\* the last read of the owner and the deletion).
SweepSparesWanted == [][SparesWanted]_vars

(***************************************************************************)
(* Why FinalizerCoversRobot holds.  It is not inductive: whether a pass    *)
(* may create a robot hangs on a finalizer seen in a copy of the object,   *)
(* and whether a pass may remove the finalizer on a list of robots it got  *)
(* earlier.  The versions tie the copies to the object.                    *)
(***************************************************************************)
\* No selector, no stale takeover, no finalizer removed by hand.
Undisturbed == ~Selective /\ ~TakeoverLag /\ "release" \notin Admin

Covered(h) == ha[h].exists /\ ha[h].fin

\* A pass over copy x would provision h without setting the finalizer.
Serving(x) == x.exists /\ ~x.del /\ Accepted(x) /\ x.fin

\* Copy x of h is not from the future, and is h if it has h's version.
AsOf(x, h) == x.ver <= ha[h].ver /\ (x.ver = ha[h].ver => x = ha[h])

ProvisionPCs == {"lookup", "create", "relookup", "dropSecret", "resumeRotate",
                 "resumeEnable", "converge"}
RefusePCs == {"refuse"} \cup SuspendPCs \cup ReleasePCs

CachesAsOf == \A r \in Replicas, h \in HarborAccesses : AsOf(cache[r][h], h)

CacheCovered == \A h \in HarborAccesses : Serving(cache[leader][h]) => Covered(h)

\* The copy a pass works on, and what its branch knows of it.
PassCopy ==
    pc # "idle" =>
        /\ pass.h \in HarborAccesses /\ AsOf(pass.ha, pass.h)
        /\ pc \in NormalPCs => Accepted(pass.ha)
        /\ pc \in RefusePCs => ~Accepted(pass.ha)
        /\ pc \in DeletePCs => pass.ha.del

\* A pass that may claim a robot does so under the finalizer.
PassCovered ==
    (pc \in ProvisionPCs \/ (pc = "getSecret" /\ pass.ha.fin)) => Covered(pass.h)

\* A pass that withdraws h on a current copy does not race with the cache:
\* no later pass can still see h as one to provision.
PassWithdraws ==
    (pc \in RefusePCs \cup DeletePCs /\ Current(pass.ha, pass.h))
        => ~Serving(cache[leader][pass.h])

\* What a pass knows of the robots it listed or looked up.
PassRobots ==
    /\ pc = "disable" => /\ pass.rob.id < nextID
                         /\ \A r \in robots : r.id = pass.rob.id => r.owner = pass.h
    /\ pc = "delRobots" => \A r \in Owned(pass.h) : r.id \in pass.todo
    /\ pc \in {"releasePatch", "delSecret", "delPatch"} => Owned(pass.h) = {}

\* The inductive invariant: TypeOK, FinalizerCoversRobot and the above.
FinalizerInv ==
    /\ TypeOK /\ FinalizerCoversRobot
    /\ CachesAsOf /\ CacheCovered /\ PassCopy /\ PassCovered
    /\ PassWithdraws /\ PassRobots /\ spc \notin {"relist", "release"}

(***************************************************************************)
(* Convergence.                                                            *)
(***************************************************************************)
Served(h) ==
    \E r \in Owned(h) :
        /\ r.name = ha[h].sa /\ r.perms = ha[h].perms /\ ~r.disabled /\ ~r.suspended
        /\ secret[h].exists /\ secret[h].stamp = "this" /\ ~secret[h].due
        /\ secret[h].rid = r.id /\ secret[h].user = r.name /\ secret[h].pw = r.pw
        /\ ha[h].fin /\ ha[h].ready /\ ha[h].observed /\ ha[h].rid = r.id

\* Someone else's robot or Secret is in the way, or the robot is disabled.
Blocked(h) ==
    /\ ~ha[h].ready
    /\ \/ secretConflict(secret[h], ha[h].sa)
       \/ \E r \in robots : /\ r.name = ha[h].sa
                            /\ r.owner \notin {h, Unclaimed} \/ r.adminOff

Settled(h) ==
    LET a == ha[h] IN
    IF a.exists /\ Selects(a)
    THEN /\ ~a.del
         /\ IF Accepted(a) THEN Served(h) \/ Blocked(h)
            ELSE \/ \A r \in Owned(h) : r.name = a.sa /\ r.disabled
                 \/ "release" \in Admin /\ ~a.fin
    ELSE Owned(h) = {} /\ ~a.fin

\* Once users, administrators and faults let it, every HarborAccess reaches
\* and keeps what its spec asks for: an accepted one is served or reports
\* what blocks it, the robot of a refused one is disabled (unless someone took
\* its finalizer off by hand: suspend makes no Harbor call then), a deleted one
\* is gone, and nothing of a gone or unselected one is left in Harbor.  (A
\* behaviour that ends waiting for more than MaxRobots robots is not judged.)
Converges ==
    \/ <>[](pc = "create" /\ nextID > MaxRobots)
    \/ <>[](\A h \in HarborAccesses : Settled(h))
=============================================================================
