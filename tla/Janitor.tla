------------------------------ MODULE Janitor ------------------------------
(***************************************************************************)
(* The Janitor (bridge/controlplane/janitor.go): a periodic sweep on the   *)
(* leader that lists robots, then robot Secrets, then the owners, deletes  *)
(* what no owner uses and releases owners the bridge no longer selects.    *)
(* Every list, read and write is one action.                               *)
(***************************************************************************)
EXTENDS BridgeState

\* What the sweep uses of a listed robot, and of a listed Secret.
Listed == [id: Nat, name: RobotNames, owner: HarborAccesses]

SecretKey == [h: HarborAccesses \cup {NoKey}, uid: Nat, stamp: {"this", "other"}]

Sweep ==
    [listed: BOOLEAN,            \* the robot listing succeeded
     robots: SUBSET Listed,      \* listed, later only the condemned ones
     secrets: SUBSET SecretKey,
     owners: SUBSET [h: HarborAccesses, ver: Nat],  \* to release
     id: Nat,                                       \* robot about to go
     since: Nat,                                    \* history: edits before it
     sec: SecretKey]                                \* Secret about to go

NoSweep ==
    [listed |-> FALSE, robots |-> {}, secrets |-> {}, owners |-> {},
     id |-> 0, since |-> 0, sec |-> [h |-> NoKey, uid |-> 0, stamp |-> "this"]]

SweepPCs == {"idle", "owners", "robots", "delRobot",
             "orphans", "delSecret", "relist", "release"}

SweepDone == spc' = "idle" /\ sweep' = NoSweep

SweepOn(at, s) == spc' = at /\ sweep' = s

\* What follows once no robot, and then no Secret, is left to judge.
AfterSecrets(s) ==
    IF s.listed /\ Selective /\ s.owners # {} THEN "relist" ELSE "idle"

AfterRobots(s) ==
    IF s.secrets # {} THEN "orphans" ELSE AfterSecrets(s)

AfterRobot(s) ==
    IF s.robots # {} THEN "robots" ELSE AfterRobots(s)

Continue(at, s) ==
    IF at = "idle" THEN SweepDone ELSE SweepOn(at, s)

\* The robots of this cluster whose description names a HarborAccess.
Candidates ==
    {[id |-> r.id, name |-> r.name, owner |-> r.owner] :
       r \in {x \in robots : x.owner \in HarborAccesses}}

\* Mutant: owners are read from the cache.
cachedOwner(h) == cache[leader][h]

\* listOwners and liveOwner read the API server, not the cache.
liveOwner(h) == ha[h]

\* Sweep: list robots (a failure leaves the Secret sweep).
sweepListRobots ==
    /\ Sweeping /\ spc = "idle"
    /\ \/ SweepOn("owners", [NoSweep EXCEPT !.listed = TRUE, !.robots = Candidates,
                                      !.since = spent.edits])
          /\ UNCHANGED spent
       \/ SweepOn("owners", [NoSweep EXCEPT !.since = spent.edits]) /\ Fault
    /\ UNCHANGED <<apiVars, harborVars, cache, leader, passVars>>

\* The robot Secrets of this cluster (a local read of the cache).
listRobotSecrets ==
    {[h |-> h, uid |-> secret[h].uid, stamp |-> secret[h].stamp] :
       h \in {k \in HarborAccesses :
                secret[k].exists /\ secret[k].stamp \in {"this", "other"}}}

Releasable(x) == x.exists /\ ~Selects(x) /\ x.fin

\* listOwners, right after the Secret listing, and the verdicts on both
\* listings.  Only what is condemned, and what may be released, is kept.
listOwners ==
    LET s == [sweep EXCEPT
                !.robots = {r \in @ : robotVerdict(r, liveOwner(r.owner))},
                !.secrets = {k \in listRobotSecrets : secretVerdict(k.stamp, liveOwner(k.h))},
                !.owners = {[h |-> h, ver |-> liveOwner(h).ver] :
                              h \in {k \in HarborAccesses : Releasable(liveOwner(k))}}]
    IN
    /\ spc = "owners"
    /\ \/ Continue(AfterRobot(s), s) /\ UNCHANGED spent
       \/ SweepDone /\ Fault
    /\ UNCHANGED <<apiVars, harborVars, cache, leader, passVars>>

\* sweepRobots: read the owner of a condemned robot once more (a failed
\* read spares the robot for this sweep).
recheckRobot ==
    /\ spc = "robots"
    /\ \E r \in sweep.robots :
          LET s == [sweep EXCEPT !.robots = @ \ {r}] IN
          \/ /\ robotVerdict(r, liveOwner(r.owner))
             /\ SweepOn("delRobot", [s EXCEPT !.id = r.id]) /\ UNCHANGED spent
          \/ /\ ~robotVerdict(r, liveOwner(r.owner))
             /\ Continue(AfterRobot(s), s) /\ UNCHANGED spent
          \/ Continue(AfterRobot(s), s) /\ Fault
    /\ UNCHANGED <<apiVars, harborVars, cache, leader, passVars>>

\* deleteRobot: a failure is logged and the sweep goes on.
deleteRobot ==
    LET s == [sweep EXCEPT !.id = 0] IN
    /\ spc = "delRobot"
    /\ \/ DeleteRobots({sweep.id}) /\ UNCHANGED spent
       \/ UNCHANGED robots /\ Fault
    /\ Continue(AfterRobot(s), s)
    /\ UNCHANGED <<apiVars, nextID, cache, leader, passVars>>

\* sweepSecrets: the same two reads before the deletion.
recheckSecret ==
    /\ spc = "orphans"
    /\ \E k \in sweep.secrets :
          LET s == [sweep EXCEPT !.secrets = @ \ {k}] IN
          \/ /\ secretVerdict(k.stamp, liveOwner(k.h))
             /\ SweepOn("delSecret", [s EXCEPT !.sec = k]) /\ UNCHANGED spent
          \/ /\ ~secretVerdict(k.stamp, liveOwner(k.h))
             /\ Continue(AfterRobots(s), s) /\ UNCHANGED spent
          \/ Continue(AfterRobots(s), s) /\ Fault
    /\ UNCHANGED <<apiVars, harborVars, cache, leader, passVars>>

deleteOrphanSecret ==
    LET k == sweep.sec
        s == [sweep EXCEPT !.sec = NoSweep.sec] IN
    /\ spc = "delSecret"
    /\ \/ /\ secret[k.h].exists /\ secret[k.h].uid = k.uid
          /\ DeleteSecret(k.h) /\ UNCHANGED spent
       \/ /\ ~(secret[k.h].exists /\ secret[k.h].uid = k.uid)
          /\ UNCHANGED <<secret, spent>>
       \/ UNCHANGED secret /\ Fault
    /\ Continue(AfterRobots(s), s)
    /\ UNCHANGED <<ha, harborVars, cache, leader, passVars>>

\* releaseUnselected: list robots again, keep the owners that have one.
relistRobots ==
    LET s == [sweep EXCEPT !.owners = {k \in @ : Owned(k.h) = {}}] IN
    /\ spc = "relist"
    /\ \/ Continue(IF s.owners # {} THEN "release" ELSE "idle", s) /\ UNCHANGED spent
       \/ SweepDone /\ Fault
    /\ UNCHANGED <<apiVars, harborVars, cache, leader, passVars>>

releaseUnselected ==
    /\ spc = "release"
    /\ \E k \in sweep.owners :
          LET s == [sweep EXCEPT !.owners = @ \ {k}] IN
          /\ \/ /\ ha' = IF Current([ver |-> k.ver], k.h)
                         THEN [ha EXCEPT ![k.h] = WithoutFinalizer(k.h)] ELSE ha
                /\ UNCHANGED spent
             \/ UNCHANGED ha /\ Fault
          /\ Continue(IF s.owners # {} THEN "release" ELSE "idle", s)
    /\ UNCHANGED <<secret, harborVars, cache, leader, passVars>>

SweepStep ==
    \/ listOwners \/ recheckRobot \/ deleteRobot
    \/ recheckSecret \/ deleteOrphanSecret \/ relistRobots \/ releaseUnselected
=============================================================================
