---------------------------- MODULE Credentials ----------------------------
(***************************************************************************)
(* How a robot's password reaches kubelet, and for how long it is kept     *)
(* there.  The control plane publishes a password in a Secret together     *)
(* with a promise: the instant before which it will not rotate it.  Every  *)
(* replica of the data plane (bridge/dataplane/handler.go) answers         *)
(* credential requests from its caches and bounds the cache duration by    *)
(* the promise.  The plugin (plugin/) makes one request per image pull,    *)
(* retries a 503 once, and hands the answer to kubelet, which caches it.   *)
(*                                                                         *)
(* The passes of the control plane are modelled call by call in            *)
(* Reconciler; here they keep the steps between which a password is known  *)
(* to Harbor alone, and gain the clock.  Time is in fractions of a second: *)
(* Second steps of the clock.                                              *)
(***************************************************************************)
EXTENDS Integers, FiniteSets, SourceLimiter

CONSTANTS
    HarborAccesses,     \* numbers, in the order of namespace and name
    ServiceAccounts,
    Replicas,
    Plans,              \* the histories to consider (below)
    MaxPasswords,       \* bounds how many passwords Harbor gives out
    Second,             \* clock steps in a second
    PasswordRotationInterval, RotationSafetyMargin,
    RequestTimeout,     \* the plugin's requestTimeout
    MaxCacheDuration,   \* the plugin's maxCacheDuration
    Hour,               \* the cache duration without a tokenTTL
    Skew,               \* replicas' clocks differ by at most this
    NoPassword, NoPromise, NoRobot, NoSecret, Gone

\* The promise is kept if the safety margin covers a request and the clocks'
\* difference (contract.go: "the margin only has to absorb request latency and
\* clock skew between the bridge replicas").
ASSUME ClockAssumption ==
    /\ Second \in Nat \ {0}
    /\ {PasswordRotationInterval, RotationSafetyMargin, RequestTimeout, Skew,
        MaxCacheDuration, Hour, MaxPasswords} \subseteq Nat
    /\ RequestTimeout + Skew <= RotationSafetyMargin
    /\ PasswordRotationInterval % Second = 0

\* What stands for nothing is nothing else.
ASSUME DistinctAssumption ==
    /\ HarborAccesses \subseteq Nat \ {0} /\ HarborAccesses \subseteq 1..MaxPasswords
    /\ Replicas \subseteq Nat \ {0}
    /\ Gone \notin ServiceAccounts
    /\ {NoPassword, NoPromise, NoRobot} \cap Int = {}

VARIABLES
    access,     \* the HarborAccess objects
    robots,     \* Harbor's robot of every service account
    secret,     \* the robot Secret of every HarborAccess
    view,       \* the caches of every replica
    pass,       \* the pass the leader is making
    pull,       \* the request each node's plugin is making
    cache,      \* what kubelet caches on each node
    ledger,     \* of every password: the account, the promise and its end
    budget      \* what the environment may still do, and until when

accessVars == <<access, robots, secret, ledger>>
credentialVars == <<access, robots, secret, view, pass, pull, cache, ledger, budget>>
vars == <<credentialVars, limiterVars>>

Nodes == Sources
Passwords == 1..MaxPasswords

\* A plan: the service account every HarborAccess starts with and its
\* tokenTTL, whether it is new, served, or served by a bridge without promises
\* so far, the pod on every node, the replicas that run and their clocks,
\* whether the limiter is on, and how often the environment acts.
Plan == [accounts: [HarborAccesses -> ServiceAccounts \cup {Gone}],
         ttl: Nat, start: {"new", "served", "legacy"}, pods: [Nodes -> ServiceAccounts \cup {Gone}],
         up: SUBSET Replicas, clock: [Replicas -> 0..Skew], limited: BOOLEAN,
         until: Nat, edits: Nat, faults: Nat, admin: Nat]

ASSUME PlansAreWellFormed == Plans \subseteq Plan

Promise == Int \cup {NoPromise}
Status == [id: Passwords \cup {NoRobot}, rotated: Promise, gen: Nat]
Specs == {"good", "badTTL", "otherAudience"}
Access == [sa: ServiceAccounts, spec: Specs, deleting: BOOLEAN, gen: Nat, status: Status]
Robot == [id: Passwords, owner: HarborAccesses, pwd: Passwords, suspended: BOOLEAN]

\* own: the Secret is managed by the bridge and stamped for its HarborAccess.
Secret == [sa: ServiceAccounts, pwd: Passwords \cup {NoPassword}, robot: Passwords \cup {NoRobot},
           promise: Promise, own: BOOLEAN]

View == [access: [HarborAccesses -> Access \cup {Gone}],
         secret: [HarborAccesses -> Secret \cup {NoSecret}]]

ASSUME RecordAssumption == Gone \notin Access /\ NoRobot \notin Robot /\ NoSecret \notin Secret

Clock(r) == now + budget.clock[r]

-----------------------------------------------------------------------------
(***************************************************************************)
(* The promise.                                                            *)
(***************************************************************************)
\* time.Truncate: down to whole seconds.
Truncate(t) == t - (t % Second)

\* FormatRotationNotBefore: up to whole seconds.
FormatRotationNotBefore(t) == IF Truncate(t) = t THEN t ELSE Truncate(t) + Second

\* Mutant: rotation is due without the safety margin.
rotationDueEarly(a, s, t) ==
    LET promise == IF s.promise # NoPromise THEN s.promise
                   ELSE a.status.rotated + PasswordRotationInterval
    IN  t >= promise

\* The schedule says that the password in s is due at t.  A Secret without a
\* promise falls back on the status of its HarborAccess.
scheduledRotation(a, s, t) ==
    LET promise == IF s.promise # NoPromise THEN s.promise
                   ELSE a.status.rotated + PasswordRotationInterval
    IN  t >= promise + RotationSafetyMargin

\* The stored password cannot be the robot's.
forcedRotation(a, s, robot, sa) ==
    \/ s = NoSecret
    \/ s.sa # sa
    \/ IF s.robot # NoRobot THEN s.robot # robot.id
       ELSE a.status.id \notin {NoRobot, robot.id}
    \/ s.promise = NoPromise /\ a.status.rotated = NoPromise

\* The promise a pass writes: an interval after a rotation at t, else the
\* stored one, or one computed from the status.
rotationNotBefore(a, s, rotated, t) ==
    IF rotated THEN t + PasswordRotationInterval
    ELSE IF s.promise # NoPromise THEN s.promise
    ELSE a.status.rotated + PasswordRotationInterval

\* Mutant: a promise that has passed is not noticed.
cacheDurationPassed(tokenTTL, promise, t) ==
    LET ttl == IF tokenTTL = 0 THEN Hour ELSE tokenTTL
    IN  IF promise = NoPromise THEN ttl
        ELSE IF promise - t < ttl THEN Truncate(promise - t)
        ELSE ttl

\* How long kubelet may keep a password: tokenTTL, cut short by the promise.
cacheDuration(tokenTTL, promise, t) ==
    LET ttl == IF tokenTTL = 0 THEN Hour ELSE tokenTTL
    IN  IF promise = NoPromise THEN ttl
        ELSE IF promise - t <= 0 THEN 0
        ELSE IF promise - t < ttl THEN Truncate(promise - t)
        ELSE ttl

-----------------------------------------------------------------------------
(***************************************************************************)
(* The ledger.  A password is issued to an account, published with a       *)
(* promise, and ends by the schedule, by force or with its robot.          *)
(***************************************************************************)
Entry == [sa: ServiceAccounts \cup {Gone}, promise: Promise,
          end: {"none", "scheduled", "forced", "deleted"}]
Unissued == [sa |-> Gone, promise |-> NoPromise, end |-> "none"]

\* The next password Harbor generates.
Fresh(p) == ledger[p] = Unissued /\ \A q \in Passwords : ledger[q] = Unissued => p <= q

Issued(sa) == [sa |-> sa, promise |-> NoPromise, end |-> "none"]

-----------------------------------------------------------------------------
(***************************************************************************)
(* The control plane.  One pass runs at a time, on the leader.             *)
(***************************************************************************)
PassState == [at: {"idle", "revoke", "refuse", "robot", "rotate", "write", "clean"},
              h: HarborAccesses \cup {0}, replica: Replicas \cup {0},
              object: Access \cup {Gone}, copy: Secret \cup {NoSecret}, time: Int,
              pwd: Passwords \cup {NoPassword}, robot: {"found", "created"}]
Passing(at, h, r, a, s) ==
    [at |-> at, h |-> h, replica |-> r, object |-> a, copy |-> s, time |-> 0,
     pwd |-> NoPassword, robot |-> "found"]
NoPass == Passing("idle", 0, 0, Gone, NoSecret)

\* Mutant: an object is queued only when its spec is new.
BeginOnce(h) ==
    /\ pass.at = "idle"
    /\ \E r \in budget.up :
          LET a == view[r].access[h]
              at == IF a.deleting THEN "revoke" ELSE IF a.spec # "good" THEN "refuse" ELSE "robot"
          IN  /\ a # Gone /\ a.status.gen # a.gen
              /\ pass' = Passing(at, h, r, a, secret[h])
    /\ UNCHANGED <<access, robots, secret, view, pull, cache, ledger, budget, limiterVars>>

\* A pass begins with the object in the leader's cache and the Secret as it is.
Begin(h) ==
    /\ pass.at = "idle"
    /\ \E r \in budget.up :
          LET a == view[r].access[h]
              at == IF a.deleting THEN "revoke" ELSE IF a.spec # "good" THEN "refuse" ELSE "robot"
          IN  a # Gone /\ pass' = Passing(at, h, r, a, secret[h])
    /\ UNCHANGED <<access, robots, secret, view, pull, cache, ledger, budget, limiterVars>>

\* reconcileDelete: the robots, the Secret and the finalizer go.  The object
\* stays if it changed since it was cached.
reconcileDelete ==
    LET h == pass.h
        owned == {s \in ServiceAccounts : robots[s] # NoRobot /\ robots[s].owner = h}
    IN  /\ pass.at = "revoke"
        /\ robots' = [s \in ServiceAccounts |-> IF s \in owned THEN NoRobot ELSE robots[s]]
        /\ ledger' = [p \in Passwords |->
                        IF \E s \in owned : robots[s].pwd = p
                        THEN [ledger[p] EXCEPT !.end = "deleted"] ELSE ledger[p]]
        /\ secret' = [secret EXCEPT ![h] = IF @ # NoSecret /\ @.own THEN NoSecret ELSE @]
        /\ access' = [access EXCEPT ![h] = IF @ = pass.object THEN Gone ELSE @]
        /\ pass' = NoPass
        /\ UNCHANGED <<view, pull, cache, budget, limiterVars>>

\* refuse, suspend: the Secret goes and the robot is disabled.
suspend ==
    LET h == pass.h
        s == pass.object.sa
    IN  /\ pass.at = "refuse"
        /\ secret' = [secret EXCEPT ![h] = IF @ # NoSecret /\ @.own THEN NoSecret ELSE @]
        /\ robots' = IF robots[s] # NoRobot /\ robots[s].owner = h
                     THEN [robots EXCEPT ![s].suspended = TRUE] ELSE robots
        /\ pass' = NoPass
        /\ UNCHANGED <<access, view, pull, cache, ledger, budget, limiterVars>>

\* ensureRobot, and the clock the rest of the pass goes by.  A Secret or a
\* robot of someone else ends the pass.
ensureRobot ==
    LET s == pass.object.sa
        next == [pass EXCEPT !.at = "rotate", !.time = Clock(pass.replica)]
    IN  /\ pass.at = "robot"
        /\ \/ /\ \/ pass.copy # NoSecret /\ ~pass.copy.own
                 \/ robots[s] # NoRobot /\ robots[s].owner # pass.h
              /\ pass' = NoPass
              /\ UNCHANGED <<robots, ledger>>
           \/ /\ pass.copy # NoSecret => pass.copy.own
              /\ robots[s] = NoRobot
              /\ \E p \in Passwords :
                    /\ Fresh(p)
                    /\ robots' = [robots EXCEPT ![s] =
                          [id |-> p, owner |-> pass.h, pwd |-> p, suspended |-> FALSE]]
                    /\ ledger' = [ledger EXCEPT ![p] = Issued(s)]
                    /\ pass' = [next EXCEPT !.pwd = p, !.robot = "created"]
           \/ /\ pass.copy # NoSecret => pass.copy.own
              /\ robots[s] # NoRobot
              /\ robots[s].owner = pass.h
              /\ pass' = next
              /\ UNCHANGED <<robots, ledger>>
        /\ UNCHANGED <<access, secret, view, pull, cache, budget, limiterVars>>

\* Why the pass rotates, if it does.
rotationReason(a, s, robot, t) ==
    IF robot.suspended \/ forcedRotation(a, s, robot, a.sa) THEN "forced"
    ELSE IF scheduledRotation(a, s, t) THEN "scheduled"
    ELSE "none"

\* RefreshSecret, if the password is to be replaced.  A suspended robot's
\* Secret goes first, unless it is no longer the one the pass read, and the
\* robot is enabled again with the new password.
rotate ==
    LET h == pass.h
        s == pass.object.sa
        robot == robots[s]
        resume == robot.suspended /\ pass.copy # NoSecret
        why == rotationReason(pass.object, pass.copy, robot, pass.time)
    IN  /\ pass.at = "rotate"
        /\ \/ /\ pass.robot = "created" \/ why = "none"
              /\ pass' = [pass EXCEPT !.at = "write"]
              /\ UNCHANGED <<robots, secret, ledger>>
           \/ /\ pass.robot = "found"
              /\ resume /\ secret[h] \notin {pass.copy, NoSecret}
              /\ pass' = NoPass
              /\ UNCHANGED <<robots, secret, ledger>>
           \/ /\ pass.robot = "found" /\ why # "none"
              /\ resume => secret[h] \in {pass.copy, NoSecret}
              /\ \E p \in Passwords :
                    /\ Fresh(p)
                    /\ robots' = [robots EXCEPT ![s].pwd = p, ![s].suspended = FALSE]
                    /\ ledger' = [ledger EXCEPT ![robot.pwd].end = why, ![p] = Issued(s)]
                    /\ pass' = [pass EXCEPT !.at = "write", !.pwd = p]
              /\ secret' = IF resume THEN [secret EXCEPT ![h] = NoSecret] ELSE secret
        /\ UNCHANGED <<access, view, pull, cache, budget, limiterVars>>

\* The Secret is written conditional on what the pass read.  A new password
\* is stored on top of whatever is there now, unless it is someone else's;
\* without one, a write that finds the Secret changed fails the pass.
writeRobotSecret ==
    LET h == pass.h
        s == pass.object.sa
        rotated == pass.pwd # NoPassword
        promise == FormatRotationNotBefore(
                     rotationNotBefore(pass.object, pass.copy, rotated, pass.time))
        pwd == IF rotated THEN pass.pwd ELSE pass.copy.pwd
        updated == [sa |-> s, pwd |-> pwd, robot |-> robots[s].id, promise |-> promise,
                    own |-> TRUE]
        mine == IF rotated THEN secret[h] # NoSecret => secret[h].own
                ELSE secret[h] = pass.copy
    IN  /\ pass.at = "write"
        /\ \/ /\ updated # pass.copy /\ mine
              /\ secret' = [secret EXCEPT ![h] = updated]
              /\ ledger' = [ledger EXCEPT ![pwd].promise = promise]
              /\ pass' = [pass EXCEPT !.at = "clean"]
           \/ /\ updated # pass.copy /\ ~mine
              /\ pass' = NoPass
              /\ UNCHANGED <<secret, ledger>>
           \/ /\ updated = pass.copy
              /\ pass' = [pass EXCEPT !.at = "clean"]
              /\ UNCHANGED <<secret, ledger>>
        /\ UNCHANGED <<access, robots, view, pull, cache, budget, limiterVars>>

\* deleteStaleRobots, when the spec or the robot is new, and markReady.  The
\* status, whose times have whole seconds, is written only to the object the
\* pass began with.
finish ==
    LET h == pass.h
        a == pass.object
        robot == robots[a.sa]
        stale == IF pass.robot = "created" \/ a.status.gen # a.gen
                    \/ a.status.id \notin {NoRobot, robot.id}
                 THEN {s \in ServiceAccounts \ {a.sa} :
                          robots[s] # NoRobot /\ robots[s].owner = h}
                 ELSE {}
        status == [id |-> robot.id, gen |-> a.gen,
                   rotated |-> IF pass.pwd # NoPassword THEN Truncate(pass.time) ELSE a.status.rotated]
    IN  /\ pass.at = "clean"
        /\ robots' = [s \in ServiceAccounts |-> IF s \in stale THEN NoRobot ELSE robots[s]]
        /\ ledger' = [p \in Passwords |->
                        IF \E s \in stale : robots[s].pwd = p
                        THEN [ledger[p] EXCEPT !.end = "deleted"] ELSE ledger[p]]
        /\ access' = IF access[h] = a THEN [access EXCEPT ![h].status = status] ELSE access
        /\ pass' = NoPass
        /\ UNCHANGED <<secret, view, pull, cache, budget, limiterVars>>

\* A pass dies with its leader, or a call of it fails.
Fault == budget.faults > 0 /\ budget' = [budget EXCEPT !.faults = @ - 1]

passDies ==
    /\ pass.at # "idle"
    /\ Fault
    /\ pass' = NoPass
    /\ UNCHANGED <<access, robots, secret, view, pull, cache, ledger, limiterVars>>

-----------------------------------------------------------------------------
(***************************************************************************)
(* The environment: users, administrators and the caches.                  *)
(***************************************************************************)
\* A user changes the service account or the rest of the spec, or deletes the
\* object, which the finalizer keeps.
Edits(a) ==
    {[a EXCEPT !.sa = s, !.gen = @ + 1] : s \in ServiceAccounts \ {a.sa}}
    \cup {[a EXCEPT !.spec = x, !.gen = @ + 1] : x \in Specs \ {a.spec}}
    \cup {[a EXCEPT !.deleting = TRUE, !.gen = @ + 1]}

edit(h) ==
    /\ budget.edits > 0
    /\ access[h] # Gone /\ ~access[h].deleting
    /\ budget' = [budget EXCEPT !.edits = @ - 1]
    /\ \E a \in Edits(access[h]) : access' = [access EXCEPT ![h] = a]
    /\ UNCHANGED <<robots, secret, view, pass, pull, cache, ledger, limiterVars>>

Foreign(s) == [sa |-> s, pwd |-> NoPassword, robot |-> NoRobot, promise |-> NoPromise,
               own |-> FALSE]

\* An administrator deletes the Secret, or puts one of their own in its place.
replaceSecret(h) ==
    /\ budget.admin > 0
    /\ secret[h] # NoSecret
    /\ budget' = [budget EXCEPT !.admin = @ - 1]
    /\ \/ secret' = [secret EXCEPT ![h] = NoSecret]
       \/ /\ secret[h].own
          /\ secret' = [secret EXCEPT ![h] = Foreign(@.sa)]
    /\ UNCHANGED <<access, robots, view, pass, pull, cache, ledger, limiterVars>>

\* The replica's cache of HarborAccess objects, and the one of Secrets, catch
\* up, each in its own time.
syncAccess(r, h) ==
    /\ view[r].access[h] # access[h]
    /\ view' = [view EXCEPT ![r].access[h] = access[h]]
    /\ UNCHANGED <<accessVars, pass, pull, cache, budget, limiterVars>>

syncSecret(r, h) ==
    /\ view[r].secret[h] # secret[h]
    /\ view' = [view EXCEPT ![r].secret[h] = secret[h]]
    /\ UNCHANGED <<accessVars, pass, pull, cache, budget, limiterVars>>

-----------------------------------------------------------------------------
(***************************************************************************)
(* The data plane and the plugin.  One pod per node pulls an image.        *)
(***************************************************************************)
\* promise: the one the duration was cut to, if the Secret has one.
Answer == [status: {0, 200, 401, 403, 429, 500, 503}, pwd: Passwords \cup {NoPassword},
           duration: Nat, promise: Promise]
Refusal(status) == [status |-> status, pwd |-> NoPassword, duration |-> 0, promise |-> NoPromise]

Pull == [at: {"idle", "sent", "matched", "answered", "backoff", "done"},
         replica: Replicas \cup {0}, tries: 0..2, deadline: Nat,
         match: HarborAccesses \cup {0}, answer: Answer]
Pulling(at, r, tries, deadline) ==
    [at |-> at, replica |-> r, tries |-> tries, deadline |-> deadline, match |-> 0,
     answer |-> Refusal(0)]
NoPull == Pulling("idle", 0, 0, 0)
Matched(q, h) == [q EXCEPT !.at = "matched", !.match = h]
Answered(q, a) == [q EXCEPT !.at = "answered", !.answer = a]
Done(answer) ==
    [at |-> "done", replica |-> 0, tries |-> 0, deadline |-> 0, match |-> 0, answer |-> answer]

Cached == [pwd: Passwords \cup {NoPassword}, until: Nat, promise: Promise]
NotCached == [pwd |-> NoPassword, until |-> 0, promise |-> NoPromise]

Active(n) == pull[n].at \in {"sent", "matched", "answered"}

\* Kubelet runs the plugin when it has no credentials cached.
Fetch(n) ==
    /\ pull[n].at \in {"idle", "done"}
    /\ budget.pods[n] # Gone
    /\ cache[n].until <= now
    /\ \E r \in budget.up :
          pull' = [pull EXCEPT ![n] = Pulling("sent", r, 1, now + RequestTimeout)]
    /\ UNCHANGED <<accessVars, view, pass, cache, budget, limiterVars>>

Reply(n, status) == pull' = [pull EXCEPT ![n] = Answered(@, Refusal(status))]

\* The limiter of the replicas in use, if they have one.
Limiter(n, ok) == IF budget.limited THEN Allow(n, ok) /\ UNCHANGED now
                  ELSE ok /\ UNCHANGED limiterVars

\* The limiter comes first.
tooManyRequests(n) ==
    /\ pull[n].at = "sent"
    /\ Limiter(n, FALSE)
    /\ Reply(n, 429)
    /\ UNCHANGED <<accessVars, view, pass, cache, budget>>

\* The token's validation takes it for invalid or lacks the signing keys, or
\* a cache cannot be read.
requestFails(n) ==
    /\ pull[n].at = "sent"
    /\ Limiter(n, TRUE)
    /\ Fault
    /\ \E status \in {401, 500, 503} : Reply(n, status)
    /\ UNCHANGED <<accessVars, view, pass, cache>>

\* The objects a token matches in r's cache: of its service account, with the
\* bridge's audience and issuer.
matching(r, sa) ==
    {h \in HarborAccesses :
        LET a == view[r].access[h] IN a # Gone /\ a.sa = sa /\ a.spec # "otherAudience"}

\* The request finds its HarborAccess: the first by name that is not being
\* deleted.  It is refused, not skipped, if its spec is invalid.
findHarborAccess(n) ==
    LET r == pull[n].replica
        matches == {h \in matching(r, budget.pods[n]) : ~view[r].access[h].deleting}
    IN  /\ pull[n].at = "sent"
        /\ Limiter(n, TRUE)
        /\ \/ /\ matches = {}
              /\ Reply(n, 403)
           \/ \E h \in matches :
                 /\ \A g \in matches : h <= g
                 /\ \/ view[r].access[h].spec = "badTTL" /\ Reply(n, 403)
                    \/ /\ view[r].access[h].spec = "good"
                       /\ pull' = [pull EXCEPT ![n] = Matched(@, h)]
        /\ UNCHANGED <<accessVars, view, pass, cache, budget>>

\* Mutant: the password goes to whoever the HarborAccess is for now.
secretStatusAnyRobot(s, sa) ==
    IF s = NoSecret THEN 503
    ELSE IF ~s.own THEN 403
    ELSE 200

\* What the handler answers given the Secret: it must be the bridge's and hold
\* the robot of the service account.
secretStatus(s, sa) ==
    IF s = NoSecret THEN 503
    ELSE IF ~s.own THEN 403
    ELSE IF s.sa # sa THEN 503
    ELSE 200

\* The rest of the handler: the password from the replica's cache of Secrets,
\* with the whole seconds for which kubelet may keep it.
readRobotSecret(n) ==
    LET r == pull[n].replica
        s == view[r].secret[pull[n].match]
        status == secretStatus(s, budget.pods[n])
        credentials == [status |-> 200, pwd |-> s.pwd, promise |-> s.promise,
                        duration |-> Truncate(cacheDuration(budget.ttl, s.promise, Clock(r)))]
    IN  /\ pull[n].at = "matched"
        /\ \/ status # 200 /\ Reply(n, status)
           \/ /\ status = 200
              /\ pull' = [pull EXCEPT ![n] = Answered(@, credentials)]
        /\ UNCHANGED <<accessVars, view, pass, cache, budget, limiterVars>>

\* Mutant: the plugin keeps retrying.
finalAnytime(n) == pull[n].answer.status # 503

\* fetch: any answer is final but a first 503.
final(n) == pull[n].answer.status = 503 => pull[n].tries = 2

\* writeOKResponse: kubelet caches a password for as long as the answer says,
\* and at most maxCacheDuration; everything else is not cached.
receive(n) ==
    LET a == pull[n].answer
        duration == IF a.duration > MaxCacheDuration THEN MaxCacheDuration ELSE a.duration
    IN  /\ pull[n].at = "answered"
        /\ final(n)
        /\ pull' = [pull EXCEPT ![n] = Done(a)]
        /\ cache' = [cache EXCEPT ![n] =
                IF a.status = 200 /\ duration > 0
                THEN [pwd |-> a.pwd, until |-> now + duration, promise |-> a.promise]
                ELSE NotCached]
        /\ UNCHANGED <<accessVars, view, pass, budget, limiterVars>>

\* The plugin waits for retryBackoff, a second, and asks once more.
backoff(n) ==
    /\ pull[n].at = "answered"
    /\ ~final(n)
    /\ pull' = [pull EXCEPT ![n] = Pulling("backoff", 0, 1, now + Second)]
    /\ UNCHANGED <<accessVars, view, pass, cache, budget, limiterVars>>

retry(n) ==
    /\ pull[n].at = "backoff"
    /\ now >= pull[n].deadline \/ now = budget.until    \* the clock stands still then
    /\ \E r \in budget.up :
          pull' = [pull EXCEPT ![n] = Pulling("sent", r, 2, now + RequestTimeout)]
    /\ UNCHANGED <<accessVars, view, pass, cache, budget, limiterVars>>

\* The request fails or times out.  The plugin reports an error, with no retry.
fetchFails(n) ==
    /\ Active(n)
    /\ \/ pull[n].deadline = now /\ UNCHANGED budget
       \/ Fault
    /\ pull' = [pull EXCEPT ![n] = Done(Refusal(0))]
    /\ UNCHANGED <<accessVars, view, pass, cache, limiterVars>>

\* Time passes, though not past the deadline of a request.
Tick ==
    /\ now < budget.until
    /\ \A n \in Nodes : Active(n) => now < pull[n].deadline
    /\ LimiterTick
    /\ UNCHANGED credentialVars

-----------------------------------------------------------------------------
\* An object that is not new has its robot, its Secret and its status.
Old(h) == budget.start # "new" /\ budget.accounts[h] # Gone

OldPromise == IF budget.start = "served" THEN FormatRotationNotBefore(PasswordRotationInterval)
              ELSE NoPromise

OldOwners(s) == {h \in HarborAccesses : Old(h) /\ budget.accounts[h] = s}

Init ==
    /\ LimiterInit
    /\ budget \in Plans
    /\ access = [h \in HarborAccesses |-> IF budget.accounts[h] = Gone THEN Gone ELSE
          [sa |-> budget.accounts[h], spec |-> "good", deleting |-> FALSE, gen |-> 1,
           status |-> IF Old(h) THEN [id |-> h, rotated |-> 0, gen |-> 1]
                      ELSE [id |-> NoRobot, rotated |-> NoPromise, gen |-> 0]]]
    /\ secret = [h \in HarborAccesses |-> IF Old(h)
          THEN [sa |-> budget.accounts[h], pwd |-> h, promise |-> OldPromise, own |-> TRUE,
                robot |-> IF OldPromise = NoPromise THEN NoRobot ELSE h]
          ELSE NoSecret]
    /\ robots = [s \in ServiceAccounts |->
          IF OldOwners(s) = {} THEN NoRobot
          ELSE LET h == CHOOSE h \in OldOwners(s) : TRUE
               IN  [id |-> h, owner |-> h, pwd |-> h, suspended |-> FALSE]]
    /\ ledger = [p \in Passwords |->
          IF p \in HarborAccesses /\ Old(p)
          THEN [sa |-> budget.accounts[p], promise |-> OldPromise, end |-> "none"] ELSE Unissued]
    /\ view = [r \in Replicas |-> [access |-> access, secret |-> secret]]
    /\ pass = NoPass
    /\ pull = [n \in Nodes |-> NoPull]
    /\ cache = [n \in Nodes |-> NotCached]

Pass == reconcileDelete \/ suspend \/ ensureRobot \/ rotate \/ writeRobotSecret \/ finish

Sync == \E r \in budget.up, h \in HarborAccesses : syncAccess(r, h) \/ syncSecret(r, h)

ServeHTTP(n) == tooManyRequests(n) \/ findHarborAccess(n) \/ readRobotSecret(n)

Plugin(n) == Fetch(n) \/ receive(n) \/ backoff(n) \/ retry(n)

Environment ==
    \/ passDies
    \/ \E h \in HarborAccesses : edit(h) \/ replaceSecret(h)
    \/ \E n \in Nodes : fetchFails(n) \/ requestFails(n)

Next ==
    \/ Tick
    \/ Pass
    \/ Environment
    \/ Sync
    \/ \E h \in HarborAccesses : Begin(h)
    \/ \E n \in Nodes : Plugin(n) \/ ServeHTTP(n)

Spec == Init /\ [][Next]_vars

\* The work queue serves every object, caches catch up, requests are answered,
\* and kubelet keeps pulling while it has no credentials.
Fairness ==
    /\ WF_vars(Tick) /\ WF_vars(Pass) /\ WF_vars(Sync)
    /\ \A h \in HarborAccesses : SF_vars(Begin(h))
    /\ \A n \in Nodes : WF_vars(Plugin(n) \/ ServeHTTP(n))

LiveSpec == Spec /\ Fairness

-----------------------------------------------------------------------------
\* The program's values, passwords included, stay within their types.
TypeOK ==
    /\ access \in [HarborAccesses -> Access \cup {Gone}]
    /\ robots \in [ServiceAccounts -> Robot \cup {NoRobot}]
    /\ secret \in [HarborAccesses -> Secret \cup {NoSecret}]
    /\ view \in [Replicas -> View]
    /\ pass \in PassState
    /\ pull \in [Nodes -> Pull]
    /\ cache \in [Nodes -> Cached]
    /\ ledger \in [Passwords -> Entry]
    /\ budget \in Plan
    /\ now \in Nat

\* A password kubelet still has in its cache was not rotated by schedule, if it
\* was handed out under a promise: whichever replica answered, from however
\* old a cache, and however slowly (cacheDuration, rotationReason).
PromiseKept ==
    \A n \in Nodes : cache[n].until > now /\ cache[n].promise # NoPromise
                        => ledger[cache[n].pwd].end # "scheduled"

\* A pod gets the password of its own service account's robot or none, also
\* while its HarborAccess moves to another service account (ServeHTTP).
RightRobot ==
    \A n \in Nodes : pull[n].answer.status = 200 =>
        /\ pull[n].answer.pwd \in Passwords
        /\ ledger[pull[n].answer.pwd].sa = budget.pods[n]

\* Every run of the plugin ends, whatever the bridge answers (fetch).
PullEnds == \A n \in Nodes : []<>(pull[n].at \in {"idle", "done"})

\* Exactly one HarborAccess is for the pod's service account, and the bridge
\* serves it.
Served(n) ==
    \E h \in HarborAccesses :
        /\ access[h] # Gone /\ access[h].sa = budget.pods[n]
        /\ access[h].spec = "good" /\ ~access[h].deleting
        /\ secret[h] # NoSecret => secret[h].own
        /\ \A g \in HarborAccesses \ {h} : access[g] # Gone => access[g].sa # budget.pods[n]

\* Kubelet has the robot's password from a pull that just ended, or caches one
\* that nothing but an unscheduled rotation has replaced.
HasPassword(n) ==
    LET robot == robots[budget.pods[n]] IN
    \/ /\ pull[n].at = "done" /\ pull[n].answer.status = 200
       /\ robot # NoRobot /\ pull[n].answer.pwd = robot.pwd
    \/ /\ cache[n].until > now
       /\ cache[n].promise # NoPromise => ledger[cache[n].pwd].end # "scheduled"

\* A pod whose service account stays served gets the robot's password again
\* and again, whatever happened before (Reconcile, ServeHTTP).
CredentialsArrive ==
    \A n \in Nodes : []<>(budget.pods[n] # Gone /\ ~budget.limited /\ Served(n) => HasPassword(n))
=============================================================================
