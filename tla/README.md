# Verification of the Harbor workload identity bridge

TLA+ modules that model the bridge, TLC configurations that check them on small
instances, and TLAPS proofs of the properties that matter most. `PROJECT.json`
lists the components, runs, mutants, theorems, hazards and findings, and maps
every definition to the lines of source it models. Paths below are relative to
the repository.

## 1. The system

A workload's service-account token is exchanged for the password of a Harbor
robot. The bridge, the kubelet plugin and the node installer take part:

| part | source | state | writes |
|---|---|---|---|
| Reconciler (leader) | `bridge/controlplane/reconciler.go` | one pass over one HarborAccess | finalizer, status, robot Secret, Harbor robots |
| Janitor (leader) | `bridge/controlplane/janitor.go` | one sweep | deletes robots and Secrets, releases finalizers |
| Harbor client, admin credentials | `harbor/client.go`, `admincreds.go` | one call; a mounted volume | requests to Harbor |
| Signing keys | `bridge/dataplane/oidc_keyset.go` | cached keys, one running fetch | none |
| Handler, limiter (every replica) | `bridge/dataplane` | informer caches, token buckets | answers with a cache duration |
| Credential plugin (node) | `plugin` | none | one request, one retry |
| Installer (node) | `installer` | locks, records, state file | kubelet's configuration, kubelet restarts |

The parts meet in four stores: the API server (HarborAccess objects and robot
Secrets, with optimistic locks and finalizers, seen by every replica through a
cache that lags), Harbor, kubelet's credential cache, and the node's files.

What makes it hard:

* A pass is a sequence of calls to two systems without a transaction. It can stop
  after any of them, lose the answer of any of them, and works on cached objects.
* Rotating a password destroys the old one before the new one is stored.
* The janitor, users, administrators and another leader act between any two calls.
* The data plane hands out what the control plane is changing, and kubelet keeps
  it for the duration it was told, whatever happens afterwards.
* Requests share one key fetch that none of them owns.
* Several installers edit one kubelet configuration and restart one kubelet.

## 2. Modules

| module | models |
|---|---|
| `BridgeState` | objects, Secrets, robots, and the predicates the control plane shares |
| `Reconciler` | one pass: `Reconcile`, `reconcileNormal`, `refuse`, `reconcileDelete`; one action per call |
| `Janitor` | one sweep; one action per listing, read and write |
| `RobotLifecycle` | both, with users, administrators, lagging caches, faults and takeovers; the properties |
| `KeySet` | the signing keys of the data plane |
| `Credentials` | the way of a password from Harbor to kubelet's cache, with clocks |
| `SourceLimiter`, `TokenBuckets` | the per-source limiter, and what it promises |
| `HarborClient` | listings and lookups page by page, with the admin credentials' volume |
| `Installer` | passes of several installs on one node |
| `EnvFile`, `Glob` | the flags in kubelet's environment file; which files a wildcard names |
| `MC*` | instances for TLC |
| `RobotLifecycleProofs`, `FinalizerProofs`, `RobotProofs`, `SweepProofs` | proofs about the control plane |
| `KeySetProofs` | proofs about the keys |
| `CredentialProofs` | proofs about the credentials and the limiter |
| `HarborClientProofs`, `InstallerProofs` | proofs about the client and the installer |

### The control plane

`ha`, `secret` and `robots` are the stores, `cache[r]` is the informer cache of
replica `r`. `pc` and `pass` are the program counter and the local variables of the
running pass, `spc` and `sweep` those of the sweep. The Reconciler has one worker,
so there is one pass at a time.

`pc` names the call a pass makes next. `getSecret` is step 5 of `reconcileNormal`,
`addFinalizer` the patch before the robot, `lookup` and `create` are `ensureRobot`
(a 409 leads to `relookup`), `dropSecret`, `resumeRotate` and `resumeEnable` are
step 6b, `converge` step 7, `rotate` step 8, `putSecret` and `reread` one round of
`writeRobotSecret`, `listStale` and `delStale` step 9. `refuse` to `releasePatch` are
`refuse`, `suspend` and `releaseRefused`; `delList` to `delPatch` are `reconcileDelete`.
Local decisions between two calls belong to the action of the earlier call.

Every write can succeed, succeed with its answer lost, or fail; each fault costs
one unit of `MaxFaults`. `Takeover` is a crash: the pass and the sweep are gone, and
another replica or the restarted one leads.

Abstracted: a service account stands for its robot name (`NoName`: an account
without a valid one); `ok` sums up the other refusals (issuer, audience, projects,
TTL); a version is a counter per key that survives deletion; a password is a number
no two robots share; `due` says that the stored promise has passed. `adminOff` and
`oldPw` of a robot and `since` of a sweep are history. Robot expiry, robots with our
description under a foreign name, and several bridges on one cluster are left out.
An object is deleted through its finalizer; taking the finalizer off by hand is an
act of an administrator (`release`).

### The signing keys

`keys`, `fetchedAt`, `doneAt`, `lastErr` and `inflight` are the fields of
`cachedKeySet`; `fetches` holds every `keyFetch` with the state of its goroutine:
`running` until the issuer answers, `got` until the critical section of `runFetch`,
`stored` until its channel is closed. A request goes through `cachedKeys`,
`VerifySignature`, `refreshedKeys` and one branch of its `select`. `Primer` is
`NewValidator`'s call of `prime`; requests are served only after it. A token names
the key it claims and the key that signed it. `since`, `gone`, `answer` and the
fields that record what was true earlier are history.

### Credentials and limiter

Passes of the control plane come in fewer steps than in `Reconciler`, but keep every
one between which a password is known to Harbor alone; in exchange they have the
clock: the promise (`rotation-not-before`, rounded up to seconds), the safety margin,
and the rotation schedule. The resume calls of a pass are one step here. A replica
answers in three steps from its own view: limiter and HarborAccess, Secret, answer.
The plugin retries a 503 once after a second. Kubelet stores an answer no later than
`RequestTimeout` after the request. `ledger` is history: to whom a password was
issued, with which promise, and how it ended. A *plan* fixes what starts out and how
often the environment acts, so one run covers several histories.

`SourceLimiter` fills a bucket when it is used and forgets idle ones; it is composed
into `Credentials` at the handler's first step. In the plan that limits, the replica
in use is one, as the limiter is per process.

### Harbor client

A call is one or more listings, every page is a request, and every request first
reads the credentials: `Readlink` of `..data`, username, password, and `Readlink`
again after a failed read, each a step. Harbor, which may ignore the filter, the
range or the sort, and kubelet, which swaps the volume, are external. Names are
sequences of parts, as prefixes and suffixes decide what a lookup makes of them.

### Installer

Each install has a pod that makes passes: locks, check, staging, plan, record,
binary, config, environment file, restart, verification, rollback, state file, one
step per file that is replaced. A pass can die or fail after each, kubelet can
restart by itself, charts can be upgraded. `systemctl restart` can fail with kubelet
restarted or not, at the restart onto the new files and at the one back. An entry is a
version and a home directory. CA and certificate files, which no pass reads back, are left out.

`EnvFile` has the parser, the merge and the choice of the file as functions; the
environment writes a file a piece at a time, and the properties compare what systemd
and kubelet make of the files before and after. `Glob` has `expandEnvFile` and, next to
it, glob(3) and fnmatch(3) as POSIX describes them: a bracket expression is the set of
places between its brackets, not a scan, and shares no definition with `globBracket`.

## 3. What TLC checks

| run | instance | properties |
|---|---|---|
| `lifecycle_faults` | 1 object, 2 accounts, 2 edits, 2 faults, 1 due rotation | `TypeOK`, `FinalizerCoversRobot`, `DeadPasswordIsDue`, `ResumeNeedsNewPassword` |
| `lifecycle_admin` | 1 object, janitor, 1 edit, 1 act of an administrator (of 8 kinds), 1 due rotation | `ForeignLeftAlone`, `Converges` |
| `shared` | 2 objects, 1 account, selector, janitor, 1 edit | `FirstOwnerKeepsRobot`, `Converges` |
| `lifecycle_live` | 1 object, 2 replicas, lagging takeover, janitor, 1 edit, 1 fault | `SweepSparesWanted`, `Converges` |
| `keyset` | 2 requests, 2 keys, 3 tokens, 4 time units | `TypeOK`, `ServingHasKeys`, `FetchesSpaced`, `PickedUpInTime`, `WithdrawnStaysOut`, `EveryCallReturns` |
| `credentials` | 7 plans over 2 objects, 2 accounts, 2 replicas, 2 nodes | `TypeOK`, `PromiseKept`, `RightRobot`, `PullEnds`, `CredentialsArrive`, `LimiterKeepsRate` |
| `harbor_client` | 10 kinds of Harbor, pages of 2, 3 changes, 4 versions of the Secret | `TypeOK`, `ListingComplete`, `NotFoundMeansAbsent`, `MismatchIsReal`, `CredentialsOfOneVersion`, `ReadSurvivesSwaps`, `CallReturns` |
| `installer` | 2 installs, 5 histories, 1 crash, I/O error or failed restart each | `TypeOK`, `CanStart`, `RestartFindsBinaries`, `SuccessMeansLive`, `SiblingsKept`, `RestartsEnd`, `MoveCompletes` |
| `env_file` | files of up to 4 pieces, units with up to 2 settings, patterns of 4 characters of 14, bracket expressions of up to 8 | `OthersKept`, `FlagsArrive`, `MergedOnce`, `ExpandsAsGlob` |

**Control plane.** *FinalizerCoversRobot*: a robot of a HarborAccess never exists
without the object and its finalizer, or deleting the object would leave a valid
password. *DeadPasswordIsDue*: a stored password Harbor no longer accepts comes with
a reason to rotate it. *ResumeNeedsNewPassword*: a suspended robot is enabled only
with a password from after the suspension. *FirstOwnerKeepsRobot*: two objects for
one account do not take the robot from each other. *ForeignLeftAlone*: what is not
the bridge's is not touched. *SweepSparesWanted*: the janitor deletes a robot its
owner uses only if a user changed an owner during that sweep; an edit between the
last read and the deletion is not noticed, and the next pass creates the robot again.
*Converges*: after the last edit, act and fault every object is served or says what
blocks it, is suspended when refused (unless its finalizer was taken off by hand,
when `suspend` makes no call), and leaves nothing when deleted or unselected.

**Keys.** A request storm causes no fetch storm, a failed fetch loses no key, a key
published for one rate limit plus one fetch is not called a bad signature, a withdrawn
key is not accepted after a fetch that saw it withdrawn, and everyone who waits is
woken.

**Credentials.** *PromiseKept*: what kubelet caches under a promise is not rotated by
schedule, whichever replica answered from however old a cache. *RightRobot*: a pod
gets the password of its own account's robot or none. *PullEnds*, *CredentialsArrive*:
every run of the plugin ends, and a pod whose account stays served gets the password
again and again. *LimiterKeepsRate*: the limiter implements `TokenBuckets`.

**Harbor client.** What a listing or lookup reports was so: no robot missed or doubled
(*ListingComplete*), "not found" only if absent, a prefix mismatch only if there is
one or the robot was deleted between two lookups. A request uses one version of the
credentials, a read fails only after as many swaps or failures as attempts, and every
call returns. Exempt: a Harbor that ignores the filter and prepends another prefix
(*NotFoundMeansAbsent*), which nothing lets the client notice; and a Harbor that
ignores the sort alone, whose pages may increase by chance, is not among the kinds.

**Installer.** Wherever a pass stops, kubelet can start (*CanStart*). Excepted are the
time between the steps of a rollback, and the flags left by a pass that changed the bin
directory alone and died before its restart: the next passes ask the running kubelet for
its directories (`blockingInstalls`) and may write the config for the old bin directory.
The restarts that a pass makes have no exception: it restarts kubelet only with a config
in which every entry has its binary (*RestartFindsBinaries*). A
patch-mode success means that kubelet runs the entry. No
install is taken out of kubelet's next start by another one. Restarts end, and a move
of all installs completes. The environment file keeps all other variables, the flags
arrive with the operator's other arguments, a second merge changes nothing, and
wildcards name what glob(3) names, or are refused for a class, a symbol or a symlink
(*ExpandsAsGlob*). Left out there is a range that ends in a collating symbol,
`[a-[.b.]]`: the comment of `globMatch` says that symbols in a bracket expression are an
error, and `globBracket` takes the `[` for the end of the range. A comment continued by a systemd before v254 is
judged only if the swallowed line has no quote or backslash (`PlainComments`).

### Bounds

A pass has some fifteen calls, and an edit, act or fault can come between any two;
two are enough for one to race with a pass and another with its repair. Two accounts
give an object an old and a new robot; two objects compete for one name. Three robots
allow the first, a replacement and one more; a behaviour that ends because a fourth
would be needed is not judged by `Converges`. `RetrySteps` is 2 instead of 5: each
further attempt is the same step. With `MinRefresh` 2, `MaxAge` 3 and `FetchTimeout`
1, four time units hold the first fetch, one at the earliest allowed time, and one for
stale keys. In `Credentials` the interval is two seconds of two steps each, so that
rounding matters, and margin, request and skew are at the edge of what the assumption
allows. Pages of 2 with at most 2 pages put three robots across a page boundary and
four beyond the limit. An installer history needs one fault; `crash_window` has two. A
closed range takes five characters and a negated or escaped one six, so bracket
expressions are written longer than other patterns, over the characters that matter in
them. The largest run is `harbor_client` with 175,270 states; `installer` has 165,538 and
`env_file` 98,847.

`CHECK_DEADLOCK FALSE` appears where the system may really stop: all plans, budgets
or texts are used up, no object is left and there is no janitor, or the bridge exits
as `prime` failed. In the other runs the absence of deadlock is checked.

### Fairness

* Control plane: a pass or sweep that began goes on, because every call has a timeout,
  and the janitor has a ticker (weak). `Reconcile(h)` is strongly fair for every
  object: the one worker is busy with other keys now and then, but the work queue
  hands every key out again (`requeueAfter`, `resyncAfter`, back-off). Informer caches
  catch up.
* Keys: goroutines run, and a fetch ends by its timeout. That a request's context
  ends is not assumed.
* Credentials: as for the control plane; the clock goes on, requests are answered or
  time out, and kubelet pulls again while it has no credentials.
* Harbor client: a call goes on; its timeout ends a request that is not answered.
* Installer: a running pass goes on, a pod whose pass failed or is due is started
  again, systemd restarts a kubelet that exited (weak); a lock is polled five times a
  second, so one that is free again and again is obtained (strong).

Nothing is assumed about users, administrators or faults.

### Disagreements with the documentation

Three runs check a sentence of the documentation that the code does not keep:

* `selective_release`: ADR-0032 says that a robot never exists on an object without
  the finalizer. With a selector, an object relabelled during a pass loses its
  finalizer between the janitor's second listing and the pass's `Create`. The janitor
  removes the robot later (`shared`).
* `admin_disable`: the comment at step 10 and ADR-0023 say that an administrator's
  decision to disable a robot is never undone. `Update` sends the flag its lookup
  read, which enables a robot disabled in between.
* `crash_window`: the state file is there to survive a crash between files and
  restart. In the shortest counterexample a pass restarts kubelet onto version 2, the
  verification fails, the rollback restores the config, and the pass dies before it
  restarts kubelet back. The chart goes back to version 1, and the next pass finds its
  files and its state file as it wants them and reports success, while kubelet runs
  version 2. Two passes that die, one between its restart and the state file and one
  before its restart, lead to the same.

## 4. What is proved

Proofs hold for every value of the constants. The assumptions `BridgeAssumption`,
`AdminAssumption`, `KeySetAssumption`, `DistinctAssumption`, `RecordAssumption`,
`PlansAreWellFormed`, `HarborClientAssumption` and `InstallerAssumption` say only that
plans have their type, special values differ from ordinary ones and bounds are numbers.
The others have content:

* `LimiterAssumption`: a bucket is full before it may be dropped.
* `ClockAssumption`: `RequestTimeout + Skew <= RotationSafetyMargin`, which is what
  `contract.go` asks of the margin, and the rotation interval is in whole seconds.
* `HarborAssumption`: IDs and names in Harbor are unique, the name of an editable robot
  is one that Harbor accepts, and a Harbor that honours the range honours the sort.
* `WantedAssumption`: the names the bridge looks up do not begin with the robot prefix.

| theorem | module | states |
|---|---|---|
| `TypeCorrect` | `RobotLifecycleProofs` | `Spec => []TypeOK` |
| `FinalizerSafety` | `FinalizerProofs` | `Undisturbed` implies `Spec => []FinalizerCoversRobot` |
| `DeadPasswords` | `RobotProofs` | `Spec => []DeadPasswordIsDue` |
| `OwnersKeepRobots` | `RobotProofs` | `Spec => FirstOwnerKeepsRobot` |
| `ForeignSpared` | `RobotProofs` | `Spec => ForeignLeftAlone` |
| `WantedSpared` | `SweepProofs` | `Spec => SweepSparesWanted` |
| `ResumesRotate` | `RobotProofs` | `"disable" \notin Admin` implies `Spec => ResumeNeedsNewPassword` |
| `KeySetTypes`, `ServingKeys` | `KeySetProofs` | `Spec => []TypeOK`, `Spec => []ServingHasKeys` |
| `FetchSpacing`, `WithdrawnKeys`, `NewKeysPickedUp` | `KeySetProofs` | `FetchesSpaced`, `WithdrawnStaysOut`, `PickedUpInTime` |
| `LimiterImplements` | `CredentialProofs` | `SourceLimiter` implements `TokenBuckets` |
| `CredentialTypesHold` | `CredentialProofs` | `Spec => []TypeOK` |
| `PromiseHolds`, `AnswersAreRight` | `CredentialProofs` | `Spec => []PromiseKept`, `Spec => []RightRobot` |
| `ClientTypes`, `ListingIsComplete` | `HarborClientProofs` | `Spec => []TypeOK`, `Spec => []ListingComplete` |
| `NotFoundIsAbsent`, `MismatchesAreReal` | `HarborClientProofs` | `Spec => []NotFoundMeansAbsent`, `Spec => []MismatchIsReal` |
| `OneVersion`, `ReadsSurviveSwaps` | `HarborClientProofs` | `Spec => []CredentialsOfOneVersion`, `Spec => []ReadSurvivesSwaps` |
| `InstallerTypes`, `RestartsFindBinaries` | `InstallerProofs` | `Spec => []TypeOK`, `Spec => []RestartFindsBinaries` |

**Types of the control plane.** `TypeOK`, with robot IDs unique and below `nextID`, is
inductive together with `PassNamed` (a pass works on a key, and one that provisions on
an accepted spec). There is one lemma per action.

**The finalizer.** `FinalizerCoversRobot` is not inductive: a pass creates a robot
because a *copy* of the object had the finalizer, and removes the finalizer because a
*listing* was empty. `FinalizerInv` ties both to the present. Copies are old or
current, and one with the current version is the object (`CachesAsOf`, `PassCopy`). If
the leader's cache shows an object to provision that holds the finalizer, the object
holds it (`CacheCovered`), as it does while a pass may claim a robot (`PassCovered`). A
pass that removes the finalizer on a current copy does not coexist with such a cache
(`PassWithdraws`; the optimistic lock of the patch), and has no robot of its object
left (`PassRobots`; the one worker). `Undisturbed` excludes a selector, a takeover by
a lagging replica and a finalizer taken off by hand, each of which breaks the property
(`selective_release` shows the first).

**Robots and Secrets.** `RobotInv` says what a pass and a sweep know of the robots and
Secrets they read, however these changed since; it needs no condition.

* Only the bridge writes credentials, it stamps them, and the robot they are for is of
  the same HarborAccess (`SecretsStamped`).
* From reading the Secret until it replaces the password, a pass has the stored
  credentials in hand, with at least as little time left; a Secret with the version or
  UID it read is not foreign; it rotates only for a reason (`PassSecret`). This
  carries `DeadPasswordIsDue` over `RefreshSecret`: the reason seen in the copy still
  holds of the Secret when the password in it dies.
* The robot in hand has the name looked up, no owner or the right one, and the password
  to be stored; before it is enabled its password is new (`PassRobot`). Robots listed
  for deletion still have the owner they were listed with (`SweepRobots`, as robots
  change owner only from none), and Secrets to be deleted are identified by UID
  (`SweepSecrets`).

Every action is shown to keep `RobotInv` and to be `Safe`: robots keep their IDs, names
and owners, change only by a pass for their owner, by adoption, by the janitor or by an
administrator, are enabled only with a new password, and foreign Secrets stay. The
three action properties follow. `ResumesRotate` needs that no administrator disables
robots by hand: otherwise the `Update` of step 7 can echo a flag from before
(`admin_disable` has the same root).

**The sweep.** A sweep reads the owner of a robot, finds that it does not want the
robot, and deletes it in a later step. `SweepInv` says that the verdict stands until
then unless a user edited an object since the sweep began (`Condemned`). The bridge's
own writes keep it, because each is made from a copy that is the object itself or has
an old version (`CopiesAsOf`), and a write from an old one is refused: what the bridge
writes has the spec and labels of what it replaces. That the robot to be deleted is
the one that was judged needs the names of the robots listed (`SweepNames`) and
`RobotInv`.

**Keys.** `SpacingInv` says that `inflight` names the only fetch that runs, and that
`doneAt` is not before the end of any other. `KeyInv` adds, for every fetch, which keys
were withdrawn before it began and which it must have seen; for the cache, that it
holds what a finished fetch holds; and for every request, the same of what it read.

**Credentials.** `CredentialInv` follows a password: it is issued to one account,
published once with a promise that never changes (`LedgerInv`), every Secret and every
cached copy of one carries that promise or none yet (`SecretInv`, `ViewInv`), what a
pass read is still what it replaces (`PassInv`), an answer and kubelet's cache end no
later than `RequestTimeout` after the promise (`PullInv`, `CacheInv`), and the schedule
ends a password no earlier than the margin after it. `LegacyInv` covers Secrets of a
bridge without promises.

**Limiter.** `LimiterInv` (a bucket was filled no later than used) and the lemma that a
bucket old enough to be dropped is full give the refinement mapping, `LevelOf`.

**Harbor client.** `ClientInv` says of the call that runs: `WalkInv`: every robot that has been
there since the listing began and has an ID up to the cursor has been listed, in order,
so that a page that is not full ends the listing with all of them. `LookupInv`: what
the listings made before the present one left out, which is what "not found" and
"mismatch" are concluded from (`HitInv`, `AnswerInv`). `VolumeInv`: the attempts made are paid for by swaps and
failures, and a read that goes through has read one directory. Pages are what the sort
puts first; that they exist and are unique is by the least element of a set of numbers
(`Least`), which stands in for induction.

**Installer.** `RestartFindsBinaries` alone is not inductive: a pass restarts kubelet
several steps after it planned the config, with other installs' entries in it, and other
passes go on meanwhile. It is proved for any directories: a pass may change the config,
the bin directory or both. `InstallerInv` says of every pass (`PassInv`):

* it holds the locks of its mode: the node lock, unless its mode is `none`, and the lock
  of its own config from before the plan to its end;
* the steps it has left are in order: plan, binary, config, flags, restart, so that a
  step finds done what it needs (`StepNeeds`);
* from the plan on, every entry of another install in the planned config has its binary
  in the bin directory planned for (`Planned`; `siblingIn` asks for the binary,
  `checkKubeletCanStart` in a cloud's config), and its own once it wrote it (`HasBinary`);
* from the config step on the file is the planned one (`Written`): whoever writes it
  holds its lock; from the flags on the environment file ends in the planned flags
  (`Wired`): whoever writes it holds the node lock.

A binary is never removed, so no pass takes away what another one established, and a
crash loses only the steps. That the last flags win is shown for any command line
(`OwnFlags`).

The inductive invariants were model-checked on the runs' instances before they were
proved.

### Only model-checked

* Everything under fairness: `Converges`, `EveryCallReturns`, `PullEnds`,
  `CredentialsArrive`, `CallReturns`, `RestartsEnd`, `MoveCompletes`. The prover has no
  rule for fairness.
* `EnvFile` and `Glob`: parsers are recursive, and what a recursive definition computes
  for every input needs an induction the provers cannot do.
* `CanStart` and `SuccessMeansLive` of the installer: they hold in the histories of the
  run, not for all constants. `crash_window` refutes the second with two crashes. The
  first excuses a rollback that was cut short until the install's next pass ends; a chart
  that is switched to mode `none` meanwhile ends that pass without kubelet's config. What
  holds in every history is `RestartFindsBinaries`.
* `SiblingsKept` of the installer: it rests on the records and state files of all
  installs at once, for which no inductive invariant has been found.

## 5. Not modelled

* The credential server: certificate reloads and the drain of one HTTP server, timers
  around library calls.
* Several bridges on one cluster (the per-instance and the shared finalizer).
* Startup order and shutdown budgets, claim checks of one token, the hash in a Secret's
  name, permission conversion, YAML editing, file modes, the scan of `/proc`, parsing of
  `systemctl`'s output, CA and client certificate files: functions without state, or
  deadlines of one process.
* A credentials directory that is not a kubelet volume: it is never swapped.
* Metrics, logging, generated code and the toolchain check.
