----------------------------- MODULE Installer -----------------------------
(***************************************************************************)
(* The node installer (installer/run.go and the files next to it): several *)
(* installs of the chart on one node, each with a pod that makes passes.   *)
(* A pass puts the install's plugin binary into a bin directory and its    *)
(* entry into the credential-provider config kubelet reads, points kubelet *)
(* at both, restarts it and verifies the restart.  Kubelet has one config  *)
(* and one bin directory, so the installs share them.                      *)
(*                                                                         *)
(* Every file that a pass replaces is one step: a pass can die, or fail on *)
(* an I/O error, between any two of them, and kubelet can restart by       *)
(* itself.  A file is replaced atomically (replaceFile).  An entry is the  *)
(* version of the chart values it was rendered from and the hostConfigDir  *)
(* its CA path names.  The CA and mTLS files themselves, which no pass     *)
(* reads back, are left out.                                               *)
(***************************************************************************)
EXTENDS Integers, Sequences, FiniteSetsExt

CONSTANTS
    Installs,       \* the installs of the chart on the node, by provider name
    BinDirs,        \* directories of plugin binaries
    Configs,        \* credential-provider config files, one per directory
    Versions,       \* what chart values render into an entry, by version
    Plans,          \* the histories of a node to consider (below)
    First,          \* the install an installer without records left behind
    CloudWiring,    \* the directories a cloud's kubelet unit names
    Kubelets,       \* kubelet identities (binary, command line, --config)
    FirstKubelet,   \* the one the node starts with
    Rejects,        \* pairs <<k, v>>: kubelet k exits on an entry of version v
    Cloud,          \* the name, and the entry, of the cloud's own provider
    NoEntry, NoFile, NoRecord, NoState, NoOwner, NoRejection, Unknown, Unwired

VARIABLES
    disk,       \* the node's files
    kubelet,    \* the kubelet process and the files it read when it started
    locks,      \* flock owners: the node lock and one lock per config
    pass,       \* the pass each install's pod is making
    chart,      \* each install's values, whether a pass is due, how the last ended
    budget      \* the upgrades, faults and kubelet restarts still to come at most

vars == <<disk, kubelet, locks, pass, chart, budget>>

Names == Installs \cup {Cloud}
Entry == [ver: Versions, home: Configs]
Wiring == [bin: BinDirs, config: Configs]
Locks == {"node"} \cup Configs
Modes == {"auto", "patch", "merge", "none"}

\* The chart values of an install: plugin.install.mode, its own directories,
\* what it renders, and the merge targets that override discovery.
Chart == [mode: Modes, wiring: Wiring, ver: Versions, override: Wiring \cup {Unwired}]

\* A plan says how the node looks before the first pass, the values every
\* install starts with and those it may be given later, and bounds how often
\* the environment acts.
Plan == [node: {"bare", "cloud", "legacy"}, start: [Installs -> Chart],
         menu: [Installs -> SUBSET Chart],
         budget: [upgrades: Nat, faults: Nat, kubelet: Nat]]

\* Arguments of kubelet's command line: the two flags, and any other.
Arg == ({"bin"} \X BinDirs) \cup ({"config"} \X Configs) \cup {<<"other">>}

Content == [Names -> Entry \cup {Cloud, NoEntry}]

ASSUME InstallerAssumption ==
    /\ Plans \subseteq Plan
    /\ First \in Installs /\ CloudWiring \in Wiring /\ FirstKubelet \in Kubelets
    /\ NoEntry \notin Entry \cup {Cloud} /\ NoFile \notin Content
    /\ NoOwner \notin Installs /\ Unwired \notin BinDirs \cup Configs

Record == [entries: SUBSET Entry, claim: Configs \cup {NoFile}]
Target == [mode: {"patch", "merge", "none"}, wiring: Wiring, entry: Entry,
           env: Seq(Arg), file: Content]
Rejection == [target: Target, kubelet: Kubelets \cup {Unknown}]
State == [mode: {"patch", "merge", "none"}, wiring: Wiring \cup {Unwired},
          entry: Entry \cup {NoEntry}, env: Seq(Arg),
          file: Content \cup {NoFile}, rejected: Rejection \cup {NoRejection}]

(***************************************************************************)
(* Kubelet's flags.                                                        *)
(***************************************************************************)
\* flagValue: the last occurrence wins.
flagValue(args, flag) ==
    LET set == {n \in DOMAIN args : args[n][1] = flag}
    IN  IF set = {} THEN Unwired ELSE args[Max(set)][2]

\* The wiring a command line gives kubelet; one flag alone counts as none.
kubeletWiring(args) ==
    LET w == [bin |-> flagValue(args, "bin"), config |-> flagValue(args, "config")]
    IN  IF Unwired \in {w.bin, w.config} THEN Unwired ELSE w

\* KUBELET_EXTRA_ARGS without the two flags, and ours appended.
mergeExtraArgs(args, w) ==
    LET others[n \in 0..Len(args)] ==
            IF n = 0 THEN <<>>
            ELSE IF args[n][1] \in {"bin", "config"} THEN others[n - 1]
            ELSE Append(others[n - 1], args[n])
    IN  others[Len(args)] \o << <<"bin", w.bin>>, <<"config", w.config>> >>

\* What the unit starts kubelet with: its own arguments, then the
\* environment file's.
CommandLine == disk.unit \o disk.env

(***************************************************************************)
(* Starting kubelet.  It exits on a config that is missing, empty, names a *)
(* provider without a binary, or holds an entry this kubelet rejects.      *)
(***************************************************************************)
HasBinaries(w) ==
    /\ disk.config[w.config] # NoFile
    /\ \E n \in Names : disk.config[w.config][n] # NoEntry
    /\ \A n \in Names :
          disk.config[w.config][n] # NoEntry => n \in disk.binaries[w.bin]

AcceptsEntries(k, w) ==
    \A n \in Installs : disk.config[w.config][n] # NoEntry
                           => <<k, disk.config[w.config][n].ver>> \notin Rejects

Starts(k) ==
    LET w == kubeletWiring(CommandLine)
    IN  w # Unwired => (HasBinaries(w) /\ AcceptsEntries(k, w))

\* The process after a (re)start of the unit under identity k.
Started(k) ==
    LET w == kubeletWiring(CommandLine)
    IN  [up |-> Starts(k), wiring |-> w, identity |-> k,
         live |-> IF Starts(k) /\ w # Unwired THEN disk.config[w.config] ELSE NoFile]

(***************************************************************************)
(* Entries, records and configs.                                           *)
(***************************************************************************)
ownWiring(i) == chart.values[i].wiring

EntryOf(i) == [ver |-> chart.values[i].ver, home |-> ownWiring(i).config]

rendered(i) == [n \in Names |-> IF n = i THEN EntryOf(i) ELSE NoEntry]

holds(r, e) == r # NoRecord /\ e \in r.entries

\* Mutant: a record alone vouches for an entry.
siblingInRecord(b, i, file, n) ==
    /\ n \in Installs \ {i}
    /\ file[n] # NoEntry
    /\ holds(disk.record[b][n], file[n])

\* The entry of n in a chart-owned config is another install's, as that
\* install's record next to its binary in b vouches, and stays.
siblingIn(b, i, file, n) ==
    /\ n \in Installs \ {i}
    /\ file[n] # NoEntry
    /\ n \in disk.binaries[b]
    /\ holds(disk.record[b][n], file[n])

\* A chart-owned config after this install's pass.
chartOwnedConfigIn(i, w) ==
    LET file == disk.config[w.config]
    IN  IF file = NoFile THEN rendered(i)
        ELSE [n \in Names |->
                 IF n = i THEN EntryOf(i)
                 ELSE IF siblingIn(w.bin, i, file, n) THEN file[n]
                 ELSE NoEntry]

\* A cloud's config after this install's pass.
mergeProvider(i, w) == [disk.config[w.config] EXCEPT ![i] = EntryOf(i)]

claimsChartOwned(w) ==
    \E n \in Installs : /\ disk.record[w.bin][n] # NoRecord
                        /\ disk.record[w.bin][n].claim = w.config

\* The other entries of a cloud's config that kubelet would exit on.
checkKubeletCanStart(i, w) ==
    \A n \in Names \ {i} :
        disk.config[w.config][n] # NoEntry => n \in disk.binaries[w.bin]

\* The other installs whose entries kubelet would lose by a move from cur to
\* this install's directories.
blockingInstalls(i, cur) ==
    IF cur = Unwired \/ cur = ownWiring(i) \/ disk.config[cur.config] = NoFile
    THEN {}
    ELSE LET file == disk.config[cur.config]
             kept == chartOwnedConfigIn(i, ownWiring(i))
             chartOwned == cur.config = ownWiring(i).config \/ claimsChartOwned(cur)
             counts(n) == chartOwned => siblingIn(cur.bin, i, file, n)
         IN  {n \in Installs \ {i} :
                  file[n] # NoEntry /\ counts(n) /\ kept[n] = NoEntry}

(***************************************************************************)
(* The state file.                                                         *)
(***************************************************************************)
StateOf(t) == [mode |-> t.mode, wiring |-> t.wiring, entry |-> t.entry,
               env |-> t.env, file |-> t.file, rejected |-> NoRejection]

SameTarget(s, t) == s.mode = t.mode /\ s.wiring = t.wiring /\ s.env = t.env

\* Mutant: the state is compared without the entry.
matchesPaths(s, t) == s # NoState /\ SameTarget(s, t)

matches(s, t) == s # NoState /\ SameTarget(s, t) /\ s.entry = t.entry

\* A record without an entry hash is compared by the whole file.
matchesLegacy(s, t) ==
    s # NoState /\ SameTarget(s, t) /\ s.entry = NoEntry /\ s.file = t.file

\* The state an install rejected its last content in; without a verified
\* restart the other fields are empty.
NewState == [mode |-> "none", wiring |-> Unwired, entry |-> NoEntry,
             env |-> <<>>, file |-> NoFile, rejected |-> NoRejection]

testedBy(r, k) == Unknown \in {r.kubelet, k} \/ r.kubelet = k

\* The kubelet that a restart runs, as far as the process table tells: the
\* process of a kubelet that keeps exiting may be there or not.
kubeletIdentity ==
    {kubelet.identity} \cup (IF kubelet.up THEN {} ELSE {Unknown})

\* Mutant: rejected content is tried again.
refuseNothing(i, t, k) == FALSE

refuseRejected(i, t, k) ==
    /\ disk.state[i] # NoState
    /\ disk.state[i].rejected # NoRejection
    /\ disk.state[i].rejected.target = t
    /\ testedBy(disk.state[i].rejected, k)

wiredByOwnPatch(i, w) ==
    /\ disk.state[i] # NoState
    /\ disk.state[i].mode = "patch"
    /\ disk.state[i].wiring = w

(***************************************************************************)
(* Passes.  todo holds the steps still to take.                            *)
(***************************************************************************)
NoTarget == [mode |-> "patch", wiring |-> Unwired, entry |-> NoEntry,
             env |-> <<>>, file |-> NoFile]

Idle == [mode |-> "none", cur |-> Unwired, own |-> Unwired, moving |-> FALSE,
         todo |-> <<>>, prior |-> NoFile, priorEnv |-> <<>>, begun |-> NoRecord,
         target |-> NoTarget, claim |-> NoFile, changed |-> FALSE, torn |-> FALSE]

\* Mutant: the entry before its binary.
WriteFilesEntryFirst == <<"begin", "config", "binary", "commit">>

WriteFiles == <<"begin", "binary", "config", "commit">>
Restart == <<"finish", "verify", "save">>

\* What a rollback restores, in this order.
Rollback(i) == <<"restoreRecord", "restoreConfig">>
                   \o (IF pass[i].mode = "patch" THEN <<"restoreEnv">> ELSE <<>>)

Running(i) == pass[i].todo # <<>>
At(i, step) == Running(i) /\ Head(pass[i].todo) = step

\* Step i goes on with the rest of its pass.
Continue(i, p) == pass' = [pass EXCEPT ![i] = [p EXCEPT !.todo = Tail(@)]]
GoOn(i) == Continue(i, pass[i])

\* The pass of i ends: its process exits and its locks with it.  A rollback
\* that failed in part stays known until a pass succeeds.
Ends(i, how) ==
    /\ pass' = [pass EXCEPT ![i] = Idle]
    /\ locks' = [l \in Locks |-> IF locks[l] = i THEN NoOwner ELSE locks[l]]
    /\ chart' = [chart EXCEPT !.result[i] = IF @ = "torn" /\ how # "ok" THEN @ ELSE how,
                              !.due = IF how = "ok" THEN @ \ {i} ELSE @ \cup {i}]

\* The lock of config c, for a waiting pass.
Lock(i, l) == locks[l] = NoOwner /\ locks' = [locks EXCEPT ![l] = i]

(***************************************************************************)
(* A pass begins.  Kubelet starts the pod, so it is up.                    *)
(***************************************************************************)
Start(i) ==
    /\ ~Running(i)
    /\ kubelet.up
    /\ pass' = [pass EXCEPT ![i] =
                   IF chart.values[i].mode = "none"
                   THEN [Idle EXCEPT !.own = ownWiring(i),
                                     !.todo = <<"lockOwn", "plan">> \o WriteFiles \o <<"end">>]
                   ELSE [Idle EXCEPT !.todo = <<"lockNode">>]]
    /\ UNCHANGED <<disk, kubelet, locks, chart, budget>>

\* What auto mode resolves to on a kubelet wired as w.
Resolved(i, w) ==
    CASE chart.values[i].mode # "auto" -> chart.values[i].mode
      [] w \in {Unwired, ownWiring(i)} -> "patch"
      [] wiredByOwnPatch(i, w) -> "patch"
      [] OTHER -> "merge"

LockPatchConfigs(i, w) ==
    (IF w # Unwired /\ w.config # ownWiring(i).config THEN <<"lockCurrent">> ELSE <<>>)
        \o <<"lockOwn", "check">>

\* Discovery on the live process, and the mode it leads to.
Discover(i, w) ==
    IF Resolved(i, w) = "patch"
    THEN pass' = [pass EXCEPT ![i] =
                    [@ EXCEPT !.mode = "patch", !.cur = w, !.own = ownWiring(i),
                              !.moving = chart.values[i].mode = "auto"
                                            /\ w \notin {Unwired, ownWiring(i)},
                              !.todo = LockPatchConfigs(i, w)]]
    ELSE pass' = [pass EXCEPT ![i] =
                    [@ EXCEPT !.mode = "merge", !.cur = w, !.own = w,
                              !.todo = <<"lockOwn", "plan">> \o WriteFiles
                                          \o Restart \o <<"end">>]]

\* The node lock, held for the whole pass, and discovery under it.
lockNode(i) ==
    /\ At(i, "lockNode")
    /\ \/ /\ Lock(i, "node")
          /\ \E w \in {IF /\ chart.values[i].mode = "merge"
                         /\ chart.values[i].override # Unwired
                      THEN chart.values[i].override ELSE kubelet.wiring} :
                /\ Resolved(i, w) # "patch" => w # Unwired
                /\ Discover(i, w)
          /\ UNCHANGED chart
       \/ /\ locks["node"] = NoOwner
          /\ \/ ~kubelet.up
             \/ chart.values[i].mode = "merge" /\ kubelet.wiring = Unwired
          /\ chart.values[i].mode = "merge" => chart.values[i].override = Unwired
          /\ Ends(i, "error")
    /\ UNCHANGED <<disk, kubelet, budget>>

lockConfig(i) ==
    /\ \/ At(i, "lockCurrent") /\ Lock(i, pass[i].cur.config)
       \/ At(i, "lockOwn") /\ Lock(i, pass[i].own.config)
    /\ GoOn(i)
    /\ UNCHANGED <<disk, kubelet, chart, budget>>

WaitsFor(i, l) ==
    \/ At(i, "lockNode") /\ l = "node"
    \/ At(i, "lockCurrent") /\ l = pass[i].cur.config
    \/ At(i, "lockOwn") /\ l = pass[i].own.config

Fault == /\ budget.faults > 0
         /\ budget' = [budget EXCEPT !.faults = @ - 1]

\* The wait covers several passes, so only a pass that hangs exceeds it.
lockTimeout(i) ==
    /\ \E l \in Locks : WaitsFor(i, l) /\ locks[l] # NoOwner
    /\ Fault
    /\ Ends(i, "error")
    /\ UNCHANGED <<disk, kubelet>>

(***************************************************************************)
(* Patch mode: move kubelet, stay on the old directories and stage, or     *)
(* refuse.                                                                 *)
(***************************************************************************)
PatchSteps == <<"plan">> \o WriteFiles \o <<"env">> \o Restart

check(i) ==
    LET others == blockingInstalls(i, pass[i].cur) IN
    /\ At(i, "check")
    /\ \/ /\ others = {}
          /\ pass' = [pass EXCEPT ![i].todo = PatchSteps \o <<"end">>]
          /\ UNCHANGED <<locks, chart>>
       \/ /\ others # {} /\ pass[i].moving
          /\ pass' = [pass EXCEPT ![i].own = pass[i].cur,
                                 ![i].todo = PatchSteps \o <<"stage", "end">>]
          /\ UNCHANGED <<locks, chart>>
       \/ /\ others # {} /\ ~pass[i].moving
          /\ Ends(i, "error")
    /\ UNCHANGED <<disk, kubelet, budget>>

\* Mutant: the entry is not staged.
stageFilesOnly(i) ==
    /\ At(i, "stage")
    /\ pass' = [pass EXCEPT ![i] = [Idle EXCEPT
                   !.own = ownWiring(i), !.claim = ownWiring(i).config,
                   !.todo = <<"begin", "binary", "commit", "end">>]]
    /\ UNCHANGED <<disk, kubelet, locks, chart, budget>>

\* After a pass that stayed: this install's files into its own directories.
stageOwnFiles(i) ==
    LET old == pass[i].own
        new == ownWiring(i)
        newBin == new.bin # old.bin
    IN  /\ At(i, "stage")
        /\ pass' = [pass EXCEPT ![i] =
                       [Idle EXCEPT !.own = new, !.claim = new.config,
                          !.todo = (IF newBin THEN <<"begin", "binary">> ELSE <<>>)
                                   \o (IF new.config # old.config THEN <<"plan", "config">> ELSE <<>>)
                                   \o (IF newBin THEN <<"commit">> ELSE <<>>) \o <<"end">>]]
        /\ UNCHANGED <<disk, kubelet, locks, chart, budget>>

(***************************************************************************)
(* What the pass wants, computed before it writes anything.                *)
(***************************************************************************)
ChartOwned(i) == \/ pass[i].mode # "merge"
                 \/ pass[i].own.config = ownWiring(i).config
                 \/ claimsChartOwned(pass[i].own)

TargetOf(i) ==
    LET w == pass[i].own
    IN  [mode |-> pass[i].mode, wiring |-> w, entry |-> EntryOf(i),
         env |-> IF pass[i].mode = "patch" THEN mergeExtraArgs(disk.env, w) ELSE <<>>,
         file |-> IF ChartOwned(i) THEN chartOwnedConfigIn(i, w) ELSE mergeProvider(i, w)]

\* A merge pass needs a config to merge into, and one kubelet starts with.
Mergeable(i) ==
    /\ disk.config[pass[i].own.config] # NoFile
    /\ ChartOwned(i) \/ checkKubeletCanStart(i, pass[i].own)

plan(i) ==
    LET mergeable == pass[i].mode = "merge" => Mergeable(i) IN
    /\ At(i, "plan")
    /\ \E k \in kubeletIdentity :
          IF mergeable /\ ~refuseRejected(i, TargetOf(i), k)
          THEN /\ Continue(i, [pass[i] EXCEPT
                                 !.prior = disk.config[pass[i].own.config],
                                 !.priorEnv = disk.env,
                                 !.target = TargetOf(i),
                                 !.claim = IF ChartOwned(i) THEN pass[i].own.config
                                           ELSE NoFile])
               /\ UNCHANGED <<locks, chart>>
          ELSE Ends(i, "error")
    /\ UNCHANGED <<disk, kubelet, budget>>

(***************************************************************************)
(* The files, each replaced in a step of its own.                          *)
(***************************************************************************)
\* Mutant: the record holds the new entry alone.
beginRecordAnew(i) ==
    LET begun == [entries |-> {EntryOf(i)}, claim |-> pass[i].claim]
    IN  /\ At(i, "begin")
        /\ disk' = [disk EXCEPT !.record[pass[i].own.bin][i] = begun]
        /\ Continue(i, [pass[i] EXCEPT !.begun = begun])
        /\ UNCHANGED <<kubelet, locks, chart, budget>>

\* The record holds the entry now in the config and the one to be written.
beginRecord(i) ==
    LET b == pass[i].own.bin
        held == disk.record[b][i]
        begun == [entries |-> {EntryOf(i)} \cup (IF held = NoRecord THEN {} ELSE held.entries),
                  claim |-> pass[i].claim]
    IN  /\ At(i, "begin")
        /\ disk' = [disk EXCEPT !.record[b][i] = begun]
        /\ Continue(i, [pass[i] EXCEPT !.begun = begun])
        /\ UNCHANGED <<kubelet, locks, chart, budget>>

installPluginBinary(i) ==
    /\ At(i, "binary")
    /\ disk' = [disk EXCEPT !.binaries[pass[i].own.bin] = @ \cup {i}]
    /\ GoOn(i)
    /\ UNCHANGED <<kubelet, locks, chart, budget>>

writeConfig(i) ==
    LET c == pass[i].own.config
        file == pass[i].target.file
    IN  /\ At(i, "config")
        /\ disk' = [disk EXCEPT !.config[c] = file]
        /\ Continue(i, [pass[i] EXCEPT !.changed = @ \/ disk.config[c] # file])
        /\ UNCHANGED <<kubelet, locks, chart, budget>>

\* Mutant: the record names the bin directory instead of the config.
commitRecordDirs(i) ==
    /\ At(i, "commit")
    /\ disk' = [disk EXCEPT !.record[pass[i].own.bin][i] =
                  [entries |-> {EntryOf(i)}, claim |-> pass[i].own.bin]]
    /\ GoOn(i)
    /\ UNCHANGED <<kubelet, locks, chart, budget>>

commitRecord(i) ==
    /\ At(i, "commit")
    /\ disk' = [disk EXCEPT !.record[pass[i].own.bin][i] =
                  [entries |-> {EntryOf(i)}, claim |-> pass[i].claim]]
    /\ GoOn(i)
    /\ UNCHANGED <<kubelet, locks, chart, budget>>

writeEnv(i) ==
    LET env == pass[i].target.env
    IN  /\ At(i, "env")
        /\ disk' = [disk EXCEPT !.env = env]
        /\ Continue(i, [pass[i] EXCEPT !.changed = @ \/ disk.env # env])
        /\ UNCHANGED <<kubelet, locks, chart, budget>>

(***************************************************************************)
(* The restart, its verification and the state file.                       *)
(***************************************************************************)
\* The restart failed or does not verify: what a rollback has to do.
RejectSteps(i) == IF pass[i].changed THEN Rollback(i) \o <<"restartBack", "reject">>
                  ELSE <<"reject">>

SkipRestart(i) ==
    pass' = [pass EXCEPT ![i].todo = SubSeq(@, 1 + Len(Restart), Len(@))]

finishWithRestart(i) ==
    LET t == pass[i].target
        s == disk.state[i]
        current == ~pass[i].changed /\ matches(s, t)
        legacy == ~pass[i].changed /\ matchesLegacy(s, t)
    IN  /\ At(i, "finish")
        /\ \/ /\ current
              /\ SkipRestart(i)
              /\ UNCHANGED <<disk, kubelet, locks, chart, budget>>
           \/ /\ legacy /\ ~current
              /\ disk' = [disk EXCEPT !.state[i] = StateOf(t)]
              /\ SkipRestart(i)
              /\ UNCHANGED <<kubelet, locks, chart, budget>>
           \/ /\ ~current /\ ~legacy
              /\ kubelet' = Started(kubelet.identity)
              /\ GoOn(i)
              /\ UNCHANGED <<disk, locks, chart, budget>>
           \* systemctl restart fails, and kubelet runs on.
           \/ /\ ~current /\ ~legacy /\ Fault
              /\ pass' = [pass EXCEPT ![i].todo = RejectSteps(i)]
              /\ UNCHANGED <<disk, kubelet, locks, chart>>
           \* The state directory cannot be written: no restart.
           \/ /\ ~current /\ ~legacy /\ Fault
              /\ IF pass[i].changed
                 THEN /\ pass' = [pass EXCEPT ![i].todo = Rollback(i) \o <<"fail">>]
                      /\ UNCHANGED <<locks, chart>>
                 ELSE Ends(i, "error")
              /\ UNCHANGED <<disk, kubelet>>

\* waitKubeletHealthy.  A systemctl call that fails counts as unhealthy.
Healthy(i) == /\ kubelet.up
              /\ pass[i].mode = "patch" => kubelet.wiring = pass[i].own

verify(i) ==
    /\ At(i, "verify")
    /\ \/ /\ Healthy(i)
          /\ GoOn(i)
          /\ UNCHANGED budget
       \/ /\ IF Healthy(i) THEN Fault ELSE UNCHANGED budget
          /\ pass' = [pass EXCEPT ![i].todo = RejectSteps(i)]
    /\ UNCHANGED <<disk, kubelet, locks, chart>>

saveState(i) ==
    /\ At(i, "save")
    /\ disk' = [disk EXCEPT !.state[i] = StateOf(pass[i].target)]
    /\ GoOn(i)
    /\ UNCHANGED <<kubelet, locks, chart, budget>>

(***************************************************************************)
(* Rollback.  Every step runs, also after one that failed.                 *)
(***************************************************************************)
Restored(i) ==
    CASE Head(pass[i].todo) = "restoreRecord" ->
           [disk EXCEPT !.record[pass[i].own.bin][i] = pass[i].begun]
      [] Head(pass[i].todo) = "restoreConfig" ->
           [disk EXCEPT !.config[pass[i].own.config] = pass[i].prior]
      [] Head(pass[i].todo) = "restoreEnv" -> [disk EXCEPT !.env = pass[i].priorEnv]

restore(i) ==
    /\ At(i, "restoreRecord") \/ At(i, "restoreConfig") \/ At(i, "restoreEnv")
    /\ \/ disk' = Restored(i) /\ GoOn(i) /\ UNCHANGED budget
       \/ Fault /\ Continue(i, [pass[i] EXCEPT !.torn = TRUE]) /\ UNCHANGED disk
    /\ UNCHANGED <<kubelet, locks, chart>>

\* The second restart can fail too, and kubelet runs on.
restartBack(i) ==
    /\ At(i, "restartBack")
    /\ \/ kubelet' = Started(kubelet.identity) /\ UNCHANGED budget
       \/ Fault /\ UNCHANGED kubelet
    /\ GoOn(i)
    /\ UNCHANGED <<disk, locks, chart>>

Failed(i) == Ends(i, IF pass[i].torn THEN "torn" ELSE "error")

rejectRestart(i) ==
    LET s == IF disk.state[i] = NoState THEN NewState ELSE disk.state[i] IN
    /\ At(i, "reject")
    /\ \E k \in kubeletIdentity :
          disk' = [disk EXCEPT !.state[i] =
                     [s EXCEPT !.rejected = [target |-> pass[i].target, kubelet |-> k]]]
    /\ Failed(i)
    /\ UNCHANGED <<kubelet, budget>>

fail(i) == At(i, "fail") /\ Failed(i) /\ UNCHANGED <<disk, kubelet, budget>>

succeed(i) == At(i, "end") /\ Ends(i, "ok") /\ UNCHANGED <<disk, kubelet, budget>>

(***************************************************************************)
(* The environment.                                                        *)
(***************************************************************************)
\* A pass dies, or returns early on an I/O error.
die(i) ==
    /\ Running(i)
    /\ Fault
    /\ Ends(i, IF pass[i].torn \/ At(i, "restoreEnv") THEN "torn" ELSE "died")
    /\ UNCHANGED <<disk, kubelet>>

\* helm upgrade or rollback: a new pod with new values.
upgrade(i) ==
    /\ ~Running(i)
    /\ budget.upgrades > 0
    /\ budget' = [budget EXCEPT !.upgrades = @ - 1]
    /\ \E v \in chart.menu[i] \ {chart.values[i]} :
          chart' = [chart EXCEPT !.values[i] = v, !.due = @ \cup {i}]
    /\ UNCHANGED <<disk, kubelet, locks, pass>>

\* Kubelet or the node restarts, possibly into another kubelet.
kubeletRestarts ==
    /\ budget.kubelet > 0
    /\ budget' = [budget EXCEPT !.kubelet = @ - 1]
    /\ \E k \in Kubelets : kubelet' = Started(k)
    /\ UNCHANGED <<disk, locks, pass, chart>>

\* systemd starts a kubelet that exited again, with the files as they are.
kubeletRecovers ==
    /\ ~kubelet.up
    /\ Starts(kubelet.identity)
    /\ kubelet' = Started(kubelet.identity)
    /\ UNCHANGED <<disk, locks, pass, chart, budget>>

(***************************************************************************)
(* The node before the first pass: bare; with a cloud's provider; or with  *)
(* First installed by an installer that kept no records yet.               *)
(***************************************************************************)
EmptyDisk == [config |-> [c \in Configs |-> NoFile],
              record |-> [b \in BinDirs |-> [i \in Installs |-> NoRecord]],
              binaries |-> [b \in BinDirs |-> {}],
              env |-> << <<"other">> >>, unit |-> <<>>,
              state |-> [i \in Installs |-> NoState]]

Only(n, e) == [m \in Names |-> IF m = n THEN e ELSE NoEntry]

CloudDisk == [EmptyDisk EXCEPT
                !.unit = mergeExtraArgs(<<>>, CloudWiring),
                !.config[CloudWiring.config] = Only(Cloud, Cloud),
                !.binaries[CloudWiring.bin] = {Cloud}]

LegacyDisk(v) ==
    LET file == Only(First, [ver |-> v.ver, home |-> v.wiring.config])
        env == mergeExtraArgs(EmptyDisk.env, v.wiring)
    IN  [EmptyDisk EXCEPT
           !.env = env,
           !.config[v.wiring.config] = file,
           !.binaries[v.wiring.bin] = {First},
           !.state[First] = [mode |-> "patch", wiring |-> v.wiring, entry |-> NoEntry,
                             env |-> env, file |-> file, rejected |-> NoRejection]]

Init ==
    \E p \in Plans :
       /\ chart = [values |-> p.start, menu |-> p.menu, due |-> Installs,
                   result |-> [i \in Installs |-> "none"]]
       /\ disk = CASE p.node = "bare" -> EmptyDisk
                   [] p.node = "cloud" -> CloudDisk
                   [] p.node = "legacy" -> LegacyDisk(p.start[First])
       /\ kubelet = Started(FirstKubelet)
       /\ locks = [l \in Locks |-> NoOwner]
       /\ pass = [i \in Installs |-> Idle]
       /\ budget = p.budget

Step(i) ==
    \/ check(i) \/ stageOwnFiles(i) \/ plan(i)
    \/ beginRecord(i) \/ installPluginBinary(i) \/ writeConfig(i)
    \/ commitRecord(i) \/ writeEnv(i)
    \/ finishWithRestart(i) \/ verify(i) \/ saveState(i)
    \/ restore(i) \/ restartBack(i) \/ rejectRestart(i) \/ fail(i) \/ succeed(i)

Next ==
    \/ \E i \in Installs :
          \/ Start(i) \/ lockNode(i) \/ lockConfig(i) \/ lockTimeout(i)
          \/ Step(i) \/ die(i) \/ upgrade(i)
    \/ kubeletRestarts
    \/ kubeletRecovers

Spec == Init /\ [][Next]_vars

(***************************************************************************)
(* Every running pass goes on.  A pod whose pass failed, died or has not   *)
(* run for its values is started again; one that succeeded may be.  A lock *)
(* is polled five times a second, so a pass that waits for one that is     *)
(* free again and again gets it.  systemd restarts a kubelet that exited.  *)
(***************************************************************************)
Fairness ==
    /\ \A i \in Installs :
          /\ WF_vars(Step(i))
          /\ WF_vars(i \in chart.due /\ Start(i))
          /\ SF_vars(lockNode(i))
          /\ SF_vars(lockConfig(i))
    /\ WF_vars(kubeletRecovers)

LiveSpec == Spec /\ Fairness

-----------------------------------------------------------------------------
(***************************************************************************)
(* Properties.                                                             *)
(***************************************************************************)
\* The entries kubelet reads when it starts next.
NextStart ==
    LET w == kubeletWiring(CommandLine)
    IN  IF w = Unwired \/ disk.config[w.config] = NoFile
        THEN [n \in Names |-> NoEntry] ELSE disk.config[w.config]

\* n keeps a record in the bin directory of kubelet's next start.
Recorded(n) ==
    LET w == kubeletWiring(CommandLine)
    IN  w # Unwired /\ disk.record[w.bin][n] # NoRecord

Disk == [config: [Configs -> Content \cup {NoFile}],
         record: [BinDirs -> [Installs -> Record \cup {NoRecord}]],
         binaries: [BinDirs -> SUBSET Names], env: Seq(Arg), unit: Seq(Arg),
         state: [Installs -> State \cup {NoState}]]
Process == [up: BOOLEAN, wiring: Wiring \cup {Unwired}, identity: Kubelets,
            live: Content \cup {NoFile}]
Steps == {"lockNode", "lockCurrent", "lockOwn", "check", "stage", "plan", "begin", "binary",
          "config", "commit", "env", "finish", "verify", "save", "restoreRecord",
          "restoreConfig", "restoreEnv", "restartBack", "reject", "fail", "end"}
Pass == [mode: {"patch", "merge", "none"}, cur: Wiring \cup {Unwired},
         own: Wiring \cup {Unwired}, moving: BOOLEAN, todo: Seq(Steps),
         prior: Content \cup {NoFile}, priorEnv: Seq(Arg), begun: Record \cup {NoRecord},
         target: Target \cup {NoTarget}, claim: Configs \cup {NoFile},
         changed: BOOLEAN, torn: BOOLEAN]
Charts == [values: [Installs -> Chart], menu: [Installs -> SUBSET Chart],
           due: SUBSET Installs, result: [Installs -> {"none", "ok", "error", "torn", "died"}]]

\* The types of the files, the process, the locks and the passes.
TypeOK ==
    /\ disk \in Disk /\ kubelet \in Process
    /\ locks \in [Locks -> Installs \cup {NoOwner}]
    /\ pass \in [Installs -> Pass]
    /\ chart \in Charts
    /\ budget \in [upgrades: Nat, faults: Nat, kubelet: Nat]

\* Kubelet runs an entry of n.
Live(n) == kubelet.live # NoFile /\ kubelet.live[n] # NoEntry

\* A rollback of n failed in part or was cut short.
Torn(n) == pass[n].torn \/ chart.result[n] = "torn"

\* A rollback that takes back the flags of the pass that first gave kubelet any.
Unwires == \E i \in Installs : /\ At(i, "restoreEnv")
                               /\ kubeletWiring(disk.unit \o pass[i].priorEnv) = Unwired

\* No step of one install takes another install, whose entry kubelet runs
\* and which keeps a record, out of what kubelet reads at its next start:
\* not a config it composes anew, not a move of kubelet to other
\* directories, not a rollback to earlier directories, and not the next pass
\* after one that died halfway (siblingIn, blockingInstalls,
\* lockPatchConfigs, beginRecord and commitRecord).  Not covered is an install
\* whose own rollback failed in part: it can restore the entry and not the
\* record that vouches for it.
SiblingsKept ==
    [][\A n \in Installs :
          (   /\ Live(n) /\ NextStart[n] # NoEntry /\ Recorded(n)
              /\ pass'[n] = pass[n] /\ ~Torn(n) /\ ~Unwires)
          => NextStart'[n] # NoEntry]_vars

\* Kubelet's flags name another bin directory than an install on the same config,
\* and kubelet does not run with these flags: a pass died between the flags and
\* its restart, and blockingInstalls looks at the running kubelet.
OtherBin(w) ==
    /\ kubelet.wiring # w \/ ~kubelet.up
    /\ \E v \in {kubelet.wiring} \cup {ownWiring(i) : i \in Installs} \cup {pass[i].own : i \in Installs} :
          v # Unwired /\ v.config = w.config /\ v.bin # w.bin

\* Wherever a pass stops, kubelet finds its config and a binary for every
\* entry in it at its next start: record and binary come before the entry,
\* and the entry before the flags.  There are two exceptions.  A rollback,
\* between its steps or cut short, takes the config away before the flags that
\* name it (runPatchOn, rollback).  And a pass that changes the bin directory
\* alone writes the config that kubelet's flags name with the old one, which is
\* right for the running kubelet and not for flags it has not read yet.
CanStart ==
    LET w == kubeletWiring(CommandLine)
        rollback == \E i \in Installs : Torn(i) \/ At(i, "restoreEnv")
    IN  w = Unwired \/ HasBinaries(w) \/ rollback \/ OtherBin(w)

\* A pass points kubelet at directories, restarts it and waits for it only while
\* the config there has an entry and every entry in it has its binary there,
\* other installs' entries included, and once it has written the flags, they are
\* what kubelet starts with.  This holds of every move: of both directories, of
\* one of them, after passes that died and beside none-mode passes on the same
\* config (siblingIn, blockingInstalls, checkKubeletCanStart, lockPatchConfigs
\* and the order of the files in runPatchOn and runMerge).
RestartFindsBinaries ==
    \A i \in Installs :
        (\E s \in {"env", "finish", "verify", "save"} : At(i, s)) =>
            /\ HasBinaries(pass[i].own)
            /\ pass[i].mode = "patch" /\ ~At(i, "env")
                  => kubeletWiring(CommandLine) = pass[i].own

\* A patch-mode pass that succeeds leaves a running kubelet with this
\* install's entry: it restarted kubelet for it, or an earlier pass did and
\* its state file says so.  A pass that died between its files and its
\* restart is made up for by the next one (state, finishWithRestart).  Merge
\* mode is left out: it does not verify kubelet's flags, which another
\* install's pass that died may have changed for the next start.
SuccessMeansLive ==
    \A i \in Installs :
        (At(i, "end") /\ pass[i].mode = "patch" /\ kubelet.up)
            => (kubelet.live # NoFile /\ kubelet.live[i] = EntryOf(i))

\* The installers stop restarting kubelet once charts and faults have
\* settled, however often their pods run again: a pass restarts kubelet only
\* for new content, and content kubelet rejected is not tried again
\* (finishWithRestart, refuseRejected).
RestartsEnd ==
    <>[][\A i \in Installs : At(i, "finish") => ~At(i, "verify")']_vars

\* Once every install has the same directories and auto mode, kubelet moves
\* there and runs all of their entries: the passes that come first stay and
\* stage their files, the last one moves kubelet (stayAndStage).  It needs a
\* kubelet that runs and accepts the entries, and no install whose state file
\* holds a rejection or says that it merged into other directories.
Aligned(w) ==
    /\ kubelet.up
    /\ \A i \in Installs :
          /\ chart.values[i].mode = "auto"
          /\ ownWiring(i) = w
          /\ <<kubelet.identity, chart.values[i].ver>> \notin Rejects
          /\ disk.state[i] # NoState =>
                /\ disk.state[i].rejected = NoRejection
                /\ disk.state[i].mode = "merge" => disk.state[i].wiring = w

MoveCompletes ==
    <>[](\A w \in Wiring : Aligned(w) =>
            /\ kubelet.wiring = w
            /\ \A i \in Installs : kubelet.live[i] = EntryOf(i))
=============================================================================
