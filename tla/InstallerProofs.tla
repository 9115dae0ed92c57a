-------------------------- MODULE InstallerProofs --------------------------
(***************************************************************************)
(* A pass that points kubelet at directories and restarts it finds there   *)
(* a config with an entry and a binary for every one.  The argument is     *)
(* about the order of the steps a pass has still to take, and the locks it *)
(* holds while it takes them: the plan is made of entries whose binaries   *)
(* are there, binaries are never removed, and the config between the plan  *)
(* and the restart is written by the pass that holds its lock alone.       *)
(***************************************************************************)
EXTENDS Installer, WellFoundedInduction, TLAPS

(***************************************************************************)
(* The least number that has a property.                                   *)
(***************************************************************************)
Less == {p \in Nat \X Nat : p[1] < p[2]}

LEMMA LessWellFounded == IsWellFoundedOn(Less, Nat)
  BY NatLessThanWellFounded DEF OpToRel, Less

LEMMA Least ==
    ASSUME NEW S \in SUBSET Nat, S # {}
    PROVE  \E m \in S : \A n \in S : m <= n
  <1>1. PICK m \in S : \A n \in S : <<n, m>> \notin Less
    BY Zenon, LessWellFounded, WFMin
  <1>2. \A n \in S : ~(n < m)
    BY Zenon, <1>1 DEF Less
  <1> QED BY <1>2

(***************************************************************************)
(* Kubelet's command line.                                                 *)
(***************************************************************************)
Flags(w) == << <<"bin", w.bin>>, <<"config", w.config>> >>

\* The last arguments are the flags of w.
EndsIn(args, w) ==
    /\ Len(args) > 1
    /\ args[Len(args) - 1] = <<"bin", w.bin>> /\ args[Len(args)] = <<"config", w.config>>

LEMMA WiringTypes == \A w \in Wiring : w.bin \in BinDirs /\ w.config \in Configs
  BY Zenon DEF Wiring

\* The arguments left after the first n, by the definition of mergeExtraArgs.
Filtered(args, f, k) ==
    [n \in 0..k |-> IF n = 0 THEN <<>>
                    ELSE IF args[n][1] \in {"bin", "config"} THEN f[n - 1]
                    ELSE Append(f[n - 1], args[n])]

LEMMA FilterExists ==
    ASSUME NEW args, NEW k \in Nat
    PROVE  \E f : f = Filtered(args, f, k)
  <1> DEFINE Bad == {m \in Nat : ~\E f : f = Filtered(args, f, m)}
  <1>1. SUFFICES ASSUME Bad # {} PROVE FALSE
    BY Zenon
  <1>2. PICK m \in Bad : \A n \in Bad : m <= n
    BY Zenon, <1>1, Least
  <1>3. m \in Nat /\ ~\E f : f = Filtered(args, f, m)
    BY Zenon
  <1> HIDE DEF Bad
  <1>4. CASE m = 0
    <2> DEFINE f == [n \in 0..0 |-> <<>>]
    <2>1. f = Filtered(args, f, 0)
      BY DEF Filtered
    <2> QED BY Zenon, <1>3, <1>4, <2>1
  <1>5. CASE m # 0
    <2>1. m - 1 \in Nat /\ ~(m <= m - 1)
      BY <1>3, <1>5
    <2>2. PICK f : f = Filtered(args, f, m - 1)
      BY Zenon, <1>2, <2>1 DEF Bad
    <2> DEFINE g == [n \in 0..m |->
                        IF n < m THEN f[n]
                        ELSE IF args[n][1] \in {"bin", "config"} THEN f[n - 1]
                        ELSE Append(f[n - 1], args[n])]
    <2>3. ASSUME NEW n \in 0..m PROVE g[n] = Filtered(args, g, m)[n]
      <3>1. CASE n = 0
        <4>1. f[0] = <<>> /\ g[0] = f[0]
          BY <1>3, <2>1, <2>2, <1>5 DEF Filtered
        <4> QED BY <3>1, <4>1 DEF Filtered
      <3>2. CASE n # 0
        <4>1. n - 1 \in 0..m /\ n - 1 < m /\ g[n - 1] = f[n - 1]
          BY <1>3, <3>2
        <4>2. n < m => f[n] = IF args[n][1] \in {"bin", "config"} THEN f[n - 1]
                              ELSE Append(f[n - 1], args[n])
          <5>1. n < m => n \in 0..(m - 1)
            BY <1>3
          <5> QED BY Zenon, <2>2, <3>2, <5>1 DEF Filtered
        <4>3. g[n] = IF args[n][1] \in {"bin", "config"} THEN f[n - 1]
                     ELSE Append(f[n - 1], args[n])
          BY <1>3, <4>2
        <4> QED BY <3>2, <4>1, <4>3 DEF Filtered
      <3> QED BY <3>1, <3>2
    <2>4. g = Filtered(args, g, m)
      BY <2>3 DEF Filtered
    <2> QED BY Zenon, <1>3, <2>4
  <1> QED BY Zenon, <1>4, <1>5

LEMMA FlagSeq ==
    ASSUME NEW s \in Seq(Arg), NEW w \in Wiring
    PROVE  /\ s \o Flags(w) \in Seq(Arg) /\ Len(s \o Flags(w)) = Len(s) + 2
           /\ (s \o Flags(w))[Len(s) + 1] = <<"bin", w.bin>>
           /\ (s \o Flags(w))[Len(s) + 2] = <<"config", w.config>>
  <1>1. <<"bin", w.bin>> \in Arg /\ <<"config", w.config>> \in Arg
    BY WiringTypes DEF Arg
  <1>2. Flags(w) \in Seq(Arg) /\ Len(Flags(w)) = 2
        /\ Flags(w)[1] = <<"bin", w.bin>> /\ Flags(w)[2] = <<"config", w.config>>
    BY <1>1 DEF Flags
  <1>3. ASSUME NEW t \in Seq(Arg), Len(t) = 2
        PROVE  /\ s \o t \in Seq(Arg) /\ Len(s \o t) = Len(s) + 2
               /\ (s \o t)[Len(s) + 1] = t[1] /\ (s \o t)[Len(s) + 2] = t[2]
    <2>1. /\ s \o t \in Seq(Arg) /\ Len(s \o t) = Len(s) + Len(t)
          /\ \A n \in 1..(Len(s) + Len(t)) :
                (s \o t)[n] = IF n <= Len(s) THEN s[n] ELSE t[n - Len(s)]
      OBVIOUS
    <2>2. Len(s) \in Nat
      OBVIOUS
    <2> QED BY <1>3, <2>1, <2>2
  <1> QED BY Zenon, <1>2, <1>3

LEMMA MergeFacts ==
    ASSUME NEW args \in Seq(Arg), NEW w \in Wiring
    PROVE  mergeExtraArgs(args, w) \in Seq(Arg) /\ EndsIn(mergeExtraArgs(args, w), w)
  <1> DEFINE f == CHOOSE f : f = Filtered(args, f, Len(args))
             k == Len(args)
  <1>1. k \in Nat
    OBVIOUS
  <1>2. f = Filtered(args, f, k)
    BY Zenon, <1>1, FilterExists
  <1>3. mergeExtraArgs(args, w) = f[k] \o Flags(w)
    BY DEF mergeExtraArgs, Filtered, Flags
  <1> HIDE DEF f
  <1> DEFINE Bad == {n \in Nat : n <= k /\ f[n] \notin Seq(Arg)}
  <1>4. Bad = {}
    <2>1. SUFFICES ASSUME Bad # {} PROVE FALSE
      BY Zenon
    <2>2. PICK m \in Bad : \A n \in Bad : m <= n
      BY Zenon, <2>1, Least
    <2>3. m \in Nat /\ m <= k /\ f[m] \notin Seq(Arg)
      BY Zenon
    <2>4. \A n \in Nat : n <= k /\ n < m => f[n] \in Seq(Arg)
      BY <2>2, <2>3
    <2> HIDE DEF Bad
    <2>5. m # 0
      BY <1>1, <1>2, <2>3 DEF Filtered
    <2>6. m - 1 \in Nat /\ f[m - 1] \in Seq(Arg) /\ args[m] \in Arg
      BY <1>1, <2>3, <2>4, <2>5
    <2>7. f[m] = IF args[m][1] \in {"bin", "config"} THEN f[m - 1] ELSE Append(f[m - 1], args[m])
      <3>1. m \in 0..k
        BY <1>1, <2>3
      <3> QED BY Zenon, <1>2, <2>5, <3>1 DEF Filtered
    <2>8. Append(f[m - 1], args[m]) \in Seq(Arg)
      BY <2>6
    <2> QED BY Zenon, <2>3, <2>6, <2>7, <2>8
  <1>5. f[k] \in Seq(Arg)
    BY <1>1, <1>4
  <1> DEFINE s == f[k]
             e == s \o Flags(w)
  <1>6. /\ e \in Seq(Arg) /\ Len(e) = Len(s) + 2 /\ Len(s) \in Nat
        /\ e[Len(s) + 1] = <<"bin", w.bin>> /\ e[Len(s) + 2] = <<"config", w.config>>
    <2>1. s \in Seq(Arg) /\ Len(s) \in Nat
      BY <1>5
    <2> HIDE DEF s
    <2> QED BY Zenon, <2>1, FlagSeq
  <1>7. mergeExtraArgs(args, w) = e
    BY Zenon, <1>3
  <1> HIDE DEF e, s
  <1>8. Len(e) > 1 /\ Len(e) - 1 = Len(s) + 1
    BY <1>6
  <1>9. EndsIn(e, w)
    BY Zenon, <1>6, <1>8 DEF EndsIn
  <1> QED BY Zenon, <1>6, <1>7, <1>9

\* flagValue is the value at the last place of the flag.
LEMMA LastFlag ==
    ASSUME NEW args \in Seq(Arg), NEW flag, NEW m \in DOMAIN args, args[m][1] = flag,
           \A n \in DOMAIN args : n > m => args[n][1] # flag
    PROVE  flagValue(args, flag) = args[m][2]
  <1> DEFINE S == {n \in DOMAIN args : args[n][1] = flag}
  <1>1. m \in S /\ \A n \in S : m >= n
    OBVIOUS
  <1>2. \A n \in S : (\A x \in S : n >= x) => n = m
    BY <1>1
  <1>3. flagValue(args, flag) = IF S = {} THEN Unwired ELSE args[Max(S)][2]
    BY Zenon DEF flagValue
  <1> HIDE DEF S
  <1>4. Max(S) = m
    BY Zenon, <1>1, <1>2 DEF Max
  <1> QED BY Zenon, <1>1, <1>3, <1>4

\* The flags at the end of the environment file are the ones kubelet gets.
LEMMA OwnFlags ==
    ASSUME NEW u \in Seq(Arg), NEW e \in Seq(Arg), NEW w \in Wiring, EndsIn(e, w)
    PROVE  kubeletWiring(u \o e) = w
  <1> DEFINE args == u \o e
             m == Len(u) + Len(e)
  <1>1. /\ args \in Seq(Arg) /\ Len(u) \in Nat /\ Len(e) \in Nat /\ DOMAIN args = 1..m
        /\ \A n \in 1..Len(e) : args[n + Len(u)] = e[n]
    OBVIOUS
  <1>2. /\ Len(e) > 1 /\ e[Len(e) - 1] = <<"bin", w.bin>>
        /\ e[Len(e)] = <<"config", w.config>>
    BY Zenon DEF EndsIn
  <1>3. /\ Len(e) \in 1..Len(e) /\ Len(e) - 1 \in 1..Len(e) /\ m = Len(e) + Len(u)
        /\ m - 1 = (Len(e) - 1) + Len(u) /\ m \in 1..m /\ m - 1 \in 1..m
    BY <1>1, <1>2
  <1>4. args[m - 1] = <<"bin", w.bin>> /\ args[m] = <<"config", w.config>>
    BY Zenon, <1>1, <1>2, <1>3
  <1>5. \A n \in 1..m : (n > m => FALSE) /\ (n > m - 1 => n = m)
    BY <1>1
  <1>6. /\ args[m - 1][1] = "bin" /\ args[m - 1][2] = w.bin
        /\ args[m][1] = "config" /\ args[m][2] = w.config
    BY <1>4
  <1>7. "config" # "bin"
    OBVIOUS
  <1> HIDE DEF args, m
  <1>8. flagValue(args, "bin") = w.bin
    <2> DEFINE k == m - 1
    <2>1. \A n \in DOMAIN args : n > k => args[n][1] # "bin"
      BY Zenon, <1>1, <1>5, <1>6, <1>7
    <2>2. k \in DOMAIN args /\ args[k][1] = "bin" /\ args[k][2] = w.bin
      BY Zenon, <1>1, <1>3, <1>6
    <2> HIDE DEF k
    <2> QED BY Zenon, <1>1, <2>1, <2>2, LastFlag
  <1>9. flagValue(args, "config") = w.config
    <2>1. \A n \in DOMAIN args : n > m => args[n][1] # "config"
      BY Zenon, <1>1, <1>5
    <2>2. m \in DOMAIN args /\ args[m][1] = "config" /\ args[m][2] = w.config
      BY Zenon, <1>1, <1>3, <1>6
    <2> QED BY Zenon, <1>1, <2>1, <2>2, LastFlag
  <1>10. w = [bin |-> w.bin, config |-> w.config]
    BY DEF Wiring
  <1>11. Unwired \notin {w.bin, w.config}
    BY Zenon, WiringTypes, InstallerAssumption
  <1>12. kubeletWiring(args) = w
    BY Zenon, <1>8, <1>9, <1>10, <1>11 DEF kubeletWiring
  <1> QED BY Zenon, <1>12 DEF args

\* Kubelet is wired to two directories, or not at all.
LEMMA CommandLineWiring ==
    ASSUME NEW args \in Seq(Arg)
    PROVE  kubeletWiring(args) \in Wiring \cup {Unwired}
  <1>1. ASSUME NEW flag, NEW D, \A a \in Arg : a[1] = flag => a[2] \in D
        PROVE  flagValue(args, flag) \in D \cup {Unwired}
    <2> DEFINE S == {n \in DOMAIN args : args[n][1] = flag}
               T == {m \in Nat : Len(args) - m \in S}
    <2>1. flagValue(args, flag) = IF S = {} THEN Unwired ELSE args[Max(S)][2]
      BY Zenon DEF flagValue
    <2>2. CASE S # {}
      <3>1. /\ \A n \in S : n \in Nat /\ Len(args) - n \in T /\ args[n][1] = flag /\ args[n] \in Arg
            /\ Len(args) \in Nat
        OBVIOUS
      <3>2. T \subseteq Nat /\ T # {}
        BY Zenon, <2>2, <3>1
      <3>3. PICK m \in T : \A n \in T : m <= n
        BY Zenon, <3>2, Least
      <3>4. Len(args) - m \in S /\ m \in Nat
        BY Zenon, <3>3
      <3> HIDE DEF S, T
      <3>5. \A n \in S : Len(args) - m >= n
        BY <3>1, <3>3, <3>4
      <3>6. Max(S) \in S
        BY Zenon, <3>4, <3>5 DEF Max
      <3> QED BY Zenon, <1>1, <2>1, <2>2, <3>1, <3>6
    <2> QED BY Zenon, <2>1, <2>2
  <1>2. \A a \in Arg : (a[1] = "bin" => a[2] \in BinDirs) /\ (a[1] = "config" => a[2] \in Configs)
    BY DEF Arg
  <1> DEFINE b == flagValue(args, "bin")
             c == flagValue(args, "config")
  <1>3. b \in BinDirs \cup {Unwired} /\ c \in Configs \cup {Unwired}
    BY Zenon, <1>1, <1>2
  <1>4. kubeletWiring(args) = IF Unwired \in {b, c} THEN Unwired ELSE [bin |-> b, config |-> c]
    BY DEF kubeletWiring
  <1> HIDE DEF b, c
  <1>5. Unwired \notin {b, c} => [bin |-> b, config |-> c] \in Wiring
    BY <1>3 DEF Wiring
  <1> QED BY Zenon, <1>4, <1>5

(***************************************************************************)
(* The order of the steps of a pass.                                       *)
(***************************************************************************)
Before(s, x, y) == \A k \in DOMAIN s : s[k] = y => \E j \in 1..(k - 1) : s[j] = x
Ordered(s, x, Y) == \A y \in Y : Before(s, x, y)
Has(s, x) == \E k \in DOMAIN s : s[k] = x
Lacks(s, Y) == \A k \in DOMAIN s : s[k] \notin Y

\* The steps that need the flags written, both files written, the binary
\* installed, the plan made, and the lock of the config held.
NeedEnv == {"finish", "verify", "save"}
NeedFiles == {"env", "finish", "verify", "save"}
NeedBinary == {"config", "stage", "env", "finish", "verify", "save"}
NeedPlan == {"config", "env", "finish", "verify", "save", "restoreConfig", "restoreEnv", "reject"}
NeedLock == {"check", "plan", "config", "stage", "env", "finish", "verify", "save",
             "restoreConfig"}
Restores == {"restoreRecord", "restoreConfig", "restoreEnv"}
EnvSteps == {"env", "restoreEnv"}

\* The plan comes before what it plans.
PlanFirst(s) ==
    \A j, k \in DOMAIN s : s[j] = "plan" /\ s[k] \in {"config", "env"} => j < k

\* The steps s of a pass in mode m: only a patch writes the environment file, a
\* rollback is the end of a pass, and a pass that has still to plan has still to write.
Shape(s, m) ==
    /\ m = "patch" \/ Lacks(s, EnvSteps)
    /\ Lacks(s, Restores) \/ Lacks(s, NeedFiles)
    /\ PlanFirst(s)
    /\ Has(s, "plan") => /\ Ordered(s, "config", NeedFiles)
                         /\ m = "patch" => Ordered(s, "env", NeedEnv)

LEMMA TailOrdered ==
    ASSUME NEW s \in Seq(Steps), s # <<>>, NEW x, NEW Y, Ordered(s, x, Y), Head(s) # x
    PROVE  Ordered(Tail(s), x, Y)
  <1>1. /\ Tail(s) \in Seq(Steps) /\ Len(s) \in Nat \ {0} /\ Head(s) = s[1]
        /\ DOMAIN Tail(s) = 1..(Len(s) - 1) /\ DOMAIN s = 1..Len(s)
        /\ \A k \in 1..(Len(s) - 1) : Tail(s)[k] = s[k + 1]
    OBVIOUS
  <1>2. SUFFICES ASSUME NEW y \in Y, NEW k \in DOMAIN Tail(s), Tail(s)[k] = y
                 PROVE  \E j \in 1..(k - 1) : Tail(s)[j] = x
    BY Zenon DEF Ordered, Before
  <1>3. k + 1 \in DOMAIN s /\ s[k + 1] = y
    BY <1>1, <1>2
  <1>4. PICK j \in 1..((k + 1) - 1) : s[j] = x
    BY Zenon, <1>3 DEF Ordered, Before
  <1>5. j # 1
    BY Zenon, <1>1, <1>4
  <1>6. j - 1 \in 1..(k - 1) /\ j - 1 \in 1..(Len(s) - 1) /\ (j - 1) + 1 = j
    BY <1>1, <1>4, <1>5
  <1> QED BY <1>1, <1>4, <1>6

LEMMA HeadNeeds ==
    ASSUME NEW s \in Seq(Steps), s # <<>>, NEW x, NEW Y, Head(s) \in Y
    PROVE  ~Ordered(s, x, Y)
  <1>1. 1 \in DOMAIN s /\ Head(s) = s[1] /\ ~\E j \in 1..(1 - 1) : s[j] = x
    OBVIOUS
  <1> QED BY Zenon, <1>1 DEF Ordered, Before

LEMMA OrderedBy ==
    ASSUME NEW s \in Seq(Steps), NEW x, NEW Y, NEW m \in DOMAIN s, s[m] = x,
           \A k \in 1..m : s[k] \notin Y
    PROVE  Ordered(s, x, Y)
  BY DEF Ordered, Before

LEMMA OrderedNone ==
    ASSUME NEW s \in Seq(Steps), NEW x, NEW Y, \A k \in DOMAIN s : s[k] \notin Y
    PROVE  Ordered(s, x, Y)
  BY Zenon DEF Ordered, Before

LEMMA ConcatOrdered ==
    ASSUME NEW s \in Seq(Steps), NEW t \in Seq(Steps), NEW x, NEW Y, Ordered(s, x, Y),
           Ordered(t, x, Y) \/ Has(s, x)
    PROVE  Ordered(s \o t, x, Y)
  <1> SUFFICES ASSUME NEW k \in DOMAIN (s \o t), (s \o t)[k] \in Y
               PROVE  \E j \in 1..(k - 1) : (s \o t)[j] = x
    BY Zenon DEF Ordered, Before
  <1>1. /\ Len(s) \in Nat /\ Len(t) \in Nat /\ DOMAIN s = 1..Len(s) /\ DOMAIN t = 1..Len(t)
        /\ k \in 1..(Len(s) + Len(t))
        /\ \A j \in 1..Len(s) : (s \o t)[j] = s[j]
        /\ \A j \in 1..Len(t) : (s \o t)[Len(s) + j] = t[j]
    OBVIOUS
  <1>2. CASE k \in 1..Len(s)
    <2>1. PICK j \in 1..(k - 1) : s[j] = x
      BY Zenon, <1>1, <1>2 DEF Ordered, Before
    <2>2. j \in 1..Len(s)
      BY <1>1, <1>2
    <2> QED BY Zenon, <1>1, <2>1, <2>2
  <1>3. CASE k \notin 1..Len(s) /\ Has(s, x)
    <2>1. PICK j \in 1..Len(s) : s[j] = x
      BY Zenon, <1>1, <1>3 DEF Has
    <2>2. j \in 1..(k - 1)
      BY <1>1, <1>3
    <2> QED BY Zenon, <1>1, <2>1, <2>2
  <1>4. CASE k \notin 1..Len(s) /\ Ordered(t, x, Y)
    <2>1. PICK m \in 1..Len(t) : k = Len(s) + m
      <3>1. k - Len(s) \in 1..Len(t) /\ k = Len(s) + (k - Len(s))
        BY <1>1, <1>4
      <3> QED BY Zenon, <3>1
    <2>2. PICK j \in 1..(m - 1) : t[j] = x
      BY Zenon, <1>1, <1>4, <2>1 DEF Ordered, Before
    <2>3. j \in 1..Len(t) /\ Len(s) + j \in 1..(k - 1)
      BY <1>1, <2>1
    <2> QED BY Zenon, <1>1, <2>2, <2>3
  <1> QED BY Zenon, <1>2, <1>3, <1>4

LEMMA ConcatHas ==
    ASSUME NEW s \in Seq(Steps), NEW t \in Seq(Steps), NEW x, Has(s, x) \/ Has(t, x)
    PROVE  Has(s \o t, x)
  <1>1. /\ \A j \in DOMAIN s : j \in DOMAIN (s \o t) /\ (s \o t)[j] = s[j]
        /\ \A j \in DOMAIN t : Len(s) + j \in DOMAIN (s \o t) /\ (s \o t)[Len(s) + j] = t[j]
    OBVIOUS
  <1> QED BY Zenon, <1>1 DEF Has

LEMMA HeadTail ==
    ASSUME NEW s \in Seq(Steps), s # <<>>
    PROVE  /\ Has(s, Head(s))
           /\ \A x : Has(Tail(s), x) => Has(s, x)
           /\ \A Y : Lacks(s, Y) => Lacks(Tail(s), Y) /\ Head(s) \notin Y
  <1>1. /\ 1 \in DOMAIN s /\ s[1] = Head(s)
        /\ \A k \in DOMAIN Tail(s) : k + 1 \in DOMAIN s /\ Tail(s)[k] = s[k + 1]
    OBVIOUS
  <1> QED BY Zenon, <1>1 DEF Has, Lacks

LEMMA HasNone ==
    ASSUME NEW s, NEW Y, NEW x \in Y, Lacks(s, Y)
    PROVE  ~Has(s, x)
  BY Zenon DEF Has, Lacks

LEMMA EmptyHas ==
    /\ <<>> \in Seq(Steps)
    /\ \A x : ~Has(<<>>, x)
    /\ \A Y : Lacks(<<>>, Y)
  <1>1. <<>> \in Seq(Steps) /\ \A k : k \notin DOMAIN <<>>
    OBVIOUS
  <1> QED BY Zenon, <1>1 DEF Has, Lacks

LEMMA ConcatLacks ==
    ASSUME NEW s \in Seq(Steps), NEW t \in Seq(Steps), NEW Y, Lacks(s, Y), Lacks(t, Y)
    PROVE  Lacks(s \o t, Y)
  <1>1. ASSUME NEW k \in DOMAIN (s \o t)
        PROVE  (\E j \in DOMAIN s : (s \o t)[k] = s[j]) \/ (\E j \in DOMAIN t : (s \o t)[k] = t[j])
    <2>1. CASE k <= Len(s)
      BY <2>1
    <2>2. CASE ~(k <= Len(s))
      <3>1. k - Len(s) \in DOMAIN t /\ (s \o t)[k] = t[k - Len(s)]
        BY <2>2
      <3> QED BY Zenon, <3>1
    <2> QED BY <2>1, <2>2
  <1> QED BY Zenon, <1>1 DEF Lacks

LEMMA ConcatPlanFirst ==
    ASSUME NEW s \in Seq(Steps), NEW t \in Seq(Steps), PlanFirst(s), PlanFirst(t),
           Lacks(s, {"config", "env"}) \/ ~Has(t, "plan")
    PROVE  PlanFirst(s \o t)
  <1> SUFFICES ASSUME NEW j \in DOMAIN (s \o t), NEW k \in DOMAIN (s \o t),
                      (s \o t)[j] = "plan", (s \o t)[k] \in {"config", "env"}
               PROVE  j < k
    BY Zenon DEF PlanFirst
  <1>1. /\ Len(s) \in Nat /\ Len(t) \in Nat /\ DOMAIN s = 1..Len(s) /\ DOMAIN t = 1..Len(t)
        /\ j \in 1..(Len(s) + Len(t)) /\ k \in 1..(Len(s) + Len(t))
    OBVIOUS
  <1>2. ASSUME NEW n \in 1..(Len(s) + Len(t))
        PROVE  \/ n \in 1..Len(s) /\ (s \o t)[n] = s[n]
               \/ n > Len(s) /\ n - Len(s) \in 1..Len(t) /\ (s \o t)[n] = t[n - Len(s)]
    OBVIOUS
  <1>3. CASE j \in 1..Len(s) /\ k \in 1..Len(s)
    <2>1. s[j] = "plan" /\ s[k] \in {"config", "env"}
      BY <1>1, <1>2, <1>3
    <2> QED BY Zenon, <1>1, <1>3, <2>1 DEF PlanFirst
  <1>4. CASE j \notin 1..Len(s) /\ k \notin 1..Len(s)
    <2> DEFINE a == j - Len(s)
               b == k - Len(s)
    <2>1. a \in 1..Len(t) /\ b \in 1..Len(t) /\ t[a] = "plan" /\ t[b] \in {"config", "env"}
      BY Zenon, <1>1, <1>2, <1>4
    <2>2. a < b => j < k
      BY <1>1
    <2> HIDE DEF a, b
    <2> QED BY Zenon, <1>1, <2>1, <2>2 DEF PlanFirst
  <1>5. CASE j \in 1..Len(s) /\ k \notin 1..Len(s)
    BY <1>1, <1>5
  <1>6. CASE j \notin 1..Len(s) /\ k \in 1..Len(s)
    <2> DEFINE a == j - Len(s)
    <2>1. a \in 1..Len(t) /\ t[a] = "plan" /\ s[k] \in {"config", "env"}
      <3>1. k > Len(s) => k \notin 1..Len(s)
        BY <1>1
      <3> QED BY Zenon, <1>1, <1>2, <1>6, <3>1
    <2> HIDE DEF a
    <2> QED BY Zenon, <1>1, <1>6, <2>1 DEF Lacks, Has
  <1> QED BY Zenon, <1>3, <1>4, <1>5, <1>6

LEMMA TailPlanFirst ==
    ASSUME NEW s \in Seq(Steps), s # <<>>, PlanFirst(s)
    PROVE  /\ PlanFirst(Tail(s))
           /\ Head(s) \in {"config", "env"} => ~Has(Tail(s), "plan")
  <1>1. /\ 1 \in DOMAIN s /\ s[1] = Head(s)
        /\ \A k \in DOMAIN Tail(s) : k \in Int /\ k + 1 \in DOMAIN s /\ Tail(s)[k] = s[k + 1]
        /\ \A k \in DOMAIN Tail(s) : ~(k + 1 < 1)
    OBVIOUS
  <1>2. \A j, k \in DOMAIN Tail(s) : j + 1 < k + 1 => j < k
    BY <1>1
  <1>3. PlanFirst(Tail(s))
    BY Zenon, <1>1, <1>2 DEF PlanFirst
  <1>4. Head(s) \in {"config", "env"} => ~Has(Tail(s), "plan")
    BY Zenon, <1>1 DEF PlanFirst, Has
  <1> QED BY Zenon, <1>3, <1>4

LEMMA ShapeTail ==
    ASSUME NEW s \in Seq(Steps), s # <<>>, NEW m, Shape(s, m)
    PROVE  Shape(Tail(s), m)
  <1>1. /\ m = "patch" \/ Lacks(Tail(s), EnvSteps)
        /\ Lacks(Tail(s), Restores) \/ Lacks(Tail(s), NeedFiles)
        /\ PlanFirst(Tail(s)) /\ (Has(Tail(s), "plan") => Has(s, "plan"))
    BY Zenon, HeadTail, TailPlanFirst DEF Shape
  <1>2. Has(Tail(s), "plan") => Head(s) # "config" /\ Head(s) # "env"
    BY Zenon, TailPlanFirst DEF Shape
  <1>3. Has(Tail(s), "plan") => Ordered(Tail(s), "config", NeedFiles)
    BY Zenon, <1>1, <1>2, TailOrdered DEF Shape
  <1>4. Has(Tail(s), "plan") /\ m = "patch" => Ordered(Tail(s), "env", NeedEnv)
    BY Zenon, <1>1, <1>2, TailOrdered DEF Shape
  <1> QED BY Zenon, <1>1, <1>3, <1>4 DEF Shape

\* Steps before the plan, and steps that no file depends on.
Early == NeedBinary \cup NeedPlan \cup Restores \cup {"plan"}
Quiet(s) == s \in Seq(Steps) /\ Lacks(s, Early)

LEMMA QuietFits ==
    ASSUME NEW s, Quiet(s), NEW m
    PROVE  /\ Shape(s, m) /\ ~Has(s, "stage")
           /\ Ordered(s, "binary", NeedBinary) /\ Ordered(s, "plan", NeedPlan)
           /\ Ordered(s, "config", NeedFiles) /\ Ordered(s, "env", NeedEnv)
  <1>1. /\ EnvSteps \subseteq Early /\ Restores \subseteq Early /\ NeedFiles \subseteq Early
        /\ NeedEnv \subseteq Early /\ NeedPlan \subseteq Early /\ NeedBinary \subseteq Early
        /\ "plan" \in Early /\ "stage" \in Early
    BY DEF Early, EnvSteps, Restores, NeedFiles, NeedEnv, NeedPlan, NeedBinary
  <1>2. s \in Seq(Steps) /\ Lacks(s, EnvSteps) /\ Lacks(s, Restores) /\ Lacks(s, NeedFiles)
        /\ Lacks(s, NeedEnv) /\ Lacks(s, NeedPlan) /\ Lacks(s, NeedBinary)
    BY Zenon, <1>1 DEF Quiet, Lacks
  <1>3. ~Has(s, "plan") /\ ~Has(s, "stage")
    BY Zenon, <1>1, HasNone DEF Quiet
  <1>4. PlanFirst(s)
    BY Zenon, <1>3 DEF PlanFirst, Has
  <1>5. Ordered(s, "binary", NeedBinary) /\ Ordered(s, "plan", NeedPlan)
        /\ Ordered(s, "config", NeedFiles) /\ Ordered(s, "env", NeedEnv)
    BY Zenon, <1>2, OrderedNone DEF Lacks
  <1> QED BY Zenon, <1>2, <1>3, <1>4, <1>5 DEF Shape

\* Steps that fit a pass in mode m, whatever follows.
Good(s, m) ==
    /\ s \in Seq(Steps) /\ PlanFirst(s) /\ Lacks(s, Restores \cup {"check"})
    /\ Ordered(s, "binary", NeedBinary) /\ Has(s, "binary")
    /\ Ordered(s, "plan", NeedPlan) /\ Has(s, "plan")
    /\ Ordered(s, "config", NeedFiles) /\ Has(s, "config")
    /\ IF m = "patch" THEN Ordered(s, "env", NeedEnv) /\ Has(s, "env")
       ELSE Lacks(s, EnvSteps \cup {"stage"})

LEMMA GoodGrows ==
    ASSUME NEW s, NEW m, NEW t \in Seq(Steps), Good(s, m),
           Lacks(t, Restores \cup {"check"}), ~Has(t, "plan"),
           m = "patch" \/ Lacks(t, EnvSteps \cup {"stage"})
    PROVE  Good(s \o t, m)
  <1>1. s \in Seq(Steps) /\ s \o t \in Seq(Steps) /\ PlanFirst(t)
    <2>1. s \in Seq(Steps)
      BY Zenon DEF Good
    <2>2. PlanFirst(t)
      BY Zenon DEF PlanFirst, Has
    <2> QED BY <2>1, <2>2
  <1>2. PlanFirst(s \o t) /\ Lacks(s \o t, Restores \cup {"check"})
    BY Zenon, <1>1, ConcatPlanFirst, ConcatLacks DEF Good
  <1>3. /\ Ordered(s \o t, "binary", NeedBinary) /\ Has(s \o t, "binary")
        /\ Ordered(s \o t, "plan", NeedPlan) /\ Has(s \o t, "plan")
        /\ Ordered(s \o t, "config", NeedFiles) /\ Has(s \o t, "config")
    BY Zenon, <1>1, ConcatOrdered, ConcatHas DEF Good
  <1>4. m = "patch" => Ordered(s \o t, "env", NeedEnv) /\ Has(s \o t, "env")
    BY Zenon, <1>1, ConcatOrdered, ConcatHas DEF Good
  <1>5. m # "patch" => Lacks(s \o t, EnvSteps \cup {"stage"})
    BY Zenon, <1>1, ConcatLacks DEF Good
  <1> QED BY Zenon, <1>1, <1>2, <1>3, <1>4, <1>5 DEF Good

\* The steps of a sequence of one or two.
LEMMA Single ==
    ASSUME NEW x \in Steps
    PROVE  <<x>> \in Seq(Steps) /\ Has(<<x>>, x) /\ \A z : Has(<<x>>, z) => z = x
  <1> DEFINE s == <<x>>
  <1>1. s \in Seq(Steps) /\ 1 \in DOMAIN s /\ s[1] = x /\ \A k \in DOMAIN s : s[k] = x
    OBVIOUS
  <1> HIDE DEF s
  <1>2. s \in Seq(Steps) /\ Has(s, x) /\ \A z : Has(s, z) => z = x
    BY Zenon, <1>1 DEF Has
  <1> QED BY Zenon, <1>2 DEF s

LEMMA SingleLacks ==
    ASSUME NEW x \in Steps, NEW Y, x \notin Y
    PROVE  Lacks(<<x>>, Y)
  <1> DEFINE s == <<x>>
  <1>1. \A z : Has(s, z) => z = x
    BY Zenon, Single
  <1> HIDE DEF s
  <1>2. Lacks(s, Y)
    BY Zenon, <1>1 DEF Lacks, Has
  <1> QED BY Zenon, <1>2 DEF s

LEMMA Pair ==
    ASSUME NEW x \in Steps, NEW y \in Steps
    PROVE  /\ <<x, y>> \in Seq(Steps) /\ Has(<<x, y>>, x) /\ Has(<<x, y>>, y)
           /\ \A z : Has(<<x, y>>, z) => z = x \/ z = y
  <1> DEFINE t == <<x, y>>
  <1>1. /\ t \in Seq(Steps) /\ 1 \in DOMAIN t /\ 2 \in DOMAIN t /\ t[1] = x /\ t[2] = y
        /\ \A k \in DOMAIN t : t[k] = x \/ t[k] = y
    OBVIOUS
  <1> HIDE DEF t
  <1>2. t \in Seq(Steps) /\ Has(t, x) /\ Has(t, y) /\ \A z : Has(t, z) => z = x \/ z = y
    BY Zenon, <1>1 DEF Has
  <1> QED BY Zenon, <1>2 DEF t

LEMMA PairLacks ==
    ASSUME NEW x \in Steps, NEW y \in Steps, NEW Y, x \notin Y, y \notin Y
    PROVE  Lacks(<<x, y>>, Y)
  <1> DEFINE s == <<x, y>>
  <1>1. \A z : Has(s, z) => z = x \/ z = y
    BY Zenon, Pair
  <1> HIDE DEF s
  <1>2. Lacks(s, Y)
    BY Zenon, <1>1 DEF Lacks, Has
  <1> QED BY Zenon, <1>2 DEF s

LEMMA PairOrdered ==
    ASSUME NEW x \in Steps, NEW y \in Steps, NEW Y, x \notin Y
    PROVE  Ordered(<<x, y>>, x, Y)
  <1> DEFINE t == <<x, y>>
  <1>1. t \in Seq(Steps) /\ 1 \in DOMAIN t /\ t[1] = x /\ \A k \in 1..1 : t[k] = x
    OBVIOUS
  <1> HIDE DEF t
  <1>2. Ordered(t, x, Y)
    BY Zenon, <1>1, OrderedBy
  <1> QED BY Zenon, <1>2 DEF t

LEMMA StepNames ==
    /\ {"lockNode", "lockCurrent", "lockOwn", "check", "stage", "plan", "begin", "binary",
        "config", "commit", "env", "end"} \subseteq Steps
    /\ {"lockNode", "lockCurrent", "lockOwn", "check", "begin", "binary", "commit", "end"}
          \cap Early = {}
    /\ {"plan", "lockOwn"} \cap (NeedBinary \cup NeedPlan \cup Restores \cup EnvSteps
                                   \cup {"check", "stage", "config", "env"}) = {}
    /\ {"end", "stage", "env"} \cap (Restores \cup {"check", "plan"}) = {}
    /\ {"end"} \cap (EnvSteps \cup {"stage"}) = {} /\ "env" \notin NeedEnv
    /\ {"lockOwn", "lockCurrent", "lockNode"} \cap NeedLock = {}
  BY DEF Steps, Early, NeedBinary, NeedPlan, NeedEnv, NeedLock, Restores, EnvSteps

\* The files after the plan.
LEMMA PlanAndFiles ==
    /\ Good(<<"lockOwn", "plan">> \o WriteFiles, "none") /\ Good(<<"plan">> \o WriteFiles, "none")
    /\ Lacks(<<"plan">> \o WriteFiles, NeedEnv)
    /\ Ordered(<<"lockOwn", "plan">> \o WriteFiles, "lockOwn", NeedLock)
    /\ Has(<<"lockOwn", "plan">> \o WriteFiles, "lockOwn")
  <1> DEFINE w == WriteFiles
             Rest == NeedFiles \cup Restores \cup EnvSteps \cup {"check", "stage", "plan"}
  <1>1. /\ w \in Seq(Steps) /\ 2 \in DOMAIN w /\ w[2] = "binary" /\ 3 \in DOMAIN w /\ w[3] = "config"
        /\ \A k \in 1..2 : w[k] \notin NeedBinary
    BY DEF WriteFiles, Steps, NeedBinary
  <1>2. Lacks(w, Rest)
    <2>1. \A k \in DOMAIN w : w[k] \in {"begin", "binary", "config", "commit"}
      BY DEF WriteFiles
    <2>2. {"begin", "binary", "config", "commit"} \cap Rest = {}
      BY DEF NeedFiles, Restores, EnvSteps
    <2> QED BY Zenon, <2>1, <2>2 DEF Lacks
  <1> HIDE DEF w
  <1>3. Ordered(w, "binary", NeedBinary) /\ Has(w, "binary") /\ Has(w, "config")
    BY Zenon, <1>1, OrderedBy DEF Has
  <1>4. /\ Lacks(w, Restores \cup {"check"}) /\ Lacks(w, EnvSteps \cup {"stage"})
        /\ Lacks(w, NeedFiles) /\ ~Has(w, "plan") /\ PlanFirst(w)
    BY Zenon, <1>2 DEF Lacks, Has, PlanFirst
  <1>5. ASSUME NEW s \in Seq(Steps), PlanFirst(s), Has(s, "plan"),
               Lacks(s, NeedBinary \cup NeedPlan \cup Restores \cup EnvSteps
                          \cup {"check", "stage", "config", "env"})
        PROVE  Good(s \o w, "none") /\ Lacks(s \o w, NeedFiles)
    <2>1. s \o w \in Seq(Steps)
      BY <1>1
    <2>2. /\ Lacks(s, NeedBinary) /\ Lacks(s, NeedPlan) /\ Lacks(s, Restores \cup {"check"})
          /\ Lacks(s, EnvSteps \cup {"stage"}) /\ Lacks(s, {"config", "env"})
      BY Zenon, <1>5 DEF Lacks
    <2>3. NeedFiles \subseteq NeedBinary
      BY DEF NeedFiles, NeedBinary
    <2>4. Lacks(s, NeedFiles)
      BY Zenon, <2>2, <2>3 DEF Lacks
    <2>5. Ordered(s, "binary", NeedBinary) /\ Ordered(s, "plan", NeedPlan)
      BY Zenon, <2>2, OrderedNone DEF Lacks
    <2>6. /\ Lacks(s \o w, NeedFiles) /\ Lacks(s \o w, Restores \cup {"check"})
          /\ Lacks(s \o w, EnvSteps \cup {"stage"}) /\ PlanFirst(s \o w)
      BY Zenon, <1>1, <1>4, <1>5, <2>2, <2>4, ConcatLacks, ConcatPlanFirst
    <2>7. /\ Has(s \o w, "binary") /\ Has(s \o w, "plan") /\ Has(s \o w, "config")
      BY Zenon, <1>1, <1>3, <1>5, ConcatHas
    <2>8. Ordered(s \o w, "binary", NeedBinary) /\ Ordered(s \o w, "plan", NeedPlan)
      BY Zenon, <1>1, <1>3, <1>5, <2>5, ConcatOrdered
    <2>9. Ordered(s \o w, "config", NeedFiles)
      BY Zenon, <2>1, <2>6, OrderedNone DEF Lacks
    <2>10. "none" # "patch"
      OBVIOUS
    <2> QED BY Zenon, <2>1, <2>6, <2>7, <2>8, <2>9, <2>10 DEF Good
  <1> DEFINE Out == NeedBinary \cup NeedPlan \cup Restores \cup EnvSteps
                      \cup {"check", "stage", "config", "env"}
  <1>6. /\ "plan" \in Steps /\ "lockOwn" \in Steps /\ "plan" \notin Out /\ "lockOwn" \notin Out
        /\ "lockOwn" \notin NeedLock
    BY Zenon, StepNames
  <1>7. Good(<<"plan">> \o w, "none") /\ Lacks(<<"plan">> \o w, NeedFiles)
    <2> DEFINE s == <<"plan">>
    <2>1. s \in Seq(Steps) /\ Has(s, "plan") /\ Lacks(s, Out)
      BY Zenon, <1>6, Single, SingleLacks
    <2> HIDE DEF s
    <2>2. PlanFirst(s)
      BY Zenon, <2>1 DEF PlanFirst, Lacks
    <2>3. Good(s \o w, "none") /\ Lacks(s \o w, NeedFiles)
      BY Zenon, <1>5, <2>1, <2>2
    <2> QED BY Zenon, <2>3 DEF s
  <1>8. /\ Good(<<"lockOwn", "plan">> \o w, "none")
        /\ Ordered(<<"lockOwn", "plan">> \o w, "lockOwn", NeedLock)
        /\ Has(<<"lockOwn", "plan">> \o w, "lockOwn")
    <2> DEFINE s == <<"lockOwn", "plan">>
    <2>1. /\ s \in Seq(Steps) /\ Has(s, "plan") /\ Has(s, "lockOwn") /\ Lacks(s, Out)
          /\ Ordered(s, "lockOwn", NeedLock)
      <3>1. s \in Seq(Steps) /\ Has(s, "plan") /\ Has(s, "lockOwn")
        BY Zenon, <1>6, Pair
      <3>2. Lacks(s, Out)
        BY Zenon, <1>6, PairLacks
      <3>3. Ordered(s, "lockOwn", NeedLock)
        BY Zenon, <1>6, PairOrdered
      <3> QED BY Zenon, <3>1, <3>2, <3>3
    <2> HIDE DEF s
    <2>2. PlanFirst(s)
      BY Zenon, <2>1 DEF PlanFirst, Lacks
    <2>3. Good(s \o w, "none")
      BY Zenon, <1>5, <2>1, <2>2
    <2>4. Ordered(s \o w, "lockOwn", NeedLock) /\ Has(s \o w, "lockOwn")
      BY Zenon, <1>1, <2>1, ConcatOrdered, ConcatHas
    <2> QED BY Zenon, <2>3, <2>4 DEF s
  <1>9. Lacks(<<"plan">> \o w, NeedEnv)
    <2>1. NeedEnv \subseteq NeedFiles
      BY DEF NeedEnv, NeedFiles
    <2> QED BY Zenon, <1>7, <2>1 DEF Lacks
  <1> QED BY Zenon, <1>7, <1>8, <1>9 DEF w

\* The sequences of steps that passes are given.
LEMMA PassSequences ==
    /\ Good(<<"lockOwn", "plan">> \o WriteFiles \o <<"end">>, "none")
    /\ Ordered(<<"lockOwn", "plan">> \o WriteFiles \o <<"end">>, "lockOwn", NeedLock)
    /\ Good(<<"lockOwn", "plan">> \o WriteFiles \o Restart \o <<"end">>, "merge")
    /\ Ordered(<<"lockOwn", "plan">> \o WriteFiles \o Restart \o <<"end">>, "lockOwn", NeedLock)
    /\ Good(PatchSteps \o <<"end">>, "patch") /\ Good(PatchSteps \o <<"stage", "end">>, "patch")
  <1> DEFINE s == <<"lockOwn", "plan">> \o WriteFiles
             t == <<"plan">> \o WriteFiles
  <1>1. /\ Restart \in Seq(Steps) /\ Lacks(Restart, Restores \cup {"check"})
        /\ Lacks(Restart, EnvSteps \cup {"stage"}) /\ ~Has(Restart, "plan")
    <2>1. Restart \in Seq(Steps) /\ \A k \in DOMAIN Restart : Restart[k] \in NeedEnv
      BY DEF Restart, Steps, NeedEnv
    <2>2. NeedEnv \cap (Restores \cup EnvSteps \cup {"check", "stage", "plan"}) = {}
      BY DEF NeedEnv, Restores, EnvSteps
    <2> QED BY Zenon, <2>1, <2>2 DEF Lacks, Has
  <1>2. /\ "end" \in Steps /\ "stage" \in Steps /\ "env" \in Steps
        /\ {"end", "stage", "env"} \cap (Restores \cup {"check", "plan"}) = {}
        /\ "end" \notin EnvSteps \cup {"stage"} /\ "env" \notin NeedEnv
    BY Zenon, StepNames
  <1>3. /\ <<"end">> \in Seq(Steps) /\ Lacks(<<"end">>, Restores \cup {"check"})
        /\ ~Has(<<"end">>, "plan") /\ Lacks(<<"end">>, EnvSteps \cup {"stage"})
    BY Zenon, <1>2, Single, SingleLacks
  <1>4. /\ <<"stage", "end">> \in Seq(Steps) /\ Lacks(<<"stage", "end">>, Restores \cup {"check"})
        /\ ~Has(<<"stage", "end">>, "plan")
    <2> DEFINE x == <<"stage", "end">>
    <2>1. x \in Seq(Steps)
      BY Zenon, <1>2, Pair
    <2>2. "stage" \notin Restores \cup {"check", "plan"} /\ "end" \notin Restores \cup {"check", "plan"}
      BY Zenon, <1>2
    <2>3. Lacks(x, Restores \cup {"check", "plan"})
      BY Zenon, <1>2, <2>2, PairLacks
    <2> HIDE DEF x
    <2>4. Lacks(x, Restores \cup {"check"}) /\ ~Has(x, "plan")
      BY Zenon, <2>3 DEF Lacks, Has
    <2> QED BY Zenon, <2>1, <2>4 DEF x
  <1>5. /\ <<"env">> \in Seq(Steps) /\ Lacks(<<"env">>, Restores \cup {"check"})
        /\ ~Has(<<"env">>, "plan") /\ Has(<<"env">>, "env") /\ Lacks(<<"env">>, NeedEnv)
    BY Zenon, <1>2, Single, SingleLacks
  <1>6. /\ Good(s, "none") /\ Good(t, "none") /\ Lacks(t, NeedEnv)
        /\ Ordered(s, "lockOwn", NeedLock) /\ Has(s, "lockOwn")
    BY Zenon, PlanAndFiles
  <1>7. ASSUME NEW x, Good(x, "none") PROVE Good(x, "merge")
    BY <1>7 DEF Good
  <1> HIDE DEF s, t
  <1>8. "none" # "patch" /\ "merge" # "patch"
    OBVIOUS
  <1>9. /\ Good(s \o <<"end">>, "none") /\ Good(s \o Restart, "merge")
        /\ Good((s \o Restart) \o <<"end">>, "merge")
    BY Zenon, <1>1, <1>3, <1>6, <1>7, <1>8, GoodGrows
  <1>10. /\ Ordered(s \o <<"end">>, "lockOwn", NeedLock)
         /\ Ordered((s \o Restart) \o <<"end">>, "lockOwn", NeedLock)
    <2>1. s \in Seq(Steps) /\ s \o Restart \in Seq(Steps)
      BY Zenon, <1>6, <1>9 DEF Good
    <2> QED BY Zenon, <1>1, <1>3, <1>6, <2>1, ConcatOrdered, ConcatHas
  <1>11. Good(t \o <<"env">>, "patch")
    <2>1. t \in Seq(Steps) /\ t \o <<"env">> \in Seq(Steps)
      <3>1. t \in Seq(Steps)
        BY Zenon, <1>6 DEF Good
      <3> QED BY <1>5, <3>1
    <2>2. PlanFirst(<<"env">>)
      BY Zenon, <1>5 DEF PlanFirst, Has
    <2>3. PlanFirst(t \o <<"env">>) /\ Lacks(t \o <<"env">>, Restores \cup {"check"})
      BY Zenon, <1>5, <1>6, <2>1, <2>2, ConcatPlanFirst, ConcatLacks DEF Good
    <2>4. /\ Ordered(t \o <<"env">>, "binary", NeedBinary) /\ Has(t \o <<"env">>, "binary")
          /\ Ordered(t \o <<"env">>, "plan", NeedPlan) /\ Has(t \o <<"env">>, "plan")
          /\ Ordered(t \o <<"env">>, "config", NeedFiles) /\ Has(t \o <<"env">>, "config")
      BY Zenon, <1>5, <1>6, <2>1, ConcatOrdered, ConcatHas DEF Good
    <2>5. Ordered(t \o <<"env">>, "env", NeedEnv) /\ Has(t \o <<"env">>, "env")
      <3>1. Lacks(t \o <<"env">>, NeedEnv)
        BY Zenon, <1>5, <1>6, <2>1, ConcatLacks
      <3> QED BY Zenon, <1>5, <2>1, <3>1, OrderedNone, ConcatHas DEF Lacks
    <2> QED BY Zenon, <2>1, <2>3, <2>4, <2>5 DEF Good
  <1>12. Good((t \o <<"env">>) \o Restart, "patch")
    BY Zenon, <1>1, <1>11, GoodGrows
  <1>13. PatchSteps = (t \o <<"env">>) \o Restart
    BY Zenon DEF PatchSteps, t
  <1>14. Good(PatchSteps \o <<"end">>, "patch") /\ Good(PatchSteps \o <<"stage", "end">>, "patch")
    BY Zenon, <1>3, <1>4, <1>12, <1>13, GoodGrows
  <1> QED BY Zenon, <1>9, <1>10, <1>14 DEF s

LEMMA LockSequences ==
    /\ Quiet(<<>>) /\ Quiet(<<"lockNode">>)
    /\ Ordered(<<>>, "lockOwn", NeedLock) /\ Ordered(<<"lockNode">>, "lockOwn", NeedLock)
    /\ Quiet(<<>> \o <<"lockOwn", "check">>) /\ Quiet(<<"lockCurrent">> \o <<"lockOwn", "check">>)
    /\ Ordered(<<>> \o <<"lockOwn", "check">>, "lockOwn", NeedLock)
    /\ Ordered(<<"lockCurrent">> \o <<"lockOwn", "check">>, "lockOwn", NeedLock)
    /\ Ordered(<<"lockCurrent">> \o <<"lockOwn", "check">>, "lockCurrent", NeedLock)
    /\ ~Has(<<>>, "check") /\ ~Has(<<"lockNode">>, "check")
  <1> DEFINE e == <<>>
             n == <<"lockNode">>
             c == <<"lockCurrent">>
             t == <<"lockOwn", "check">>
  <1>1. /\ {"lockNode", "lockCurrent", "lockOwn", "check"} \subseteq Steps
        /\ "lockNode" \notin Early /\ "lockCurrent" \notin Early
        /\ "lockOwn" \notin Early /\ "check" \notin Early
        /\ {"lockOwn", "lockCurrent", "lockNode"} \cap NeedLock = {} /\ "check" # "lockNode"
    BY Zenon, StepNames
  <1>2. e \in Seq(Steps) /\ Lacks(e, Early) /\ Lacks(e, NeedLock) /\ ~Has(e, "check")
    BY Zenon, EmptyHas
  <1>3. n \in Seq(Steps) /\ ~Has(n, "check") /\ c \in Seq(Steps) /\ Has(c, "lockCurrent")
    BY Zenon, <1>1, Single
  <1>4. Lacks(n, Early) /\ Lacks(n, NeedLock) /\ Lacks(c, Early) /\ Lacks(c, NeedLock)
    BY Zenon, <1>1, SingleLacks
  <1>5. t \in Seq(Steps)
    BY Zenon, <1>1, Pair
  <1>6. Lacks(t, Early)
    BY Zenon, <1>1, PairLacks
  <1>7. Ordered(t, "lockOwn", NeedLock)
    BY Zenon, <1>1, PairOrdered
  <1> HIDE DEF e, n, c, t
  <1>8. /\ Ordered(e, "lockOwn", NeedLock) /\ Ordered(n, "lockOwn", NeedLock)
        /\ Ordered(c, "lockOwn", NeedLock) /\ Ordered(c, "lockCurrent", NeedLock)
    BY Zenon, <1>2, <1>3, <1>4, OrderedNone DEF Lacks
  <1>9. e \o t \in Seq(Steps) /\ c \o t \in Seq(Steps)
    BY <1>2, <1>3, <1>5
  <1>10. Lacks(e \o t, Early) /\ Lacks(c \o t, Early)
    BY Zenon, <1>2, <1>3, <1>4, <1>5, <1>6, ConcatLacks
  <1>11. /\ Ordered(e \o t, "lockOwn", NeedLock) /\ Ordered(c \o t, "lockOwn", NeedLock)
         /\ Ordered(c \o t, "lockCurrent", NeedLock)
    BY Zenon, <1>2, <1>3, <1>5, <1>7, <1>8, ConcatOrdered
  <1> QED BY Zenon, <1>2, <1>3, <1>4, <1>8, <1>9, <1>10, <1>11 DEF Quiet, e, n, c, t

\* The steps that stage an install's files: with the binary, the entry, or both.
LEMMA StageSequence ==
    ASSUME NEW newBin \in BOOLEAN, NEW newConfig \in BOOLEAN, NEW t,
           t = (IF newBin THEN <<"begin", "binary">> ELSE <<>>)
                  \o (IF newConfig THEN <<"plan", "config">> ELSE <<>>)
                  \o (IF newBin THEN <<"commit">> ELSE <<>>) \o <<"end">>
    PROVE  /\ t \in Seq(Steps) /\ Shape(t, "none") /\ ~Has(t, "check") /\ ~Has(t, "stage")
           /\ Ordered(t, "plan", NeedPlan) /\ Ordered(t, "config", NeedFiles)
           /\ newBin => Ordered(t, "binary", NeedBinary)
  <1> DEFINE a == IF newBin THEN <<"begin", "binary">> ELSE <<>>
             b == IF newConfig THEN <<"plan", "config">> ELSE <<>>
             c == IF newBin THEN <<"commit">> ELSE <<>>
             d == <<"end">>
             p == <<"plan", "config">>
             Out == NeedFiles \cup EnvSteps \cup Restores \cup {"check", "stage"}
             Not == Early \cup {"check"}
  <1>1. /\ {"begin", "binary", "plan", "config", "commit", "end"} \subseteq Steps
        /\ {"begin", "binary", "commit", "end"} \cap Not = {}
        /\ {"plan", "config"} \cap Out = {} /\ "plan" \notin NeedPlan
        /\ Out \cup NeedPlan \cup NeedBinary \subseteq Not /\ "plan" \in Not
    BY DEF Not, Out, Early, NeedFiles, EnvSteps, Restores, NeedBinary, NeedPlan, Steps
  <1>2. a \in Seq(Steps) /\ Lacks(a, Not)
    <2>1. <<"begin", "binary">> \in Seq(Steps) /\ <<>> \in Seq(Steps)
      BY Zenon, <1>1, Pair, EmptyHas
    <2>2. Lacks(<<"begin", "binary">>, Not) /\ Lacks(<<>>, Not)
      BY Zenon, <1>1, PairLacks, EmptyHas
    <2> QED BY Zenon, <2>1, <2>2
  <1>3. newBin => Has(a, "binary")
    BY Zenon, <1>1, Pair
  <1>4. c \in Seq(Steps) /\ Lacks(c, Not) /\ d \in Seq(Steps) /\ Lacks(d, Not)
    BY Zenon, <1>1, Single, SingleLacks, EmptyHas
  <1>5. p \in Seq(Steps)
    BY Zenon, <1>1, Pair
  <1>6. Lacks(p, Out)
    BY Zenon, <1>1, PairLacks
  <1>7. Ordered(p, "plan", NeedPlan)
    BY Zenon, <1>1, PairOrdered
  <1>8. PlanFirst(p)
    <2>1. \A j, k \in DOMAIN p : p[j] = "plan" /\ p[k] \in {"config", "env"} => j < k
      OBVIOUS
    <2> QED BY Zenon, <2>1 DEF PlanFirst
  <1>9. /\ b \in Seq(Steps) /\ Lacks(b, Out) /\ Ordered(b, "plan", NeedPlan) /\ PlanFirst(b)
    <2>1. <<>> \in Seq(Steps) /\ Lacks(<<>>, Out) /\ Lacks(<<>>, NeedPlan)
      BY Zenon, EmptyHas
    <2>2. Ordered(<<>>, "plan", NeedPlan)
      BY Zenon, <2>1, OrderedNone DEF Lacks
    <2>3. PlanFirst(<<>>)
      BY Zenon, EmptyHas DEF PlanFirst, Has
    <2> QED BY Zenon, <1>5, <1>6, <1>7, <1>8, <2>1, <2>2, <2>3
  <1>10. t = ((a \o b) \o c) \o d
    BY Zenon
  <1> HIDE DEF a, b, c, d, p
  <1>11. ASSUME NEW x \in Seq(Steps), Lacks(x, Not)
         PROVE  /\ Lacks(x, Out) /\ PlanFirst(x) /\ ~Has(x, "plan")
                /\ Ordered(x, "plan", NeedPlan) /\ Ordered(x, "binary", NeedBinary)
    <2>1. Lacks(x, Out) /\ Lacks(x, NeedPlan) /\ Lacks(x, NeedBinary) /\ ~Has(x, "plan")
      <3> HIDE DEF Not, Out
      <3> QED BY Zenon, <1>1, <1>11 DEF Lacks, Has
    <2>2. PlanFirst(x)
      BY Zenon, <2>1 DEF PlanFirst, Has
    <2> QED BY Zenon, <2>1, <2>2, OrderedNone DEF Lacks
  <1>12. /\ a \o b \in Seq(Steps) /\ (a \o b) \o c \in Seq(Steps)
         /\ ((a \o b) \o c) \o d \in Seq(Steps)
    BY <1>2, <1>4, <1>9
  <1> HIDE DEF Not, Out
  <1>13. Lacks(t, Out)
    BY Zenon, <1>2, <1>4, <1>9, <1>10, <1>11, <1>12, ConcatLacks
  <1>14. Ordered(t, "plan", NeedPlan)
    BY Zenon, <1>2, <1>4, <1>9, <1>10, <1>11, <1>12, ConcatOrdered
  <1>15. newBin => Ordered(t, "binary", NeedBinary)
    <2>1. Has(a, "binary") => Has(a \o b, "binary") /\ Has((a \o b) \o c, "binary")
      BY Zenon, <1>2, <1>4, <1>9, <1>12, ConcatHas
    <2> QED BY Zenon, <1>2, <1>3, <1>4, <1>9, <1>10, <1>11, <1>12, <2>1, ConcatOrdered
  <1>16. PlanFirst(t)
    <2>1. Lacks(a, {"config", "env"})
      <3>1. {"config", "env"} \subseteq Not
        BY DEF Not, Early, NeedBinary
      <3> QED BY Zenon, <1>2, <3>1 DEF Lacks
    <2>2. PlanFirst(a \o b)
      BY Zenon, <1>2, <1>9, <1>11, <2>1, ConcatPlanFirst
    <2>3. PlanFirst((a \o b) \o c)
      BY Zenon, <1>4, <1>11, <1>12, <2>2, ConcatPlanFirst
    <2> QED BY Zenon, <1>4, <1>10, <1>11, <1>12, <2>3, ConcatPlanFirst
  <1>17. /\ Lacks(t, NeedFiles) /\ Lacks(t, EnvSteps) /\ Lacks(t, Restores)
         /\ ~Has(t, "check") /\ ~Has(t, "stage")
    BY Zenon, <1>13 DEF Out, Lacks, Has
  <1>18. Ordered(t, "config", NeedFiles)
    BY Zenon, <1>10, <1>12, <1>17, OrderedNone DEF Lacks
  <1>19. "none" # "patch"
    OBVIOUS
  <1> QED BY Zenon, <1>10, <1>12, <1>14, <1>15, <1>16, <1>17, <1>18, <1>19 DEF Shape

\* The steps of a rollback.
LEMMA RollbackSequences ==
    ASSUME NEW i, NEW t \in {Rollback(i) \o <<"fail">>, Rollback(i) \o <<"restartBack", "reject">>,
                             <<"reject">>}
    PROVE  t \in Seq(Steps) /\ Shape(t, pass[i].mode) /\ ~Has(t, "check") /\ ~Has(t, "stage")
  <1> DEFINE Out == NeedFiles \cup {"plan", "check", "stage"}
             patch == pass[i].mode = "patch"
             a == <<"restoreRecord", "restoreConfig">>
             b == IF patch THEN <<"restoreEnv">> ELSE <<>>
             c == <<"restartBack", "reject">>
             d == <<"fail">>
             r == <<"reject">>
  <1>1. /\ {"restoreRecord", "restoreConfig", "restoreEnv", "restartBack", "reject", "fail"}
             \subseteq Steps \ Out
        /\ {"restoreRecord", "restoreConfig", "restartBack", "reject", "fail"}
             \cap EnvSteps = {}
    BY DEF Steps, NeedFiles, EnvSteps
  <1>2. a \in Seq(Steps) /\ c \in Seq(Steps)
    BY Zenon, <1>1, Pair
  <1>3. Lacks(a, Out) /\ Lacks(c, Out)
    BY Zenon, <1>1, PairLacks
  <1>4. Lacks(a, EnvSteps) /\ Lacks(c, EnvSteps)
    BY Zenon, <1>1, PairLacks
  <1>5. /\ d \in Seq(Steps) /\ r \in Seq(Steps) /\ Lacks(d, Out) /\ Lacks(r, Out)
        /\ Lacks(d, EnvSteps) /\ Lacks(r, EnvSteps)
    BY Zenon, <1>1, Single, SingleLacks
  <1>6. b \in Seq(Steps) /\ Lacks(b, Out) /\ (~patch => Lacks(b, EnvSteps))
    <2>1. <<"restoreEnv">> \in Seq(Steps) /\ Lacks(<<"restoreEnv">>, Out)
      BY Zenon, <1>1, Single, SingleLacks
    <2>2. <<>> \in Seq(Steps) /\ Lacks(<<>>, Out) /\ Lacks(<<>>, EnvSteps)
      BY Zenon, EmptyHas
    <2> QED BY Zenon, <2>1, <2>2
  <1>7. Rollback(i) = a \o b
    BY Zenon DEF Rollback
  <1> HIDE DEF a, b, c, d, r, patch
  <1>8. a \o b \in Seq(Steps) /\ (a \o b) \o c \in Seq(Steps) /\ (a \o b) \o d \in Seq(Steps)
    BY <1>2, <1>5, <1>6
  <1>9. t = (a \o b) \o c \/ t = (a \o b) \o d \/ t = r
    BY Zenon, <1>7 DEF c, d, r
  <1>a. ASSUME NEW Y, Lacks(a, Y), Lacks(b, Y), Lacks(c, Y), Lacks(d, Y), Lacks(r, Y)
        PROVE  Lacks(t, Y)
    <2>1. Lacks(a \o b, Y)
      BY Zenon, <1>2, <1>6, <1>a, ConcatLacks
    <2>2. Lacks((a \o b) \o c, Y)
      BY Zenon, <1>2, <1>8, <1>a, <2>1, ConcatLacks
    <2>3. Lacks((a \o b) \o d, Y)
      BY Zenon, <1>5, <1>8, <1>a, <2>1, ConcatLacks
    <2> QED BY Zenon, <1>9, <1>a, <2>2, <2>3
  <1>10. Lacks(t, Out)
    BY Zenon, <1>3, <1>5, <1>6, <1>a
  <1>11. ~patch => Lacks(t, EnvSteps)
    BY Zenon, <1>4, <1>5, <1>6, <1>a
  <1>12. /\ Lacks(t, NeedFiles) /\ ~Has(t, "plan") /\ ~Has(t, "check") /\ ~Has(t, "stage")
         /\ PlanFirst(t)
    BY Zenon, <1>10 DEF Out, Lacks, Has, PlanFirst
  <1> QED BY Zenon, <1>5, <1>8, <1>9, <1>11, <1>12 DEF Shape, patch

(***************************************************************************)
(* The invariant: what the pass p of i has done on the disk d under the    *)
(* locks l, or has still to do before the steps that need it.  v are the   *)
(* chart values.                                                           *)
(***************************************************************************)
Held(l, i, p) == p.own \in Wiring /\ l[p.own.config] = i
CurHeld(l, i, p) == p.cur = Unwired \/ p.cur.config = p.own.config \/ l[p.cur.config] = i
HasBinary(d, i, p) == p.own \in Wiring /\ i \in d.binaries[p.own.bin]

\* What p writes is complete once the binary of i is there.
Planned(d, i, p) ==
    /\ p.own \in Wiring /\ p.target \in Target
    /\ p.target.file[i] # NoEntry
    /\ \A n \in Names \ {i} : p.target.file[n] # NoEntry => n \in d.binaries[p.own.bin]
    /\ p.mode = "patch" => EndsIn(p.target.env, p.own)

Written(d, l, i, p) ==
    Held(l, i, p) /\ Planned(d, i, p) /\ d.config[p.own.config] = p.target.file
Wired(d, p) == p.mode = "patch" => d.env = p.target.env

PassInv(d, l, v, i, p) ==
    /\ p.todo \in {<<>>, <<"lockNode">>} \/ p.own \in Wiring
    /\ p.mode # "none" => l["node"] = i
    /\ Shape(p.todo, p.mode)
    /\ Has(p.todo, "check") => p.mode = "patch" /\ p.own = v[i].wiring
    /\ Has(p.todo, "stage") => l[v[i].wiring.config] = i
    /\ CurHeld(l, i, p) \/ Ordered(p.todo, "lockCurrent", NeedLock)
    /\ Held(l, i, p) \/ Ordered(p.todo, "lockOwn", NeedLock)
    /\ HasBinary(d, i, p) \/ Ordered(p.todo, "binary", NeedBinary)
    /\ Planned(d, i, p) \/ Ordered(p.todo, "plan", NeedPlan)
    /\ Written(d, l, i, p) \/ Ordered(p.todo, "config", NeedFiles)
    /\ Wired(d, p) \/ Ordered(p.todo, "env", NeedEnv)

PassesInv == \A i \in Installs : PassInv(disk, locks, chart.values, i, pass[i])

InstallerInv == TypeOK /\ PassesInv

\* More binaries, the locks of i kept, and what i has locked unchanged.
Steady(i, d, l, d2, l2) ==
    /\ \A b \in BinDirs : d.binaries[b] \subseteq d2.binaries[b]
    /\ \A x \in Locks : l[x] = i => l2[x] = i
    /\ \A c \in Configs : l[c] = i => d2.config[c] = d.config[c]
    /\ l["node"] = i => d2.env = d.env

LEMMA LockNames == "node" \in Locks /\ Configs \subseteq Locks
  BY Zenon DEF Locks

LEMMA FactsKept ==
    ASSUME NEW i, NEW d, NEW l, NEW d2, NEW l2, Steady(i, d, l, d2, l2), NEW p
    PROVE  /\ Held(l, i, p) => Held(l2, i, p)
           /\ HasBinary(d, i, p) => HasBinary(d2, i, p)
           /\ Planned(d, i, p) => Planned(d2, i, p)
           /\ Written(d, l, i, p) => Written(d2, l2, i, p)
  <1>1. p.own \in Wiring => p.own.bin \in BinDirs /\ p.own.config \in Configs /\ p.own.config \in Locks
    BY Zenon, WiringTypes, LockNames
  <1>2. Held(l, i, p) => Held(l2, i, p)
    BY Zenon, <1>1 DEF Steady, Held
  <1>3. HasBinary(d, i, p) => HasBinary(d2, i, p)
    BY Zenon, <1>1 DEF Steady, HasBinary
  <1>4. Planned(d, i, p) => Planned(d2, i, p)
    BY Zenon, <1>1 DEF Steady, Planned
  <1>5. Written(d, l, i, p) => Written(d2, l2, i, p)
    BY Zenon, <1>1, <1>2, <1>4 DEF Steady, Written, Held
  <1> QED BY Zenon, <1>2, <1>3, <1>4, <1>5

LEMMA CurKept ==
    ASSUME NEW i, NEW d, NEW l, NEW d2, NEW l2, Steady(i, d, l, d2, l2), NEW p \in Pass,
           CurHeld(l, i, p)
    PROVE  CurHeld(l2, i, p)
  <1>1. p.cur \in Wiring \cup {Unwired}
    BY Zenon DEF Pass
  <1>2. p.cur # Unwired => p.cur.config \in Locks
    BY Zenon, <1>1, WiringTypes, LockNames
  <1> QED BY Zenon, <1>2 DEF CurHeld, Steady

\* A pass is not disturbed by the steps of others.
LEMMA OthersKeep ==
    ASSUME NEW i, NEW d, NEW l, NEW d2, NEW l2, Steady(i, d, l, d2, l2), NEW p \in Pass,
           NEW v, NEW v2, v2[i] = v[i] \/ p.todo = <<>>, v[i].wiring \in Wiring,
           PassInv(d, l, v, i, p)
    PROVE  PassInv(d2, l2, v2, i, p)
  <1>1. \A x : Has(p.todo, x) => v2[i] = v[i]
    BY Zenon, EmptyHas
  <1>2. v[i].wiring.config \in Locks
    BY Zenon, WiringTypes, LockNames
  <1>3. /\ p.todo \in {<<>>, <<"lockNode">>} \/ p.own \in Wiring
        /\ p.mode # "none" => l2["node"] = i
        /\ Shape(p.todo, p.mode)
    BY Zenon, LockNames DEF PassInv, Steady
  <1>4. /\ Has(p.todo, "check") => p.mode = "patch" /\ p.own = v2[i].wiring
        /\ Has(p.todo, "stage") => l2[v2[i].wiring.config] = i
    BY Zenon, <1>1, <1>2 DEF PassInv, Steady
  <1>5. CurHeld(l2, i, p) \/ Ordered(p.todo, "lockCurrent", NeedLock)
    BY Zenon, CurKept DEF PassInv
  <1>6. /\ Held(l2, i, p) \/ Ordered(p.todo, "lockOwn", NeedLock)
        /\ HasBinary(d2, i, p) \/ Ordered(p.todo, "binary", NeedBinary)
        /\ Planned(d2, i, p) \/ Ordered(p.todo, "plan", NeedPlan)
        /\ Written(d2, l2, i, p) \/ Ordered(p.todo, "config", NeedFiles)
    BY Zenon, FactsKept DEF PassInv
  <1>7. Wired(d2, p) \/ Ordered(p.todo, "env", NeedEnv)
    <2>1. "patch" # "none"
      OBVIOUS
    <2>2. p.mode = "patch" => d2.env = d.env
      BY Zenon, <2>1 DEF PassInv, Steady
    <2> QED BY Zenon, <2>2 DEF PassInv, Wired
  <1> QED BY Zenon, <1>3, <1>4, <1>5, <1>6, <1>7 DEF PassInv

\* What a step finds done before it.
LEMMA StepNeeds ==
    ASSUME NEW d, NEW l, NEW v, NEW i, NEW p \in Pass, PassInv(d, l, v, i, p), p.todo # <<>>
    PROVE  /\ Head(p.todo) \in NeedBinary => HasBinary(d, i, p)
           /\ Head(p.todo) \in NeedPlan => Planned(d, i, p)
           /\ Head(p.todo) \in NeedFiles => Written(d, l, i, p)
           /\ Head(p.todo) \in NeedEnv => Wired(d, p)
  <1>1. p.todo \in Seq(Steps)
    BY Zenon DEF Pass
  <1> QED BY Zenon, <1>1, HeadNeeds DEF PassInv

LEMMA StepLocks ==
    ASSUME NEW d, NEW l, NEW v, NEW i, NEW p \in Pass, PassInv(d, l, v, i, p), p.todo # <<>>
    PROVE  /\ Head(p.todo) \in NeedLock => Held(l, i, p) /\ CurHeld(l, i, p)
           /\ Head(p.todo) # "lockNode" => p.own \in Wiring
  <1>1. p.todo \in Seq(Steps) /\ Head(<<"lockNode">>) = "lockNode"
    BY DEF Pass
  <1> QED BY Zenon, <1>1, HeadNeeds DEF PassInv

Patches(v, i, p) == p.mode = "patch" /\ p.own = v[i].wiring
OwnHeld(l, v, i) == l[v[i].wiring.config] = i
NodeHeld(l, i, p) == p.mode = "patch" /\ l["node"] = i

LEMMA StepPlace ==
    ASSUME NEW d, NEW l, NEW v, NEW i, NEW p \in Pass, PassInv(d, l, v, i, p), p.todo # <<>>
    PROVE  /\ Head(p.todo) = "check" => Patches(v, i, p)
           /\ Head(p.todo) = "stage" => OwnHeld(l, v, i)
           /\ Head(p.todo) \in EnvSteps => NodeHeld(l, i, p)
  <1>1. p.todo \in Seq(Steps) /\ "patch" # "none"
    BY DEF Pass
  <1>2. Has(p.todo, Head(p.todo)) /\ \A Y : Lacks(p.todo, Y) => Head(p.todo) \notin Y
    BY Zenon, <1>1, HeadTail
  <1> QED BY Zenon, <1>1, <1>2 DEF PassInv, Shape, Patches, OwnHeld, NodeHeld

\* q goes on with p after its next step, with or without a new plan.
Follows(q, p) ==
    q.todo = Tail(p.todo) /\ q.own = p.own /\ q.cur = p.cur /\ q.mode = p.mode
Kept(q, p) == Follows(q, p) /\ q.target = p.target

Undo == Restores \cup {"plan"}

LEMMA GoesOn ==
    ASSUME NEW d, NEW l, NEW v, NEW d2, NEW l2, NEW i, NEW p \in Pass, PassInv(d, l, v, i, p),
           p.todo # <<>>, Head(p.todo) # "lockNode", v[i].wiring \in Wiring,
           \A x \in Locks : l[x] = i => l2[x] = i,
           NEW q, Follows(q, p),
           Head(p.todo) = "lockCurrent" => CurHeld(l2, i, q),
           Head(p.todo) = "lockOwn" => Held(l2, i, q),
           Head(p.todo) = "binary" \/ HasBinary(d, i, p) => HasBinary(d2, i, q),
           Head(p.todo) = "plan" \/ Planned(d, i, p) => Planned(d2, i, q),
           Head(p.todo) = "config" \/ (Written(d, l, i, p) /\ Head(p.todo) \notin Undo)
               => Written(d2, l2, i, q),
           Head(p.todo) = "env" \/ (Wired(d, p) /\ Head(p.todo) \notin Undo) => Wired(d2, q)
    PROVE  PassInv(d2, l2, v, i, q)
  <1> DEFINE s == p.todo
             h == Head(p.todo)
  <1>1. /\ s \in Seq(Steps) /\ s # <<>> /\ p.cur \in Wiring \cup {Unwired}
        /\ q.todo = Tail(s) /\ Shape(s, p.mode)
    BY Zenon DEF Pass, Follows, PassInv
  <1>2. q.own \in Wiring /\ p.own = q.own
    BY Zenon, StepLocks DEF Follows
  <1>3. q.mode # "none" => l2["node"] = i
    BY Zenon, LockNames DEF PassInv, Follows
  <1>4. Shape(q.todo, q.mode)
    BY Zenon, <1>1, ShapeTail DEF Follows
  <1>5. \A x : Has(q.todo, x) => Has(s, x)
    <2>1. \A x : Has(Tail(s), x) => Has(s, x)
      BY Zenon, <1>1, HeadTail
    <2> QED BY Zenon, <2>1 DEF Follows
  <1>6. Has(q.todo, "check") => q.mode = "patch" /\ q.own = v[i].wiring
    BY Zenon, <1>5 DEF PassInv, Follows
  <1>7. Has(q.todo, "stage") => l2[v[i].wiring.config] = i
    BY Zenon, <1>5, WiringTypes, LockNames DEF PassInv
  <1>8. CurHeld(l2, i, q) \/ Ordered(q.todo, "lockCurrent", NeedLock)
    <2>1. p.cur = Unwired \/ p.cur.config \in Locks
      BY Zenon, <1>1, WiringTypes, LockNames
    <2>2. CurHeld(l, i, p) => CurHeld(l2, i, q)
      BY Zenon, <2>1 DEF CurHeld, Follows
    <2> QED BY Zenon, <1>1, <2>2, TailOrdered DEF PassInv
  <1>9. Held(l2, i, q) \/ Ordered(q.todo, "lockOwn", NeedLock)
    <2>1. Held(l, i, p) => Held(l2, i, q)
      BY Zenon, <1>2, WiringTypes, LockNames DEF Held
    <2> QED BY Zenon, <1>1, <2>1, TailOrdered DEF PassInv
  <1>10. HasBinary(d2, i, q) \/ Ordered(q.todo, "binary", NeedBinary)
    BY Zenon, <1>1, TailOrdered DEF PassInv
  <1>11. Planned(d2, i, q) \/ Ordered(q.todo, "plan", NeedPlan)
    BY Zenon, <1>1, TailOrdered DEF PassInv
  <1>12. h \in Restores => Lacks(q.todo, NeedFiles) /\ Lacks(q.todo, NeedEnv)
    <2>1. h \in Restores => Lacks(Tail(s), NeedFiles)
      BY Zenon, <1>1, HeadTail DEF Shape
    <2>2. NeedEnv \subseteq NeedFiles
      BY DEF NeedEnv, NeedFiles
    <2> QED BY Zenon, <1>1, <2>1, <2>2 DEF Lacks
  <1>13. h = "plan" => Ordered(s, "config", NeedFiles) /\ (p.mode = "patch" => Ordered(s, "env", NeedEnv))
    BY Zenon, <1>1, HeadTail DEF Shape
  <1>14. "plan" # "config" /\ "plan" # "env"
    OBVIOUS
  <1>15. q.todo \in Seq(Steps)
    BY <1>1
  <1>16. Written(d2, l2, i, q) \/ Ordered(q.todo, "config", NeedFiles)
    <2>1. CASE h \in Restores
      BY Zenon, <1>12, <1>15, <2>1, OrderedNone DEF Lacks
    <2>2. CASE h = "plan"
      BY Zenon, <1>1, <1>13, <1>14, <2>2, TailOrdered
    <2>3. CASE h \notin Undo
      BY Zenon, <1>1, <2>3, TailOrdered DEF PassInv
    <2> QED BY Zenon, <2>1, <2>2, <2>3 DEF Undo
  <1>17. Wired(d2, q) \/ Ordered(q.todo, "env", NeedEnv)
    <2>1. CASE h \in Restores
      BY Zenon, <1>12, <1>15, <2>1, OrderedNone DEF Lacks
    <2>2. CASE h = "plan"
      BY Zenon, <1>1, <1>13, <1>14, <2>2, TailOrdered DEF Wired, Follows
    <2>3. CASE h \notin Undo
      BY Zenon, <1>1, <2>3, TailOrdered DEF PassInv
    <2> QED BY Zenon, <2>1, <2>2, <2>3 DEF Undo
  <1> QED BY Zenon, <1>2, <1>3, <1>4, <1>6, <1>7, <1>8, <1>9, <1>10, <1>11, <1>16, <1>17 DEF PassInv

\* Steps that change none of the facts.
Others == {"lockNode", "lockCurrent", "lockOwn", "binary", "plan", "config", "env"}

LEMMA KeptFacts ==
    ASSUME NEW d, NEW l, NEW i, NEW p, NEW q, Kept(q, p)
    PROVE  /\ HasBinary(d, i, p) = HasBinary(d, i, q) /\ Planned(d, i, p) = Planned(d, i, q)
           /\ Written(d, l, i, p) = Written(d, l, i, q) /\ Wired(d, p) = Wired(d, q)
  <1>1. HasBinary(d, i, p) = HasBinary(d, i, q) /\ Planned(d, i, p) = Planned(d, i, q)
    BY Zenon DEF Kept, Follows, HasBinary, Planned
  <1>2. Held(l, i, p) = Held(l, i, q)
    BY Zenon DEF Kept, Follows, Held
  <1>3. Written(d, l, i, p) = Written(d, l, i, q) /\ Wired(d, p) = Wired(d, q)
    BY Zenon, <1>1, <1>2 DEF Kept, Follows, Written, Wired
  <1> QED BY Zenon, <1>1, <1>3

LEMMA KeptGoesOn ==
    ASSUME NEW d, NEW l, NEW v, NEW d2, NEW l2, NEW i, NEW p \in Pass, PassInv(d, l, v, i, p),
           p.todo # <<>>, Head(p.todo) \notin Others, v[i].wiring \in Wiring,
           Head(p.todo) \in Undo \/ Steady(i, d, l, d2, l2),
           \A b \in BinDirs : d.binaries[b] \subseteq d2.binaries[b],
           \A x \in Locks : l[x] = i => l2[x] = i,
           NEW q, Kept(q, p)
    PROVE  PassInv(d2, l2, v, i, q)
  <1> DEFINE h == Head(p.todo)
  <1>1. h # "lockNode" /\ h # "lockCurrent" /\ h # "lockOwn" /\ h # "binary" /\ h # "plan"
        /\ h # "config" /\ h # "env"
    BY Zenon DEF Others
  <1>2. Follows(q, p)
    BY Zenon DEF Kept
  <1>3. p.own \in Wiring => p.own.bin \in BinDirs
    BY Zenon, WiringTypes
  <1>4. HasBinary(d, i, p) => HasBinary(d2, i, q)
    BY Zenon, <1>3, KeptFacts DEF HasBinary
  <1>5. Planned(d, i, p) => Planned(d2, i, q)
    <2>1. Planned(d, i, p) => Planned(d2, i, p)
      BY Zenon, <1>3 DEF Planned
    <2>2. Planned(d2, i, p) = Planned(d2, i, q)
      BY Zenon, KeptFacts
    <2> QED BY Zenon, <2>1, <2>2
  <1>6. Written(d, l, i, p) /\ h \notin Undo => Written(d2, l2, i, q)
    <2>1. h \notin Undo /\ Written(d, l, i, p) => Written(d2, l2, i, p)
      BY Zenon, FactsKept
    <2>2. Written(d2, l2, i, p) = Written(d2, l2, i, q)
      BY Zenon, KeptFacts
    <2> QED BY Zenon, <2>1, <2>2
  <1>7. Wired(d, p) /\ h \notin Undo => Wired(d2, q)
    <2>1. "patch" # "none"
      OBVIOUS
    <2>2. p.mode = "patch" /\ h \notin Undo => d2.env = d.env
      BY Zenon, <2>1 DEF PassInv, Steady
    <2> QED BY Zenon, <2>2 DEF Wired, Kept, Follows
  <1>8. /\ h = "binary" \/ HasBinary(d, i, p) => HasBinary(d2, i, q)
        /\ h = "plan" \/ Planned(d, i, p) => Planned(d2, i, q)
        /\ h = "config" \/ (Written(d, l, i, p) /\ h \notin Undo) => Written(d2, l2, i, q)
        /\ h = "env" \/ (Wired(d, p) /\ h \notin Undo) => Wired(d2, q)
    BY Zenon, <1>1, <1>4, <1>5, <1>6, <1>7
  <1> QED BY ZenonT(30), <1>1, <1>2, <1>8, GoesOn

(***************************************************************************)
(* Updates.                                                                *)
(***************************************************************************)
\* d has the files of s that kubelet reads.
SameFiles(d, s) ==
    d \in Disk /\ d.config = s.config /\ d.binaries = s.binaries /\ d.env = s.env

\* d is s with another config, one more binary or another environment file.
WroteConfig(d, s, c, f) ==
    /\ d \in Disk /\ d.config = [s.config EXCEPT ![c] = f]
    /\ d.binaries = s.binaries /\ d.env = s.env
WroteBinary(d, s, b, i) ==
    /\ d \in Disk /\ d.binaries = [s.binaries EXCEPT ![b] = @ \cup {i}]
    /\ d.config = s.config /\ d.env = s.env
WroteEnv(d, s, e) ==
    d \in Disk /\ d.env = e /\ d.config = s.config /\ d.binaries = s.binaries

LEMMA RecordWritten ==
    ASSUME NEW s \in Disk, NEW b \in BinDirs, NEW i \in Installs, NEW r \in Record \cup {NoRecord}
    PROVE  SameFiles([s EXCEPT !.record[b][i] = r], s)
  <1> DEFINE g == [s.record[b] EXCEPT ![i] = r]
             h == [s.record EXCEPT ![b] = g]
  <1>1. s.record \in [BinDirs -> [Installs -> Record \cup {NoRecord}]]
    BY Zenon DEF Disk
  <1>2. h \in [BinDirs -> [Installs -> Record \cup {NoRecord}]]
    BY Zenon, <1>1
  <1>3. [s EXCEPT !.record[b][i] = r] = [s EXCEPT !.record = h]
    BY Zenon, <1>1
  <1> HIDE DEF h
  <1> QED BY ZenonT(20), <1>2, <1>3 DEF SameFiles, Disk

LEMMA StateWritten ==
    ASSUME NEW s \in Disk, NEW i \in Installs, NEW x \in State \cup {NoState}
    PROVE  SameFiles([s EXCEPT !.state[i] = x], s)
  <1> DEFINE h == [s.state EXCEPT ![i] = x]
  <1>1. h \in [Installs -> State \cup {NoState}]
    BY Zenon DEF Disk
  <1>2. [s EXCEPT !.state[i] = x] = [s EXCEPT !.state = h]
    BY Zenon
  <1> HIDE DEF h
  <1> QED BY ZenonT(20), <1>1, <1>2 DEF SameFiles, Disk

LEMMA ConfigWritten ==
    ASSUME NEW s \in Disk, NEW c \in Configs, NEW f \in Content \cup {NoFile}
    PROVE  WroteConfig([s EXCEPT !.config[c] = f], s, c, f)
  <1> DEFINE h == [s.config EXCEPT ![c] = f]
  <1>1. h \in [Configs -> Content \cup {NoFile}]
    BY Zenon DEF Disk
  <1>2. [s EXCEPT !.config[c] = f] = [s EXCEPT !.config = h]
    BY Zenon
  <1> HIDE DEF h
  <1>3. LET d == [s EXCEPT !.config = h]
        IN  d \in Disk /\ d.config = h /\ d.binaries = s.binaries /\ d.env = s.env
    BY ZenonT(20), <1>1 DEF Disk
  <1> QED BY Zenon, <1>2, <1>3 DEF h, WroteConfig

LEMMA BinaryWritten ==
    ASSUME NEW s \in Disk, NEW b \in BinDirs, NEW i \in Installs
    PROVE  WroteBinary([s EXCEPT !.binaries[b] = @ \cup {i}], s, b, i)
  <1> DEFINE h == [s.binaries EXCEPT ![b] = s.binaries[b] \cup {i}]
  <1>1. s.binaries \in [BinDirs -> SUBSET Names] /\ i \in Names
    BY Zenon DEF Disk, Names
  <1>2. h \in [BinDirs -> SUBSET Names]
    BY Zenon, <1>1
  <1>3. [s EXCEPT !.binaries[b] = @ \cup {i}] = [s EXCEPT !.binaries = h]
    BY Zenon
  <1> HIDE DEF h
  <1>4. LET d == [s EXCEPT !.binaries = h]
        IN  d \in Disk /\ d.binaries = h /\ d.config = s.config /\ d.env = s.env
    BY ZenonT(20), <1>2 DEF Disk
  <1> QED BY Zenon, <1>3, <1>4 DEF h, WroteBinary

LEMMA EnvWritten ==
    ASSUME NEW s \in Disk, NEW e \in Seq(Arg)
    PROVE  WroteEnv([s EXCEPT !.env = e], s, e)
  BY ZenonT(20) DEF Disk, WroteEnv

\* A step of i: more binaries, the locks of others kept, and nothing changed that i
\* has not locked.
Mine(i, d, l, d2, l2) ==
    /\ \A b \in BinDirs : d.binaries[b] \subseteq d2.binaries[b]
    /\ \A x \in Locks : l[x] \in Installs \ {i} => l2[x] = l[x]
    /\ \A c \in Configs : l[c] # i => d2.config[c] = d.config[c]
    /\ l["node"] # i => d2.env = d.env

LEMMA MineSteady ==
    ASSUME NEW i, NEW j \in Installs \ {i}, NEW d, NEW l, NEW d2, NEW l2, Mine(i, d, l, d2, l2)
    PROVE  Steady(j, d, l, d2, l2)
  BY Zenon DEF Mine, Steady

LEMMA SameKeeps ==
    ASSUME NEW i, NEW l, NEW d, NEW d2, SameFiles(d2, d)
    PROVE  Mine(i, d, l, d2, l) /\ Steady(i, d, l, d2, l)
  BY Zenon DEF Mine, Steady, SameFiles

LEMMA ConfigKeeps ==
    ASSUME NEW i, NEW l, NEW d \in Disk, NEW d2, NEW c \in Configs, NEW f,
           WroteConfig(d2, d, c, f), l[c] = i
    PROVE  Mine(i, d, l, d2, l)
  <1>1. d.config \in [Configs -> Content \cup {NoFile}]
    BY Zenon DEF Disk
  <1>2. d2.config[c] = f /\ \A x \in Configs : x # c => d2.config[x] = d.config[x]
    BY Zenon, <1>1 DEF WroteConfig
  <1>3. \A x \in Configs : l[x] # i => d2.config[x] = d.config[x]
    BY Zenon, <1>2
  <1> QED BY Zenon, <1>2, <1>3 DEF Mine, WroteConfig

LEMMA BinaryKeeps ==
    ASSUME NEW i, NEW l, NEW d \in Disk, NEW d2, NEW b \in BinDirs, WroteBinary(d2, d, b, i)
    PROVE  Mine(i, d, l, d2, l) /\ Steady(i, d, l, d2, l) /\ i \in d2.binaries[b]
  <1>1. d.binaries \in [BinDirs -> SUBSET Names]
    BY Zenon DEF Disk
  <1>2. ASSUME NEW g \in [BinDirs -> SUBSET Names], NEW h, h = [g EXCEPT ![b] = @ \cup {i}]
        PROVE  i \in h[b] /\ \A c \in BinDirs : g[c] \subseteq h[c]
    BY <1>2
  <1>3. i \in d2.binaries[b] /\ \A c \in BinDirs : d.binaries[c] \subseteq d2.binaries[c]
    BY Zenon, <1>1, <1>2 DEF WroteBinary
  <1> QED BY Zenon, <1>3 DEF Mine, Steady, WroteBinary

LEMMA EnvKeeps ==
    ASSUME NEW i, NEW l, NEW d, NEW d2, NEW e, WroteEnv(d2, d, e), l["node"] = i
    PROVE  Mine(i, d, l, d2, l)
  BY Zenon DEF Mine, WroteEnv

LEMMA LockKeeps ==
    ASSUME TypeOK, NEW i \in Installs, NEW x, Lock(i, x)
    PROVE  /\ Mine(i, disk, locks, disk, locks') /\ Steady(i, disk, locks, disk, locks')
           /\ x \in Locks => locks'[x] = i
           /\ locks' \in [Locks -> Installs \cup {NoOwner}]
  <1>1. /\ locks \in [Locks -> Installs \cup {NoOwner}] /\ locks[x] = NoOwner
        /\ locks' = [locks EXCEPT ![x] = i] /\ NoOwner \notin Installs
    BY Zenon, InstallerAssumption DEF TypeOK, Lock
  <1>2. (x \in Locks => locks'[x] = i) /\ \A y \in Locks : y # x => locks'[y] = locks[y]
    BY Zenon, <1>1
  <1>3. \A y \in Locks : locks[y] \in Installs => locks'[y] = locks[y]
    BY Zenon, <1>1, <1>2
  <1>4. locks' \in [Locks -> Installs \cup {NoOwner}]
    BY Zenon, <1>1
  <1> QED BY Zenon, <1>2, <1>3, <1>4 DEF Mine, Steady

LEMMA EndsKeep ==
    ASSUME TypeOK, NEW i \in Installs, NEW how \in {"ok", "error", "torn", "died"}, Ends(i, how),
           SameFiles(disk', disk)
    PROVE  /\ Mine(i, disk, locks, disk', locks')
           /\ locks' \in [Locks -> Installs \cup {NoOwner}]
           /\ chart' \in Charts /\ chart'.values = chart.values
  <1>1. locks' = [x \in Locks |-> IF locks[x] = i THEN NoOwner ELSE locks[x]]
    BY Zenon DEF Ends
  <1>2. locks' \in [Locks -> Installs \cup {NoOwner}]
    BY Zenon, <1>1 DEF TypeOK
  <1>3. \A x \in Locks : locks[x] \in Installs \ {i} => locks'[x] = locks[x]
    BY Zenon, <1>1
  <1>4. Mine(i, disk, locks, disk', locks')
    BY Zenon, <1>3 DEF Mine, SameFiles
  <1> DEFINE r == [chart.result EXCEPT ![i] = IF chart.result[i] = "torn" /\ how # "ok"
                                              THEN chart.result[i] ELSE how]
             u == IF how = "ok" THEN chart.due \ {i} ELSE chart.due \cup {i}
  <1>5. chart \in Charts /\ r \in [Installs -> {"none", "ok", "error", "torn", "died"}]
        /\ u \in SUBSET Installs
    BY Zenon DEF TypeOK, Charts
  <1>6. chart' = [chart EXCEPT !.result = r, !.due = u]
    BY Zenon DEF Ends
  <1> HIDE DEF r, u
  <1>7. chart' \in Charts /\ chart'.values = chart.values
    BY ZenonT(20), <1>5, <1>6 DEF Charts
  <1> QED BY Zenon, <1>2, <1>4, <1>7

LEMMA StartedFacts ==
    ASSUME disk \in Disk, NEW k \in Kubelets
    PROVE  Started(k) \in Process
  <1> DEFINE w == kubeletWiring(CommandLine)
  <1>1. w \in Wiring \cup {Unwired}
    <2>1. disk.unit \in Seq(Arg) /\ disk.env \in Seq(Arg)
      BY Zenon DEF Disk
    <2>2. disk.unit \o disk.env \in Seq(Arg)
      BY <2>1
    <2> QED BY Zenon, <2>2, CommandLineWiring DEF CommandLine
  <1>2. w # Unwired => disk.config[w.config] \in Content \cup {NoFile}
    BY Zenon, <1>1, WiringTypes DEF Disk
  <1> DEFINE l == IF Starts(k) /\ w # Unwired THEN disk.config[w.config] ELSE NoFile
             u == Starts(k)
  <1>3. l \in Content \cup {NoFile}
    BY Zenon, <1>2
  <1>4. Started(k) = [up |-> u, wiring |-> w, identity |-> k, live |-> l]
    BY Zenon DEF Started
  <1>5. u \in BOOLEAN
    BY Zenon DEF Starts
  <1> HIDE DEF w, l, u
  <1>6. [up |-> u, wiring |-> w, identity |-> k, live |-> l] \in Process
    BY SMTT(20), <1>1, <1>3, <1>5 DEF Process
  <1> QED BY Zenon, <1>4, <1>6

Budgets == [upgrades: Nat, faults: Nat, kubelet: Nat]

LEMMA FaultFacts == TypeOK /\ Fault => budget' \in Budgets
  BY DEF TypeOK, Fault, Budgets

\* A step that replaces the pass of i, and otherwise changes what i may change.
LEMMA StepKeeps ==
    ASSUME InstallerInv, NEW i \in Installs, NEW q \in Pass, pass' = [pass EXCEPT ![i] = q],
           PassInv(disk', locks', chart.values, i, q), Mine(i, disk, locks, disk', locks'),
           disk' \in Disk, kubelet' \in Process, locks' \in [Locks -> Installs \cup {NoOwner}],
           chart' \in Charts, chart'.values = chart.values, budget' \in Budgets
    PROVE  InstallerInv'
  <1>1. pass \in [Installs -> Pass] /\ pass' \in [Installs -> Pass]
    BY Zenon DEF InstallerInv, TypeOK
  <1>2. ASSUME NEW j \in Installs PROVE PassInv(disk', locks', chart.values, j, pass'[j])
    <2>1. CASE j = i
      <3>1. pass'[j] = q
        BY Zenon, <1>1, <2>1
      <3> QED BY Zenon, <2>1, <3>1
    <2>2. CASE j # i
      <3>1. pass'[j] = pass[j] /\ pass[j] \in Pass
        BY Zenon, <1>1, <2>2
      <3>2. Steady(j, disk, locks, disk', locks')
        BY Zenon, <2>2, MineSteady
      <3>3. chart.values[j].wiring \in Wiring
        BY Zenon DEF InstallerInv, TypeOK, Charts, Chart
      <3>4. PassInv(disk, locks, chart.values, j, pass[j])
        BY Zenon DEF InstallerInv, PassesInv
      <3> QED BY Zenon, <3>1, <3>2, <3>3, <3>4, OthersKeep
    <2> QED BY Zenon, <2>1, <2>2
  <1>3. PassesInv'
    BY Zenon, <1>2 DEF PassesInv
  <1>4. TypeOK'
    BY Zenon, <1>1 DEF TypeOK, Budgets
  <1> QED BY Zenon, <1>3, <1>4 DEF InstallerInv

SamePlan(p, q) ==
    /\ p \in Pass
    /\ p.todo = q.todo /\ p.own = q.own /\ p.cur = q.cur /\ p.mode = q.mode
    /\ p.target = q.target

LEMMA SamePlans ==
    ASSUME NEW p \in Pass
    PROVE  /\ \A r \in Record \cup {NoRecord} : SamePlan([p EXCEPT !.begun = r], p)
           /\ \A b \in BOOLEAN : SamePlan([p EXCEPT !.changed = b], p)
           /\ SamePlan([p EXCEPT !.torn = TRUE], p)
  <1>1. ASSUME NEW r \in Record \cup {NoRecord} PROVE SamePlan([p EXCEPT !.begun = r], p)
    BY ZenonT(20) DEF Pass, SamePlan
  <1>2. ASSUME NEW b \in BOOLEAN PROVE SamePlan([p EXCEPT !.changed = b], p)
    BY ZenonT(20) DEF Pass, SamePlan
  <1>3. SamePlan([p EXCEPT !.torn = TRUE], p)
    BY ZenonT(20) DEF Pass, SamePlan
  <1> QED BY Zenon, <1>1, <1>2, <1>3

LEMMA TailPass ==
    ASSUME NEW p \in Pass, p.todo # <<>>
    PROVE  /\ [p EXCEPT !.todo = Tail(@)] \in Pass
           /\ Kept([p EXCEPT !.todo = Tail(@)], p)
  <1>1. Tail(p.todo) \in Seq(Steps)
    <2>1. p.todo \in Seq(Steps)
      BY Zenon DEF Pass
    <2> QED BY <2>1
  <1> QED BY ZenonT(20), <1>1 DEF Pass, Kept, Follows

\* The pass that goes on with p, which has the plan of the pass of i.
LEMMA NextPass ==
    ASSUME NEW i \in Installs, NEW p, SamePlan(p, pass[i]), Running(i), Continue(i, p)
    PROVE  \E q \in Pass : pass' = [pass EXCEPT ![i] = q] /\ Kept(q, pass[i])
  <1> DEFINE q == [p EXCEPT !.todo = Tail(@)]
  <1>1. q \in Pass /\ Kept(q, p)
    BY Zenon, TailPass DEF SamePlan, Running
  <1>2. pass' = [pass EXCEPT ![i] = q]
    BY Zenon DEF Continue
  <1> HIDE DEF q
  <1>3. Kept(q, pass[i])
    BY Zenon, <1>1 DEF Kept, Follows, SamePlan
  <1> QED BY Zenon, <1>1, <1>2, <1>3

LEMMA Frame ==
    ASSUME InstallerInv
    PROVE  /\ disk \in Disk /\ kubelet \in Process /\ pass \in [Installs -> Pass]
           /\ locks \in [Locks -> Installs \cup {NoOwner}] /\ budget \in Budgets
           /\ SameFiles(disk, disk) /\ chart \in Charts /\ kubelet.identity \in Kubelets
           /\ \A i \in Installs : /\ pass[i] \in Pass
                                  /\ PassInv(disk, locks, chart.values, i, pass[i])
                                  /\ SamePlan(pass[i], pass[i])
                                  /\ ownWiring(i) = chart.values[i].wiring
                                  /\ ownWiring(i) \in Wiring
                                  /\ chart.values[i].override \in Wiring \cup {Unwired}
  BY Zenon DEF InstallerInv, TypeOK, PassesInv, ownWiring, Budgets, SamePlan, SameFiles, Charts,
               Chart, Process

LEMMA IdleFacts ==
    ASSUME NEW d, NEW l, NEW v, NEW i
    PROVE  Idle \in Pass /\ PassInv(d, l, v, i, Idle) /\ Idle.cur = Unwired /\ Idle.mode = "none"
  <1>1. <<>> \in Seq(Steps) /\ <<>> \in Seq(Arg)
    OBVIOUS
  <1>2. Idle \in Pass /\ Idle.todo = <<>> /\ Idle.cur = Unwired /\ Idle.mode = "none"
    BY ZenonT(20), <1>1 DEF Idle, Pass
  <1>3. Quiet(Idle.todo) /\ ~Has(Idle.todo, "check") /\ Ordered(Idle.todo, "lockOwn", NeedLock)
    BY Zenon, <1>2, LockSequences
  <1>4. CurHeld(l, i, Idle)
    BY Zenon, <1>2 DEF CurHeld
  <1> QED BY Zenon, <1>2, <1>3, <1>4, QuietFits DEF PassInv

(***************************************************************************)
(* The steps.                                                              *)
(***************************************************************************)
\* A step that ends the pass of i.
LEMMA EndStep ==
    ASSUME InstallerInv, NEW i \in Installs, NEW how \in {"ok", "error", "torn", "died"},
           Ends(i, how), SameFiles(disk', disk), kubelet' = kubelet, budget' \in Budgets
    PROVE  InstallerInv'
  <1>1. TypeOK /\ pass' = [pass EXCEPT ![i] = Idle] /\ disk' \in Disk /\ kubelet' \in Process
    BY Zenon, Frame DEF InstallerInv, Ends, SameFiles
  <1>2. /\ Mine(i, disk, locks, disk', locks')
        /\ locks' \in [Locks -> Installs \cup {NoOwner}]
        /\ chart' \in Charts /\ chart'.values = chart.values
    BY Zenon, <1>1, EndsKeep
  <1>3. Idle \in Pass /\ PassInv(disk', locks', chart.values, i, Idle)
    BY Zenon, IdleFacts
  <1> QED BY Zenon, <1>1, <1>2, <1>3, StepKeeps

\* A step that replaces the pass of i alone.
LEMMA QuietStep ==
    ASSUME InstallerInv, NEW i \in Installs, NEW q \in Pass,
           PassInv(disk, locks, chart.values, i, q),
           pass' = [pass EXCEPT ![i] = q], UNCHANGED <<disk, kubelet, locks, chart>>,
           budget' \in Budgets
    PROVE  InstallerInv'
  <1>1. Mine(i, disk, locks, disk', locks')
    BY Zenon, Frame, SameKeeps
  <1> QED BY Zenon, <1>1, Frame, StepKeeps

\* A step of the pass of i that changes none of the facts about it, or undoes them.
LEMMA GoOnStep ==
    ASSUME InstallerInv, NEW i \in Installs, NEW p, Running(i), SamePlan(p, pass[i]),
           Continue(i, p), Head(pass[i].todo) \notin Others,
           Head(pass[i].todo) \in Undo \/ SameFiles(disk', disk),
           Mine(i, disk, locks, disk', locks'), disk' \in Disk, kubelet' \in Process,
           UNCHANGED <<locks, chart>>, budget' \in Budgets
    PROVE  InstallerInv'
  <1>1. PICK q \in Pass : pass' = [pass EXCEPT ![i] = q] /\ Kept(q, pass[i])
    BY Zenon, NextPass
  <1>2. /\ pass[i] \in Pass /\ PassInv(disk, locks, chart.values, i, pass[i])
        /\ chart.values[i].wiring \in Wiring /\ pass[i].todo # <<>>
    BY Zenon, Frame DEF Running
  <1>3. \A b \in BinDirs : disk.binaries[b] \subseteq disk'.binaries[b]
    BY Zenon DEF Mine
  <1>4. \A x \in Locks : locks[x] = i => locks'[x] = i
    BY Zenon
  <1>5. Head(pass[i].todo) \in Undo \/ Steady(i, disk, locks, disk', locks')
    BY Zenon, SameKeeps
  <1>6. PassInv(disk', locks', chart.values, i, q)
    BY Zenon, <1>1, <1>2, <1>3, <1>4, <1>5, KeptGoesOn
  <1> QED BY Zenon, <1>1, <1>6, Frame, StepKeeps

\* A pass that has locked nothing yet but the node.
LEMMA QuietInv ==
    ASSUME NEW d, NEW l, NEW v, NEW i, NEW q, Quiet(q.todo),
           q.todo \in {<<>>, <<"lockNode">>} \/ q.own \in Wiring,
           q.mode # "none" => l["node"] = i,
           Has(q.todo, "check") => q.mode = "patch" /\ q.own = v[i].wiring,
           CurHeld(l, i, q) \/ Ordered(q.todo, "lockCurrent", NeedLock),
           Held(l, i, q) \/ Ordered(q.todo, "lockOwn", NeedLock)
    PROVE  PassInv(d, l, v, i, q)
  BY Zenon, QuietFits DEF PassInv

\* A pass with all of its files ahead.
LEMMA GoodInv ==
    ASSUME NEW d, NEW l, NEW v, NEW i, NEW q, Good(q.todo, q.mode), q.own \in Wiring,
           q.mode # "none" => l["node"] = i,
           q.mode = "patch" => l[v[i].wiring.config] = i,
           CurHeld(l, i, q),
           Held(l, i, q) \/ Ordered(q.todo, "lockOwn", NeedLock)
    PROVE  PassInv(d, l, v, i, q)
  <1>1. /\ Shape(q.todo, q.mode) /\ ~Has(q.todo, "check")
        /\ q.mode # "patch" => ~Has(q.todo, "stage")
    <2>1. Lacks(q.todo, Restores) /\ ~Has(q.todo, "check")
      BY Zenon DEF Good, Lacks, Has
    <2>2. q.mode # "patch" => Lacks(q.todo, EnvSteps) /\ ~Has(q.todo, "stage")
      BY Zenon DEF Good, Lacks, Has
    <2> QED BY Zenon, <2>1, <2>2 DEF Shape, Good
  <1>2. Wired(d, q) \/ Ordered(q.todo, "env", NeedEnv)
    BY Zenon DEF Wired, Good
  <1>3. Has(q.todo, "stage") => l[v[i].wiring.config] = i
    BY Zenon, <1>1
  <1> QED BY Zenon, <1>1, <1>2, <1>3 DEF PassInv, Good

LEMMA StartStep ==
    ASSUME InstallerInv, NEW i \in Installs, Start(i)
    PROVE  InstallerInv'
  <1> DEFINE t == <<"lockOwn", "plan">> \o WriteFiles \o <<"end">>
             u == <<"lockNode">>
             q == [Idle EXCEPT !.own = ownWiring(i), !.todo = t]
             r == [Idle EXCEPT !.todo = u]
  <1>1. /\ Good(t, "none") /\ Ordered(t, "lockOwn", NeedLock)
        /\ Quiet(u) /\ Ordered(u, "lockOwn", NeedLock) /\ ~Has(u, "check")
    BY Zenon, PassSequences, LockSequences
  <1>2. Idle \in Pass /\ Idle.cur = Unwired /\ Idle.mode = "none" /\ ownWiring(i) \in Wiring
    BY Zenon, IdleFacts, Frame
  <1>3. t \in Seq(Steps) /\ u \in Seq(Steps)
    BY Zenon, <1>1 DEF Good, Quiet
  <1>4. pass' = [pass EXCEPT ![i] = q] \/ pass' = [pass EXCEPT ![i] = r]
    BY Zenon DEF Start
  <1>5. u \in {<<>>, <<"lockNode">>}
    BY Zenon
  <1> HIDE DEF t, u
  <1>6. q \in Pass /\ q.own = ownWiring(i) /\ q.cur = Unwired /\ q.todo = t /\ q.mode = "none"
    BY ZenonT(20), <1>2, <1>3 DEF Pass
  <1>7. r \in Pass /\ r.cur = Unwired /\ r.todo = u /\ r.mode = "none"
    BY ZenonT(20), <1>2, <1>3 DEF Pass
  <1> HIDE DEF q, r
  <1>8. CurHeld(locks, i, q) /\ CurHeld(locks, i, r) /\ "none" # "patch"
    BY <1>6, <1>7 DEF CurHeld
  <1>9. PassInv(disk, locks, chart.values, i, q)
    BY Zenon, <1>1, <1>2, <1>6, <1>8, GoodInv
  <1>10. PassInv(disk, locks, chart.values, i, r)
    BY Zenon, <1>1, <1>5, <1>7, <1>8, QuietInv
  <1>11. UNCHANGED <<disk, kubelet, locks, chart>> /\ budget' \in Budgets
    BY Zenon, Frame DEF Start
  <1> QED BY Zenon, <1>4, <1>6, <1>7, <1>9, <1>10, <1>11, QuietStep

LEMMA DiscoverStep ==
    ASSUME InstallerInv, NEW i \in Installs, NEW w \in Wiring \cup {Unwired}, Lock(i, "node"),
           Resolved(i, w) # "patch" => w # Unwired, Discover(i, w),
           UNCHANGED <<disk, kubelet, chart, budget>>
    PROVE  InstallerInv'
  <1> DEFINE t == LockPatchConfigs(i, w)
             u == <<"lockOwn", "plan">> \o WriteFiles \o Restart \o <<"end">>
             m == chart.values[i].mode = "auto" /\ w \notin {Unwired, ownWiring(i)}
             q == [pass[i] EXCEPT !.mode = "patch", !.cur = w, !.own = ownWiring(i),
                                  !.moving = m, !.todo = t]
             r == [pass[i] EXCEPT !.mode = "merge", !.cur = w, !.own = w, !.todo = u]
             apart == w # Unwired /\ w.config # ownWiring(i).config
  <1>1. IF apart THEN t = <<"lockCurrent">> \o <<"lockOwn", "check">>
                 ELSE t = <<>> \o <<"lockOwn", "check">>
    BY Zenon DEF LockPatchConfigs
  <1>2. /\ Quiet(t) /\ Ordered(t, "lockOwn", NeedLock)
        /\ apart => Ordered(t, "lockCurrent", NeedLock)
        /\ Good(u, "merge") /\ Ordered(u, "lockOwn", NeedLock)
    BY Zenon, <1>1, LockSequences, PassSequences
  <1>3. /\ pass \in [Installs -> Pass] /\ pass[i] \in Pass
        /\ ownWiring(i) \in Wiring /\ ownWiring(i) = chart.values[i].wiring
        /\ m \in BOOLEAN /\ t \in Seq(Steps) /\ u \in Seq(Steps)
    BY Zenon, <1>2, Frame DEF Quiet, Good
  <1>4. \/ pass' = [pass EXCEPT ![i] = q]
        \/ pass' = [pass EXCEPT ![i] = r] /\ w # Unwired
    <2>1. CASE Resolved(i, w) = "patch"
      <3>1. pass' = [pass EXCEPT ![i] = q]
        BY Zenon, <1>3, <2>1 DEF Discover
      <3> QED BY Zenon, <3>1
    <2>2. CASE Resolved(i, w) # "patch"
      <3>1. w # Unwired
        BY Zenon, <2>2
      <3>2. pass' = [pass EXCEPT ![i] = r]
        BY Zenon, <1>3, <2>2 DEF Discover
      <3> QED BY Zenon, <3>1, <3>2
    <2> QED BY Zenon, <2>1, <2>2
  <1>5. /\ Mine(i, disk, locks, disk', locks') /\ locks'["node"] = i
        /\ locks' \in [Locks -> Installs \cup {NoOwner}]
    BY Zenon, LockNames, LockKeeps DEF InstallerInv
  <1> HIDE DEF t, u, m
  <1>6. /\ q \in Pass /\ q.own = ownWiring(i) /\ q.cur = w /\ q.todo = t /\ q.mode = "patch"
    BY ZenonT(40), <1>3 DEF Pass
  <1>7. r \in Pass /\ r.own = w /\ r.cur = w /\ r.todo = u /\ r.mode = "merge"
    BY ZenonT(20), <1>3 DEF Pass
  <1> HIDE DEF q, r
  <1>8. CurHeld(locks', i, q) \/ Ordered(t, "lockCurrent", NeedLock)
    BY Zenon, <1>2, <1>6 DEF CurHeld
  <1>9. PassInv(disk', locks', chart.values, i, q)
    BY Zenon, <1>2, <1>3, <1>5, <1>6, <1>8, QuietInv
  <1>10. w # Unwired => PassInv(disk', locks', chart.values, i, r)
    <2>1. CurHeld(locks', i, r) /\ "merge" # "patch"
      BY <1>7 DEF CurHeld
    <2> QED BY Zenon, <1>2, <1>5, <1>7, <2>1, GoodInv
  <1>11. disk' \in Disk /\ kubelet' \in Process /\ chart' \in Charts
         /\ chart'.values = chart.values /\ budget' \in Budgets
    BY Zenon, Frame
  <1>12. CASE pass' = [pass EXCEPT ![i] = q]
    BY Zenon, <1>5, <1>6, <1>9, <1>11, <1>12, StepKeeps
  <1>13. CASE pass' = [pass EXCEPT ![i] = r] /\ w # Unwired
    BY Zenon, <1>5, <1>7, <1>10, <1>11, <1>13, StepKeeps
  <1> QED BY Zenon, <1>4, <1>12, <1>13

LEMMA LockNodeStep ==
    ASSUME InstallerInv, NEW i \in Installs, lockNode(i)
    PROVE  InstallerInv'
  <1>1. /\ budget' \in Budgets /\ kubelet' = kubelet /\ disk' = disk /\ SameFiles(disk', disk)
        /\ budget' = budget
    BY Zenon, Frame DEF lockNode
  <1>2. CASE Ends(i, "error")
    BY Zenon, <1>1, <1>2, EndStep
  <1>3. CASE ~Ends(i, "error")
    <2>1. PICK w : /\ w = (IF /\ chart.values[i].mode = "merge"
                              /\ chart.values[i].override # Unwired
                           THEN chart.values[i].override ELSE kubelet.wiring)
                   /\ Lock(i, "node") /\ UNCHANGED chart
                   /\ Resolved(i, w) # "patch" => w # Unwired
                   /\ Discover(i, w)
      BY Zenon, <1>3 DEF lockNode
    <2>2. w \in Wiring \cup {Unwired}
      BY Zenon, <2>1, Frame DEF Process
    <2> QED BY Zenon, <1>1, <2>1, <2>2, DiscoverStep
  <1> QED BY Zenon, <1>2, <1>3

LEMMA LockConfigStep ==
    ASSUME InstallerInv, NEW i \in Installs, lockConfig(i)
    PROVE  InstallerInv'
  <1> DEFINE h == Head(pass[i].todo)
  <1>1. /\ Running(i) /\ Continue(i, pass[i]) /\ UNCHANGED <<disk, kubelet, chart, budget>>
        /\ SamePlan(pass[i], pass[i]) /\ pass[i] \in Pass /\ TypeOK
        /\ PassInv(disk, locks, chart.values, i, pass[i]) /\ chart.values[i].wiring \in Wiring
    BY Zenon, Frame DEF lockConfig, At, GoOn, InstallerInv
  <1>2. PICK x : /\ Lock(i, x)
                 /\ \/ h = "lockCurrent" /\ x = pass[i].cur.config
                    \/ h = "lockOwn" /\ x = pass[i].own.config
    BY Zenon DEF lockConfig, At
  <1>3. PICK q \in Pass : pass' = [pass EXCEPT ![i] = q] /\ Kept(q, pass[i])
    BY Zenon, <1>1, NextPass
  <1>4. /\ Mine(i, disk, locks, disk, locks') /\ Steady(i, disk, locks, disk, locks')
        /\ x \in Locks => locks'[x] = i
        /\ locks' \in [Locks -> Installs \cup {NoOwner}]
    BY Zenon, <1>1, <1>2, LockKeeps
  <1>5. h # "lockNode" /\ h # "binary" /\ h # "plan" /\ h # "config" /\ h # "env"
        /\ ("lockOwn" # "lockCurrent")
    BY <1>2
  <1>6. q.own = pass[i].own /\ q.cur = pass[i].cur /\ q.own \in Wiring
        /\ q.cur \in Wiring \cup {Unwired}
    <2>1. pass[i].todo # <<>>
      BY Zenon, <1>1 DEF Running
    <2>2. pass[i].own \in Wiring
      BY Zenon, <1>1, <1>5, <2>1, StepLocks
    <2> QED BY Zenon, <1>1, <1>3, <2>2 DEF Kept, Follows, Pass
  <1>7. h = "lockCurrent" => CurHeld(locks', i, q)
    BY Zenon, <1>2, <1>4, <1>5, <1>6, WiringTypes, LockNames DEF CurHeld
  <1>8. h = "lockOwn" => Held(locks', i, q)
    BY Zenon, <1>2, <1>4, <1>5, <1>6, WiringTypes, LockNames DEF Held
  <1>9. /\ HasBinary(disk, i, pass[i]) => HasBinary(disk, i, q)
        /\ Planned(disk, i, pass[i]) => Planned(disk, i, q)
    BY Zenon, <1>3, KeptFacts
  <1>10. Written(disk, locks, i, pass[i]) => Written(disk, locks', i, q)
    <2>1. Written(disk, locks, i, pass[i]) => Written(disk, locks', i, pass[i])
      BY Zenon, <1>4, FactsKept
    <2>2. Written(disk, locks', i, pass[i]) = Written(disk, locks', i, q)
      BY Zenon, <1>3, KeptFacts
    <2> QED BY Zenon, <2>1, <2>2
  <1>11. Wired(disk, pass[i]) => Wired(disk, q)
    BY Zenon, <1>3, KeptFacts
  <1>12. \A y \in Locks : locks[y] = i => locks'[y] = i
    BY Zenon, <1>4 DEF Steady
  <1>13. PassInv(disk, locks', chart.values, i, q)
    <2>1. /\ h = "binary" \/ HasBinary(disk, i, pass[i]) => HasBinary(disk, i, q)
          /\ h = "plan" \/ Planned(disk, i, pass[i]) => Planned(disk, i, q)
          /\ h = "config" \/ (Written(disk, locks, i, pass[i]) /\ h \notin Undo)
                => Written(disk, locks', i, q)
          /\ h = "env" \/ (Wired(disk, pass[i]) /\ h \notin Undo) => Wired(disk, q)
      BY Zenon, <1>5, <1>9, <1>10, <1>11
    <2>2. pass[i].todo # <<>> /\ Follows(q, pass[i])
      BY Zenon, <1>1, <1>3 DEF Running, Kept
    <2> QED BY Zenon, <1>1, <1>5, <1>7, <1>8, <1>12, <2>1, <2>2, GoesOn
  <1>14. /\ disk' \in Disk /\ kubelet' \in Process /\ chart' \in Charts
         /\ chart'.values = chart.values /\ budget' \in Budgets
         /\ Mine(i, disk, locks, disk', locks') /\ PassInv(disk', locks', chart.values, i, q)
    BY Zenon, <1>1, <1>4, <1>13, Frame
  <1> QED BY Zenon, <1>3, <1>4, <1>14, StepKeeps

LEMMA LockTimeoutStep ==
    ASSUME InstallerInv, NEW i \in Installs, lockTimeout(i)
    PROVE  InstallerInv'
  <1>1. Ends(i, "error") /\ budget' \in Budgets /\ disk' = disk /\ kubelet' = kubelet
    BY Zenon, FaultFacts DEF lockTimeout, InstallerInv
  <1> QED BY Zenon, <1>1, Frame, EndStep

LEMMA CheckStep ==
    ASSUME InstallerInv, NEW i \in Installs, check(i)
    PROVE  InstallerInv'
  <1> DEFINE t == PatchSteps \o <<"end">>
             u == PatchSteps \o <<"stage", "end">>
             q == [pass[i] EXCEPT !.todo = t]
             r == [pass[i] EXCEPT !.own = pass[i].cur, !.todo = u]
             p == pass[i]
  <1>1. /\ budget' \in Budgets /\ kubelet' = kubelet /\ disk' = disk /\ SameFiles(disk', disk)
        /\ Running(i) /\ Head(p.todo) = "check" /\ p \in Pass
        /\ pass \in [Installs -> Pass] /\ PassInv(disk, locks, chart.values, i, p)
    BY Zenon, Frame DEF check, At
  <1>2. Good(t, "patch") /\ Good(u, "patch") /\ t \in Seq(Steps) /\ u \in Seq(Steps)
    BY Zenon, PassSequences DEF Good
  <1>3. /\ p.mode = "patch" /\ Held(locks, i, p) /\ CurHeld(locks, i, p) /\ p.own \in Wiring
        /\ locks[chart.values[i].wiring.config] = i /\ locks["node"] = i
        /\ p.cur \in Wiring \cup {Unwired}
    <2>1. "check" \in NeedLock /\ "check" # "lockNode" /\ "patch" # "none"
      BY DEF NeedLock
    <2>2. p.todo # <<>>
      BY Zenon, <1>1 DEF Running
    <2>3. Held(locks, i, p) /\ CurHeld(locks, i, p) /\ p.own \in Wiring
      BY Zenon, <1>1, <2>1, <2>2, StepLocks
    <2>4. Patches(chart.values, i, p)
      BY Zenon, <1>1, <2>2, StepPlace
    <2> QED BY Zenon, <1>1, <2>1, <2>3, <2>4 DEF PassInv, Held, Pass, Patches
  <1>4. CASE Ends(i, "error")
    BY Zenon, <1>1, <1>4, EndStep
  <1>5. CASE pass' = [pass EXCEPT ![i].todo = t] /\ UNCHANGED <<locks, chart>>
    <2>1. pass' = [pass EXCEPT ![i] = q]
      BY Zenon, <1>1, <1>5
    <2> HIDE DEF t
    <2>2. q \in Pass /\ q.todo = t /\ q.own = p.own /\ q.cur = p.cur /\ q.mode = p.mode
      BY ZenonT(20), <1>1, <1>2 DEF Pass
    <2> HIDE DEF q
    <2>3. Held(locks, i, q) /\ CurHeld(locks, i, q)
      BY Zenon, <1>3, <2>2 DEF Held, CurHeld
    <2>4. PassInv(disk, locks, chart.values, i, q)
      BY Zenon, <1>2, <1>3, <2>2, <2>3, GoodInv
    <2> QED BY Zenon, <1>1, <1>5, <2>1, <2>2, <2>4, QuietStep
  <1>6. CASE /\ pass' = [pass EXCEPT ![i].own = pass[i].cur, ![i].todo = u]
             /\ UNCHANGED <<locks, chart>> /\ blockingInstalls(i, pass[i].cur) # {}
    <2>1. pass' = [pass EXCEPT ![i] = r]
      BY ZenonT(20), <1>1, <1>6
    <2>2. p.cur \in Wiring
      BY Zenon, <1>3, <1>6 DEF blockingInstalls
    <2>3. p.cur # Unwired
      BY Zenon, <1>6 DEF blockingInstalls
    <2> HIDE DEF u
    <2>4. r \in Pass /\ r.todo = u /\ r.own = p.cur /\ r.cur = p.cur /\ r.mode = p.mode
      BY ZenonT(20), <1>1, <1>2 DEF Pass
    <2> HIDE DEF r
    <2>5. Held(locks, i, r) /\ CurHeld(locks, i, r)
      BY Zenon, <1>3, <2>2, <2>3, <2>4 DEF Held, CurHeld
    <2>6. PassInv(disk, locks, chart.values, i, r)
      BY Zenon, <1>2, <1>3, <2>2, <2>4, <2>5, GoodInv
    <2> QED BY Zenon, <1>1, <1>6, <2>1, <2>4, <2>6, QuietStep
  <1> QED BY Zenon, <1>4, <1>5, <1>6 DEF check

LEMMA StageStep ==
    ASSUME InstallerInv, NEW i \in Installs, stageOwnFiles(i)
    PROVE  InstallerInv'
  <1> DEFINE old == pass[i].own
             new == ownWiring(i)
             newBin == new.bin # old.bin
             newConfig == new.config # old.config
             t == (IF newBin THEN <<"begin", "binary">> ELSE <<>>)
                     \o (IF newConfig THEN <<"plan", "config">> ELSE <<>>)
                     \o (IF newBin THEN <<"commit">> ELSE <<>>) \o <<"end">>
             q == [Idle EXCEPT !.own = new, !.claim = new.config, !.todo = t]
  <1>1. /\ Running(i) /\ Head(pass[i].todo) = "stage" /\ pass[i] \in Pass
        /\ PassInv(disk, locks, chart.values, i, pass[i])
        /\ new \in Wiring /\ new = chart.values[i].wiring /\ new.config \in Configs
    BY Zenon, Frame, WiringTypes DEF stageOwnFiles, At
  <1>2. HasBinary(disk, i, pass[i]) /\ locks[new.config] = i
    <2>1. "stage" \in NeedBinary
      BY DEF NeedBinary
    <2>2. pass[i].todo # <<>>
      BY Zenon, <1>1 DEF Running
    <2>3. HasBinary(disk, i, pass[i])
      BY Zenon, <1>1, <2>1, <2>2, StepNeeds
    <2>4. OwnHeld(locks, chart.values, i)
      BY Zenon, <1>1, <2>2, StepPlace
    <2> QED BY Zenon, <1>1, <2>3, <2>4 DEF OwnHeld
  <1>3. /\ t \in Seq(Steps) /\ Shape(t, "none") /\ ~Has(t, "check") /\ ~Has(t, "stage")
        /\ Ordered(t, "plan", NeedPlan) /\ Ordered(t, "config", NeedFiles)
        /\ newBin => Ordered(t, "binary", NeedBinary)
    <2>1. newBin \in BOOLEAN /\ newConfig \in BOOLEAN
      BY Zenon
    <2>2. t = (IF newBin THEN <<"begin", "binary">> ELSE <<>>)
                     \o (IF newConfig THEN <<"plan", "config">> ELSE <<>>)
                     \o (IF newBin THEN <<"commit">> ELSE <<>>) \o <<"end">>
      BY Zenon
    <2> HIDE DEF newBin, newConfig, t
    <2> QED BY Zenon, <2>1, <2>2, StageSequence
  <1>4. pass' = [pass EXCEPT ![i] = q] /\ UNCHANGED <<disk, kubelet, locks, chart, budget>>
    BY Zenon DEF stageOwnFiles
  <1> HIDE DEF t
  <1>5. /\ q \in Pass /\ q.own = new /\ q.cur = Unwired /\ q.todo = t /\ q.mode = "none"
    <2>1. Idle \in Pass /\ Idle.cur = Unwired /\ Idle.mode = "none"
      BY Zenon, IdleFacts
    <2> QED BY ZenonT(40), <1>1, <1>3, <2>1 DEF Pass
  <1> HIDE DEF q
  <1>6. Held(locks, i, q) /\ CurHeld(locks, i, q) /\ Wired(disk, q)
    <2>1. "none" # "patch"
      OBVIOUS
    <2> QED BY Zenon, <1>1, <1>2, <1>5, <2>1 DEF Held, CurHeld, Wired
  <1>7. HasBinary(disk, i, q) \/ Ordered(t, "binary", NeedBinary)
    BY Zenon, <1>1, <1>2, <1>3, <1>5 DEF HasBinary
  <1>8. PassInv(disk, locks, chart.values, i, q)
    BY Zenon, <1>1, <1>3, <1>5, <1>6, <1>7 DEF PassInv
  <1> QED BY Zenon, <1>4, <1>5, <1>8, Frame, QuietStep

(***************************************************************************)
(* The plan.                                                               *)
(***************************************************************************)
LEMMA EntryFacts ==
    ASSUME TypeOK, NEW i \in Installs
    PROVE  EntryOf(i) \in Entry /\ EntryOf(i) # NoEntry
  <1>1. chart.values[i] \in Chart
    BY Zenon DEF TypeOK, Charts
  <1>2. chart.values[i].ver \in Versions /\ chart.values[i].wiring.config \in Configs
    BY Zenon, <1>1, WiringTypes DEF Chart
  <1>3. EntryOf(i) \in Entry
    BY <1>2 DEF EntryOf, ownWiring, Entry
  <1> QED BY Zenon, <1>3, InstallerAssumption

\* The entry of i is in the file, and every other one has its binary.
Completes(file, i, b) ==
    /\ file \in Content /\ file[i] # NoEntry
    /\ \A n \in Names \ {i} : file[n] # NoEntry => n \in disk.binaries[b]

LEMMA ChartOwnedFile ==
    ASSUME TypeOK, NEW i \in Installs, NEW w \in Wiring
    PROVE  Completes(chartOwnedConfigIn(i, w), i, w.bin)
  <1> DEFINE file == disk.config[w.config]
             kept == chartOwnedConfigIn(i, w)
             e == EntryOf(i)
  <1>1. e \in Entry /\ e # NoEntry /\ i \in Names
    BY Zenon, EntryFacts DEF Names
  <1>2. file \in Content \cup {NoFile}
    BY Zenon, WiringTypes DEF TypeOK, Disk
  <1>3. CASE file = NoFile
    <2>1. kept = [n \in Names |-> IF n = i THEN e ELSE NoEntry]
      BY Zenon, <1>3 DEF chartOwnedConfigIn, rendered
    <2> HIDE DEF kept, e
    <2>2. kept \in [Names -> Entry \cup {Cloud, NoEntry}] /\ kept[i] = e
      BY Zenon, <1>1, <2>1
    <2>3. \A n \in Names \ {i} : kept[n] = NoEntry
      BY Zenon, <2>1
    <2> QED BY Zenon, <1>1, <2>2, <2>3 DEF Completes, Content, kept
  <1>4. CASE file # NoFile
    <2>1. kept = [n \in Names |-> IF n = i THEN e
                                  ELSE IF siblingIn(w.bin, i, file, n) THEN file[n] ELSE NoEntry]
      BY Zenon, <1>4 DEF chartOwnedConfigIn
    <2>2. \A n \in Names : siblingIn(w.bin, i, file, n) => n \in disk.binaries[w.bin]
      BY Zenon DEF siblingIn
    <2>3. file \in [Names -> Entry \cup {Cloud, NoEntry}]
      BY Zenon, <1>2, <1>4 DEF Content
    <2> HIDE DEF kept, e, file
    <2>4. kept \in [Names -> Entry \cup {Cloud, NoEntry}] /\ kept[i] = e
      BY Zenon, <1>1, <2>1, <2>3
    <2>5. \A n \in Names \ {i} : kept[n] # NoEntry => n \in disk.binaries[w.bin]
      BY Zenon, <2>1, <2>2
    <2> QED BY Zenon, <1>1, <2>4, <2>5 DEF Completes, Content, kept
  <1> QED BY Zenon, <1>3, <1>4

LEMMA MergedFile ==
    ASSUME TypeOK, NEW i \in Installs, NEW w \in Wiring, disk.config[w.config] # NoFile,
           checkKubeletCanStart(i, w)
    PROVE  Completes(mergeProvider(i, w), i, w.bin)
  <1> DEFINE file == disk.config[w.config]
             e == EntryOf(i)
  <1>1. e \in Entry /\ e # NoEntry /\ i \in Names
    BY Zenon, EntryFacts DEF Names
  <1>2. file \in [Names -> Entry \cup {Cloud, NoEntry}]
    BY Zenon, WiringTypes DEF TypeOK, Disk, Content
  <1>3. \A n \in Names \ {i} : file[n] # NoEntry => n \in disk.binaries[w.bin]
    BY Zenon DEF checkKubeletCanStart
  <1>4. mergeProvider(i, w) = [file EXCEPT ![i] = e]
    BY Zenon DEF mergeProvider
  <1> HIDE DEF file, e
  <1> QED BY Zenon, <1>1, <1>2, <1>3, <1>4 DEF Completes, Content

LEMMA TargetFacts ==
    ASSUME TypeOK, NEW i \in Installs, pass[i].own \in Wiring,
           pass[i].mode = "merge" => Mergeable(i)
    PROVE  /\ TargetOf(i) \in Target
           /\ pass[i].mode = "patch" => EndsIn(TargetOf(i).env, pass[i].own)
           /\ Completes(TargetOf(i).file, i, pass[i].own.bin)
  <1> DEFINE w == pass[i].own
             m == pass[i].mode
             e == IF m = "patch" THEN mergeExtraArgs(disk.env, w) ELSE <<>>
             f == IF ChartOwned(i) THEN chartOwnedConfigIn(i, w) ELSE mergeProvider(i, w)
  <1>1. Completes(f, i, w.bin)
    BY Zenon, ChartOwnedFile, MergedFile DEF ChartOwned, Mergeable
  <1>2. <<>> \in Seq(Arg)
    OBVIOUS
  <1>3. disk.env \in Seq(Arg)
    BY Zenon DEF TypeOK, Disk
  <1>4. e \in Seq(Arg) /\ (m = "patch" => EndsIn(e, w)) /\ f \in Content
    BY Zenon, <1>1, <1>2, <1>3, MergeFacts DEF Completes
  <1>5. m \in {"patch", "merge", "none"} /\ EntryOf(i) \in Entry
    BY Zenon, EntryFacts DEF TypeOK, Pass
  <1>6. TargetOf(i) = [mode |-> m, wiring |-> w, entry |-> EntryOf(i), env |-> e, file |-> f]
    BY Zenon DEF TargetOf
  <1> HIDE DEF e, f
  <1>7. TargetOf(i) \in Target /\ TargetOf(i).env = e /\ TargetOf(i).file = f
    BY SMTT(20), <1>4, <1>5, <1>6 DEF Target
  <1> QED BY Zenon, <1>1, <1>4, <1>7

LEMMA PlanStep ==
    ASSUME InstallerInv, NEW i \in Installs, plan(i)
    PROVE  InstallerInv'
  <1> DEFINE c == IF ChartOwned(i) THEN pass[i].own.config ELSE NoFile
             f == disk.config[pass[i].own.config]
             p == [pass[i] EXCEPT !.prior = f, !.priorEnv = disk.env, !.target = TargetOf(i),
                                  !.claim = c]
             q == [p EXCEPT !.todo = Tail(@)]
             h == Head(pass[i].todo)
  <1>1. /\ Running(i) /\ h = "plan" /\ pass[i] \in Pass /\ chart.values[i].wiring \in Wiring
        /\ PassInv(disk, locks, chart.values, i, pass[i]) /\ disk \in Disk /\ SameFiles(disk, disk)
        /\ UNCHANGED <<disk, kubelet, budget>> /\ budget' \in Budgets /\ TypeOK
    BY Zenon, Frame DEF plan, At, InstallerInv
  <1>2. CASE Ends(i, "error")
    BY Zenon, <1>1, <1>2, EndStep
  <1>3. CASE /\ pass[i].mode = "merge" => Mergeable(i)
             /\ Continue(i, p) /\ UNCHANGED <<locks, chart>>
    <2>1. /\ h # "lockNode" /\ h # "binary" /\ h # "lockCurrent" /\ h # "lockOwn"
          /\ h # "config" /\ h # "env" /\ h \in Undo
      BY <1>1 DEF Undo
    <2>2. pass[i].todo # <<>>
      BY Zenon, <1>1 DEF Running
    <2>3. pass[i].own \in Wiring
      BY Zenon, <1>1, <2>1, <2>2, StepLocks
    <2>4. /\ TargetOf(i) \in Target
          /\ pass[i].mode = "patch" => EndsIn(TargetOf(i).env, pass[i].own)
          /\ Completes(TargetOf(i).file, i, pass[i].own.bin)
      BY Zenon, <1>1, <1>3, <2>3, TargetFacts
    <2>5. /\ c \in Configs \cup {NoFile} /\ f \in Content \cup {NoFile} /\ disk.env \in Seq(Arg)
      BY Zenon, <1>1, <2>3, WiringTypes DEF Disk
    <2>6. pass' = [pass EXCEPT ![i] = q]
      BY Zenon, <1>3 DEF Continue
    <2> HIDE DEF c, f
    <2>7. /\ p \in Pass /\ p.todo = pass[i].todo /\ p.own = pass[i].own /\ p.cur = pass[i].cur
          /\ p.mode = pass[i].mode /\ p.target = TargetOf(i)
      BY ZenonT(40), <1>1, <2>4, <2>5 DEF Pass
    <2> HIDE DEF p
    <2>8. q \in Pass /\ Kept(q, p)
      BY Zenon, <2>2, <2>7, TailPass
    <2> HIDE DEF q, h
    <2>9. Follows(q, pass[i]) /\ q.target = TargetOf(i)
      BY Zenon, <2>7, <2>8 DEF Kept, Follows
    <2>10. Planned(disk, i, q)
      BY Zenon, <2>3, <2>4, <2>9 DEF Planned, Follows, Completes
    <2>11. HasBinary(disk, i, pass[i]) => HasBinary(disk, i, q)
      BY Zenon, <2>9 DEF HasBinary, Follows
    <2>12. PassInv(disk, locks, chart.values, i, q)
      <3>1. /\ h = "binary" \/ HasBinary(disk, i, pass[i]) => HasBinary(disk, i, q)
            /\ h = "plan" \/ Planned(disk, i, pass[i]) => Planned(disk, i, q)
            /\ h = "config" \/ (Written(disk, locks, i, pass[i]) /\ h \notin Undo)
                  => Written(disk, locks, i, q)
            /\ h = "env" \/ (Wired(disk, pass[i]) /\ h \notin Undo) => Wired(disk, q)
        BY Zenon, <2>1, <2>10, <2>11
      <3> QED BY Zenon, <1>1, <2>1, <2>2, <2>9, <3>1, GoesOn DEF h
    <2> QED BY Zenon, <1>1, <1>3, <2>6, <2>8, <2>12, QuietStep
  <1> QED BY Zenon, <1>2, <1>3 DEF plan

(***************************************************************************)
(* The files.                                                              *)
(***************************************************************************)
LEMMA RecordStep ==
    ASSUME InstallerInv, NEW i \in Installs, Running(i), NEW p, SamePlan(p, pass[i]),
           Continue(i, p), Head(pass[i].todo) \notin Others, NEW r \in Record \cup {NoRecord},
           disk' = [disk EXCEPT !.record[pass[i].own.bin][i] = r],
           UNCHANGED <<kubelet, locks, chart, budget>>
    PROVE  InstallerInv'
  <1>1. Head(pass[i].todo) # "lockNode" /\ pass[i].todo # <<>>
    BY Zenon DEF Others, Running
  <1>2. pass[i].own \in Wiring
    BY Zenon, <1>1, Frame, StepLocks
  <1>3. SameFiles(disk', disk)
    BY Zenon, <1>2, Frame, WiringTypes, RecordWritten
  <1>4. Mine(i, disk, locks, disk', locks') /\ disk' \in Disk
    BY Zenon, <1>3, SameKeeps DEF SameFiles
  <1> QED BY Zenon, <1>3, <1>4, Frame, GoOnStep

LEMMA BeginStep ==
    ASSUME InstallerInv, NEW i \in Installs, beginRecord(i)
    PROVE  InstallerInv'
  <1> DEFINE b == pass[i].own.bin
             held == disk.record[b][i]
             s == {EntryOf(i)} \cup (IF held = NoRecord THEN {} ELSE held.entries)
             r == [entries |-> s, claim |-> pass[i].claim]
  <1>1. /\ Running(i) /\ Head(pass[i].todo) = "begin" /\ pass[i] \in Pass /\ disk \in Disk
        /\ PassInv(disk, locks, chart.values, i, pass[i]) /\ EntryOf(i) \in Entry
        /\ pass[i].todo # <<>>
    BY Zenon, Frame, EntryFacts DEF beginRecord, At, InstallerInv, Running
  <1>2. Head(pass[i].todo) # "lockNode" /\ Head(pass[i].todo) \notin Others
    BY <1>1 DEF Others
  <1>3. b \in BinDirs
    BY Zenon, <1>1, <1>2, StepLocks, WiringTypes
  <1>4. held \in Record \cup {NoRecord} /\ pass[i].claim \in Configs \cup {NoFile}
    <2>1. disk.record \in [BinDirs -> [Installs -> Record \cup {NoRecord}]]
      BY Zenon, <1>1 DEF Disk
    <2>2. held \in Record \cup {NoRecord}
      BY Zenon, <1>3, <2>1
    <2>3. pass[i].claim \in Configs \cup {NoFile}
      BY Zenon, <1>1 DEF Pass
    <2> QED BY Zenon, <2>2, <2>3
  <1>5. s \in SUBSET Entry
    BY Zenon, <1>1, <1>4 DEF Record
  <1>6. /\ disk' = [disk EXCEPT !.record[b][i] = r]
        /\ Continue(i, [pass[i] EXCEPT !.begun = r])
        /\ UNCHANGED <<kubelet, locks, chart, budget>>
    BY Zenon DEF beginRecord
  <1> HIDE DEF s
  <1>7. r \in Record
    BY Zenon, <1>4, <1>5 DEF Record
  <1> HIDE DEF r
  <1>8. SamePlan([pass[i] EXCEPT !.begun = r], pass[i]) /\ r \in Record \cup {NoRecord}
    BY Zenon, <1>1, <1>7, SamePlans
  <1> QED BY Zenon, <1>1, <1>2, <1>6, <1>8, RecordStep

LEMMA CommitStep ==
    ASSUME InstallerInv, NEW i \in Installs, commitRecord(i)
    PROVE  InstallerInv'
  <1> DEFINE r == [entries |-> {EntryOf(i)}, claim |-> pass[i].claim]
  <1>1. /\ Running(i) /\ Head(pass[i].todo) = "commit" /\ EntryOf(i) \in Entry
        /\ SamePlan(pass[i], pass[i]) /\ pass[i].claim \in Configs \cup {NoFile}
    BY ZenonT(30), Frame, EntryFacts DEF commitRecord, At, InstallerInv, Pass
  <1>2. r \in Record /\ Head(pass[i].todo) \notin Others
    BY <1>1 DEF Record, Others
  <1>3. /\ disk' = [disk EXCEPT !.record[pass[i].own.bin][i] = r] /\ Continue(i, pass[i])
        /\ UNCHANGED <<kubelet, locks, chart, budget>>
    BY Zenon DEF commitRecord, GoOn
  <1> HIDE DEF r
  <1>4. r \in Record \cup {NoRecord}
    BY Zenon, <1>2
  <1> QED BY Zenon, <1>1, <1>2, <1>3, <1>4, RecordStep

\* What a step that writes a file has to show.
LEMMA FileStep ==
    ASSUME InstallerInv, NEW i \in Installs, NEW p, Running(i), SamePlan(p, pass[i]),
           Continue(i, p), NEW h \in {"binary", "config", "env"}, Head(pass[i].todo) = h,
           Mine(i, disk, locks, disk', locks'), disk' \in Disk,
           UNCHANGED <<kubelet, locks, chart, budget>>,
           h = "binary" \/ HasBinary(disk, i, pass[i]) => HasBinary(disk', i, pass[i]),
           Planned(disk, i, pass[i]) => Planned(disk', i, pass[i]),
           h = "config" \/ Written(disk, locks, i, pass[i]) => Written(disk', locks, i, pass[i]),
           h = "env" \/ Wired(disk, pass[i]) => Wired(disk', pass[i])
    PROVE  InstallerInv'
  <1>1. PICK q \in Pass : pass' = [pass EXCEPT ![i] = q] /\ Kept(q, pass[i])
    BY Zenon, NextPass
  <1>2. /\ pass[i] \in Pass /\ PassInv(disk, locks, chart.values, i, pass[i])
        /\ chart.values[i].wiring \in Wiring /\ pass[i].todo # <<>> /\ Follows(q, pass[i])
    BY Zenon, <1>1, Frame DEF Running, Kept
  <1>3. h # "lockNode" /\ h # "lockCurrent" /\ h # "lockOwn" /\ h # "plan"
    OBVIOUS
  <1>4. /\ HasBinary(disk', i, pass[i]) = HasBinary(disk', i, q)
        /\ Planned(disk', i, pass[i]) = Planned(disk', i, q)
        /\ Written(disk', locks, i, pass[i]) = Written(disk', locks, i, q)
        /\ Wired(disk', pass[i]) = Wired(disk', q)
    BY Zenon, <1>1, KeptFacts
  <1>5. /\ h = "binary" \/ HasBinary(disk, i, pass[i]) => HasBinary(disk', i, q)
        /\ h = "plan" \/ Planned(disk, i, pass[i]) => Planned(disk', i, q)
        /\ h = "config" \/ (Written(disk, locks, i, pass[i]) /\ h \notin Undo)
              => Written(disk', locks, i, q)
        /\ h = "env" \/ (Wired(disk, pass[i]) /\ h \notin Undo) => Wired(disk', q)
    BY Zenon, <1>3, <1>4
  <1>6. \A x \in Locks : locks[x] = i => locks[x] = i
    OBVIOUS
  <1>7. PassInv(disk', locks, chart.values, i, q)
    BY Zenon, <1>2, <1>3, <1>5, <1>6, GoesOn
  <1> QED BY Zenon, <1>1, <1>7, Frame, StepKeeps

LEMMA BinaryStep ==
    ASSUME InstallerInv, NEW i \in Installs, installPluginBinary(i)
    PROVE  InstallerInv'
  <1>1. /\ Running(i) /\ Head(pass[i].todo) = "binary" /\ pass[i] \in Pass /\ disk \in Disk
        /\ PassInv(disk, locks, chart.values, i, pass[i]) /\ SamePlan(pass[i], pass[i])
        /\ disk' = [disk EXCEPT !.binaries[pass[i].own.bin] = @ \cup {i}]
        /\ Continue(i, pass[i]) /\ UNCHANGED <<kubelet, locks, chart, budget>>
        /\ pass[i].todo # <<>>
    BY Zenon, Frame DEF installPluginBinary, At, GoOn, Running
  <1>2. "binary" # "lockNode" /\ "binary" # "config" /\ "binary" # "env"
    OBVIOUS
  <1>3. pass[i].own \in Wiring /\ pass[i].own.bin \in BinDirs
    BY Zenon, <1>1, <1>2, StepLocks, WiringTypes
  <1>4. WroteBinary(disk', disk, pass[i].own.bin, i)
    BY Zenon, <1>1, <1>3, BinaryWritten
  <1>5. /\ Mine(i, disk, locks, disk', locks) /\ Steady(i, disk, locks, disk', locks)
        /\ i \in disk'.binaries[pass[i].own.bin]
    BY Zenon, <1>1, <1>3, <1>4, BinaryKeeps
  <1>6. /\ Planned(disk, i, pass[i]) => Planned(disk', i, pass[i])
        /\ Written(disk, locks, i, pass[i]) => Written(disk', locks, i, pass[i])
    BY Zenon, <1>5, FactsKept
  <1>7. HasBinary(disk', i, pass[i])
    BY Zenon, <1>3, <1>5 DEF HasBinary
  <1>8. Wired(disk, pass[i]) => Wired(disk', pass[i])
    BY Zenon, <1>4 DEF Wired, WroteBinary
  <1>9. disk' \in Disk /\ "binary" \in {"binary", "config", "env"}
    BY Zenon, <1>4 DEF WroteBinary
  <1> QED BY Zenon, <1>1, <1>2, <1>5, <1>6, <1>7, <1>8, <1>9, FileStep

LEMMA ConfigStep ==
    ASSUME InstallerInv, NEW i \in Installs, writeConfig(i)
    PROVE  InstallerInv'
  <1> DEFINE w == pass[i].own
             f == pass[i].target.file
             b == pass[i].changed \/ disk.config[w.config] # f
             p == [pass[i] EXCEPT !.changed = b]
  <1>1. /\ Running(i) /\ Head(pass[i].todo) = "config" /\ pass[i] \in Pass /\ disk \in Disk
        /\ PassInv(disk, locks, chart.values, i, pass[i])
        /\ disk' = [disk EXCEPT !.config[w.config] = f] /\ Continue(i, p)
        /\ UNCHANGED <<kubelet, locks, chart, budget>> /\ pass[i].todo # <<>>
    BY Zenon, Frame DEF writeConfig, At, Running
  <1>2. "config" \in NeedPlan /\ "config" \in NeedLock /\ "config" # "binary" /\ "config" # "env"
    BY DEF NeedPlan, NeedLock
  <1>3. Planned(disk, i, pass[i])
    BY Zenon, <1>1, <1>2, StepNeeds
  <1>4. Held(locks, i, pass[i])
    BY Zenon, <1>1, <1>2, StepLocks
  <1>5. w \in Wiring /\ w.config \in Configs /\ f \in Content \cup {NoFile} /\ locks[w.config] = i
    BY Zenon, <1>3, <1>4, WiringTypes DEF Planned, Held, Target
  <1>6. WroteConfig(disk', disk, w.config, f)
    BY Zenon, <1>1, <1>5, ConfigWritten
  <1>7. Mine(i, disk, locks, disk', locks) /\ disk'.config[w.config] = f /\ disk' \in Disk
    <2>1. disk \in Disk /\ disk.config \in [Configs -> Content \cup {NoFile}]
      BY Zenon, <1>1 DEF Disk
    <2> HIDE DEF f, w
    <2>2. Mine(i, disk, locks, disk', locks)
      BY Zenon, <1>5, <1>6, <2>1, ConfigKeeps
    <2> QED BY Zenon, <1>5, <1>6, <2>1, <2>2 DEF WroteConfig
  <1>8. /\ HasBinary(disk, i, pass[i]) => HasBinary(disk', i, pass[i])
        /\ Planned(disk', i, pass[i]) /\ (Wired(disk, pass[i]) => Wired(disk', pass[i]))
    BY Zenon, <1>3, <1>6 DEF HasBinary, Planned, Wired, WroteConfig
  <1>9. Written(disk', locks, i, pass[i])
    BY Zenon, <1>4, <1>7, <1>8 DEF Written
  <1>10. b \in BOOLEAN
    BY Zenon, <1>1 DEF Pass
  <1> HIDE DEF b
  <1>11. SamePlan(p, pass[i]) /\ "config" \in {"binary", "config", "env"}
    BY Zenon, <1>1, <1>10, SamePlans
  <1> HIDE DEF p
  <1> QED BY Zenon, <1>1, <1>2, <1>7, <1>8, <1>9, <1>11, FileStep

LEMMA EnvStep ==
    ASSUME InstallerInv, NEW i \in Installs, writeEnv(i)
    PROVE  InstallerInv'
  <1> DEFINE e == pass[i].target.env
             b == pass[i].changed \/ disk.env # e
             p == [pass[i] EXCEPT !.changed = b]
  <1>1. /\ Running(i) /\ Head(pass[i].todo) = "env" /\ pass[i] \in Pass /\ disk \in Disk
        /\ PassInv(disk, locks, chart.values, i, pass[i])
        /\ disk' = [disk EXCEPT !.env = e] /\ Continue(i, p)
        /\ UNCHANGED <<kubelet, locks, chart, budget>> /\ pass[i].todo # <<>>
    BY Zenon, Frame DEF writeEnv, At, Running
  <1>2. "env" \in NeedPlan /\ "env" \in EnvSteps /\ "env" # "binary" /\ "env" # "config"
    BY DEF NeedPlan, EnvSteps
  <1>3. Planned(disk, i, pass[i])
    BY Zenon, <1>1, <1>2, StepNeeds
  <1>4. NodeHeld(locks, i, pass[i])
    BY Zenon, <1>1, <1>2, StepPlace
  <1>5. e \in Seq(Arg)
    BY Zenon, <1>3 DEF Planned, Target
  <1>6. WroteEnv(disk', disk, e)
    BY Zenon, <1>1, <1>5, EnvWritten
  <1>7. Mine(i, disk, locks, disk', locks) /\ disk' \in Disk
    BY Zenon, <1>4, <1>6, EnvKeeps DEF NodeHeld, WroteEnv
  <1>8. /\ HasBinary(disk, i, pass[i]) => HasBinary(disk', i, pass[i])
        /\ Planned(disk, i, pass[i]) => Planned(disk', i, pass[i])
        /\ Wired(disk', pass[i])
    BY Zenon, <1>6 DEF HasBinary, Planned, Wired, WroteEnv
  <1>9. Written(disk, locks, i, pass[i]) => Written(disk', locks, i, pass[i])
    BY Zenon, <1>6, <1>8 DEF Written, WroteEnv
  <1>10. b \in BOOLEAN
    BY Zenon, <1>1 DEF Pass
  <1> HIDE DEF b
  <1>11. SamePlan(p, pass[i]) /\ "env" \in {"binary", "config", "env"}
    BY Zenon, <1>1, <1>10, SamePlans
  <1> HIDE DEF p
  <1> QED BY Zenon, <1>1, <1>2, <1>7, <1>8, <1>9, <1>11, FileStep

(***************************************************************************)
(* The restart, its verification and the rollback.                         *)
(***************************************************************************)
\* Steps that fit a pass that has done everything: they check and stage only if the
\* pass was to.
LEMMA DoneInv ==
    ASSUME NEW d, NEW l, NEW v, NEW i, NEW p, PassInv(d, l, v, i, p), NEW q,
           q.own = p.own, q.cur = p.cur, q.mode = p.mode, q.target = p.target,
           Held(l, i, p), CurHeld(l, i, p), HasBinary(d, i, p), Planned(d, i, p),
           Written(d, l, i, p), Wired(d, p),
           Shape(q.todo, p.mode), Has(q.todo, "check") => Has(p.todo, "check"),
           Has(q.todo, "stage") => Has(p.todo, "stage")
    PROVE  PassInv(d, l, v, i, q)
  <1>1. q.own \in Wiring /\ Held(l, i, q) /\ CurHeld(l, i, q)
    BY Zenon DEF Held, CurHeld
  <1>2. HasBinary(d, i, q) /\ Planned(d, i, q)
    BY Zenon DEF HasBinary, Planned
  <1>3. Written(d, l, i, q) /\ Wired(d, q)
    BY Zenon, <1>1, <1>2 DEF Written, Wired
  <1>4. (q.mode # "none" => l["node"] = i) /\ (Has(q.todo, "stage") => l[v[i].wiring.config] = i)
    BY Zenon DEF PassInv
  <1>5. Shape(q.todo, q.mode) /\ (Has(q.todo, "check") => q.mode = "patch" /\ q.own = v[i].wiring)
    BY Zenon DEF PassInv
  <1> QED BY Zenon, <1>1, <1>2, <1>3, <1>4, <1>5 DEF PassInv

LEMMA Redirected ==
    ASSUME InstallerInv, NEW i \in Installs, Running(i), Head(pass[i].todo) \in NeedEnv,
           NEW t \in Seq(Steps), pass' = [pass EXCEPT ![i].todo = t],
           Shape(t, pass[i].mode), Has(t, "check") => Has(pass[i].todo, "check"),
           Has(t, "stage") => Has(pass[i].todo, "stage"),
           SameFiles(disk', disk), UNCHANGED <<kubelet, locks, chart>>, budget' \in Budgets
    PROVE  InstallerInv'
  <1> DEFINE q == [pass[i] EXCEPT !.todo = t]
             h == Head(pass[i].todo)
  <1>1. /\ pass[i] \in Pass /\ pass \in [Installs -> Pass] /\ pass[i].todo # <<>>
        /\ PassInv(disk, locks, chart.values, i, pass[i])
    BY Zenon, Frame DEF Running
  <1>2. h \in NeedEnv /\ h \in NeedFiles /\ h \in NeedBinary /\ h \in NeedPlan /\ h \in NeedLock
    BY DEF NeedEnv, NeedFiles, NeedBinary, NeedPlan, NeedLock
  <1>3. /\ HasBinary(disk, i, pass[i]) /\ Planned(disk, i, pass[i])
        /\ Written(disk, locks, i, pass[i]) /\ Wired(disk, pass[i])
    BY Zenon, <1>1, <1>2, StepNeeds
  <1>4. Held(locks, i, pass[i]) /\ CurHeld(locks, i, pass[i])
    BY Zenon, <1>1, <1>2, StepLocks
  <1>5. pass' = [pass EXCEPT ![i] = q]
    BY Zenon, <1>1
  <1>6. /\ q \in Pass /\ q.todo = t /\ q.own = pass[i].own /\ q.cur = pass[i].cur
        /\ q.target = pass[i].target /\ q.mode = pass[i].mode
    BY ZenonT(20), <1>1 DEF Pass
  <1> HIDE DEF q
  <1>7. PassInv(disk, locks, chart.values, i, q)
    BY Zenon, <1>1, <1>3, <1>4, <1>6, DoneInv
  <1>8. Mine(i, disk, locks, disk', locks) /\ Steady(i, disk, locks, disk', locks)
    BY Zenon, SameKeeps
  <1>9. PassInv(disk', locks, chart.values, i, q)
    <2>1. chart.values[i].wiring \in Wiring
      BY Zenon, Frame
    <2> QED BY Zenon, <1>6, <1>7, <1>8, <2>1, OthersKeep
  <1>10. disk' \in Disk
    BY Zenon DEF SameFiles
  <1> QED BY Zenon, <1>5, <1>6, <1>8, <1>9, <1>10, Frame, StepKeeps

LEMMA StateTypes ==
    ASSUME NEW t \in Target \cup {NoTarget}
    PROVE  StateOf(t) \in State
  <1>1. <<>> \in Seq(Arg)
    OBVIOUS
  <1>2. /\ t.mode \in {"patch", "merge", "none"} /\ t.wiring \in Wiring \cup {Unwired}
        /\ t.entry \in Entry \cup {NoEntry} /\ t.env \in Seq(Arg)
        /\ t.file \in Content \cup {NoFile}
    <2>1. CASE t \in Target
      BY Zenon, <2>1 DEF Target
    <2>2. CASE t = NoTarget
      BY <1>1, <2>2 DEF NoTarget
    <2> QED BY Zenon, <2>1, <2>2
  <1> QED BY SMTT(20), <1>2 DEF StateOf, State

LEMMA RestartStep ==
    ASSUME InstallerInv, NEW i \in Installs, Running(i), GoOn(i), Head(pass[i].todo) \notin Others,
           kubelet' = Started(kubelet.identity) \/ kubelet' = kubelet,
           SameFiles(disk', disk), UNCHANGED <<locks, chart>>, budget' \in Budgets
    PROVE  InstallerInv'
  <1>1. kubelet' \in Process
    BY Zenon, Frame, StartedFacts
  <1>2. Mine(i, disk, locks, disk', locks') /\ disk' \in Disk
    BY Zenon, SameKeeps DEF SameFiles
  <1>3. Continue(i, pass[i]) /\ SamePlan(pass[i], pass[i])
    BY Zenon, Frame DEF GoOn
  <1> QED BY Zenon, <1>1, <1>2, <1>3, GoOnStep

Part(t, s) == \A k \in DOMAIN t : \E n \in DOMAIN s : t[k] = s[n]

LEMMA Suffix ==
    ASSUME NEW S, NEW s \in Seq(S), NEW m \in Nat \ {0}, NEW t, t = SubSeq(s, m, Len(s))
    PROVE  t \in Seq(S) /\ Part(t, s)
  <1>1. t \in Seq(S) /\ \A k \in DOMAIN t : m + k - 1 \in DOMAIN s /\ t[k] = s[m + k - 1]
    OBVIOUS
  <1> QED BY Zenon, <1>1 DEF Part

\* The rest of a pass after the steps of its restart.
LEMMA SkippedSteps ==
    ASSUME NEW p \in Pass, p.todo # <<>>, Head(p.todo) \in NeedFiles, Shape(p.todo, p.mode),
           NEW t, t = SubSeq(p.todo, 1 + Len(Restart), Len(p.todo))
    PROVE  /\ t \in Seq(Steps) /\ Shape(t, p.mode)
           /\ Has(t, "check") => Has(p.todo, "check")
           /\ Has(t, "stage") => Has(p.todo, "stage")
  <1> DEFINE s == p.todo
  <1>1. s \in Seq(Steps)
    BY Zenon DEF Pass
  <1> DEFINE m == 1 + Len(Restart)
  <1>2. m \in Nat \ {0}
    <2>1. Len(Restart) = 3
      BY DEF Restart
    <2> QED BY <2>1
  <1>3. t = SubSeq(s, m, Len(s))
    BY Zenon
  <1> HIDE DEF s, m
  <1>4. t \in Seq(Steps) /\ Part(t, s)
    BY Zenon, <1>1, <1>2, <1>3, Suffix
  <1>5. (\A x : Has(t, x) => Has(s, x)) /\ (\A Y : Lacks(s, Y) => Lacks(t, Y))
    BY Zenon, <1>4 DEF Part, Has, Lacks
  <1>6. ~Has(s, "plan")
    BY Zenon, <1>1, HeadNeeds DEF Shape, s
  <1>7. PlanFirst(t)
    <2>1. ~Has(t, "plan")
      BY Zenon, <1>5, <1>6
    <2> QED BY Zenon, <2>1 DEF PlanFirst, Has
  <1>8. Shape(t, p.mode)
    BY Zenon, <1>5, <1>6, <1>7 DEF Shape, s
  <1> QED BY Zenon, <1>4, <1>5, <1>8 DEF s

\* The steps that take a pass back write nothing but what it wrote.
LEMMA BackFacts ==
    ASSUME NEW t \in Seq(Steps), NEW m, Lacks(t, NeedFiles \cup {"plan", "check", "stage"}),
           m = "patch" \/ Lacks(t, EnvSteps)
    PROVE  Shape(t, m) /\ ~Has(t, "check") /\ ~Has(t, "stage")
  <1>1. ~Has(t, "plan") /\ ~Has(t, "check") /\ ~Has(t, "stage") /\ Lacks(t, NeedFiles)
    BY Zenon DEF Lacks, Has
  <1>2. PlanFirst(t)
    BY Zenon, <1>1 DEF PlanFirst, Has
  <1> QED BY Zenon, <1>1, <1>2 DEF Shape

\* What a pass does after a restart that failed.
LEMMA RollbackSteps ==
    ASSUME NEW i, NEW t, t \in {Rollback(i) \o <<"fail">>, RejectSteps(i)}
    PROVE  /\ t \in Seq(Steps) /\ Shape(t, pass[i].mode)
           /\ ~Has(t, "check") /\ ~Has(t, "stage")
  <1> DEFINE Y == NeedFiles \cup {"plan", "check", "stage"}
             a == <<"restoreRecord", "restoreConfig">>
             b == IF pass[i].mode = "patch" THEN <<"restoreEnv">> ELSE <<>>
             c == <<"restartBack", "reject">>
             d == <<"fail">>
             e == <<"reject">>
  <1>1. {"restoreRecord", "restoreConfig", "restoreEnv", "restartBack", "reject", "fail"}
          \subseteq Steps \ Y
    BY DEF Steps, NeedFiles
  <1>2. {"restoreRecord", "restoreConfig", "restartBack", "reject", "fail"}
          \subseteq Steps \ EnvSteps
    BY DEF Steps, EnvSteps
  <1> HIDE DEF Y
  <1>3. /\ a \in Seq(Steps) /\ Lacks(a, Y) /\ Lacks(a, EnvSteps)
        /\ c \in Seq(Steps) /\ Lacks(c, Y) /\ Lacks(c, EnvSteps)
        /\ d \in Seq(Steps) /\ Lacks(d, Y) /\ Lacks(d, EnvSteps)
        /\ e \in Seq(Steps) /\ Lacks(e, Y) /\ Lacks(e, EnvSteps)
    BY Zenon, <1>1, <1>2, Pair, PairLacks, Single, SingleLacks
  <1>4. b \in Seq(Steps) /\ Lacks(b, Y) /\ (pass[i].mode = "patch" \/ Lacks(b, EnvSteps))
    BY Zenon, <1>1, Single, SingleLacks, EmptyHas
  <1>5. Rollback(i) = a \o b /\ t \in {a \o b \o c, a \o b \o d, e}
    BY Zenon DEF Rollback, RejectSteps
  <1> HIDE DEF a, b, c, d, e
  <1>6. /\ a \o b \in Seq(Steps) /\ Lacks(a \o b, Y)
        /\ pass[i].mode = "patch" \/ Lacks(a \o b, EnvSteps)
    <2>1. a \o b \in Seq(Steps)
      BY <1>3, <1>4
    <2> QED BY Zenon, <1>3, <1>4, <2>1, ConcatLacks
  <1>7. /\ t \in Seq(Steps) /\ Lacks(t, Y)
        /\ pass[i].mode = "patch" \/ Lacks(t, EnvSteps)
    <2> DEFINE r == a \o b
    <2> HIDE DEF r
    <2>1. r \in Seq(Steps) /\ Lacks(r, Y) /\ (pass[i].mode = "patch" \/ Lacks(r, EnvSteps))
      BY Zenon, <1>6 DEF r
    <2>2. r \o c \in Seq(Steps) /\ r \o d \in Seq(Steps)
      BY <1>3, <2>1
    <2>3. t \in {r \o c, r \o d, e}
      BY Zenon, <1>5 DEF r
    <2>4. ASSUME NEW u, u \in {c, d}
          PROVE  Lacks(r \o u, Y) /\ (pass[i].mode = "patch" \/ Lacks(r \o u, EnvSteps))
      BY Zenon, <1>3, <2>1, <2>4, ConcatLacks
    <2> QED BY Zenon, <1>3, <2>2, <2>3, <2>4
  <1> QED BY Zenon, <1>7, BackFacts DEF Y

LEMMA RejectedStep ==
    ASSUME InstallerInv, NEW i \in Installs, Running(i), Head(pass[i].todo) \in NeedEnv,
           NEW t, t \in {Rollback(i) \o <<"fail">>, RejectSteps(i)},
           pass' = [pass EXCEPT ![i].todo = t],
           UNCHANGED <<disk, kubelet, locks, chart>>, budget' \in Budgets
    PROVE  InstallerInv'
  <1>1. /\ t \in Seq(Steps) /\ Shape(t, pass[i].mode)
        /\ ~Has(t, "check") /\ ~Has(t, "stage")
    BY Zenon, RollbackSteps
  <1>2. SameFiles(disk', disk)
    BY Zenon, Frame
  <1> QED BY Zenon, <1>1, <1>2, Redirected

LEMMA SkipStep ==
    ASSUME InstallerInv, NEW i \in Installs, Running(i), Head(pass[i].todo) \in NeedEnv,
           SkipRestart(i), SameFiles(disk', disk), UNCHANGED <<kubelet, locks, chart, budget>>
    PROVE  InstallerInv'
  <1> DEFINE t == SubSeq(pass[i].todo, 1 + Len(Restart), Len(pass[i].todo))
  <1>1. /\ pass[i] \in Pass /\ pass[i].todo # <<>> /\ pass \in [Installs -> Pass]
        /\ budget' \in Budgets /\ Shape(pass[i].todo, pass[i].mode)
    BY Zenon, Frame DEF Running, PassInv
  <1>2. Head(pass[i].todo) \in NeedFiles
    BY DEF NeedFiles, NeedEnv
  <1>3. pass' = [pass EXCEPT ![i].todo = t]
    BY Zenon, <1>1 DEF SkipRestart
  <1> HIDE DEF t
  <1>4. /\ t \in Seq(Steps) /\ Shape(t, pass[i].mode)
        /\ Has(t, "check") => Has(pass[i].todo, "check")
        /\ Has(t, "stage") => Has(pass[i].todo, "stage")
    BY Zenon, <1>1, <1>2, SkippedSteps DEF t
  <1> QED BY Zenon, <1>1, <1>3, <1>4, Redirected

LEMMA FinishStep ==
    ASSUME InstallerInv, NEW i \in Installs, finishWithRestart(i)
    PROVE  InstallerInv'
  <1>1. /\ Running(i) /\ Head(pass[i].todo) = "finish" /\ pass[i] \in Pass
        /\ disk \in Disk /\ SameFiles(disk, disk) /\ budget \in Budgets
    BY Zenon, Frame DEF finishWithRestart, At
  <1>2. "finish" \in NeedEnv /\ "finish" \notin Others
    BY DEF NeedEnv, Others
  <1>3. CASE SkipRestart(i) /\ UNCHANGED <<disk, kubelet, locks, chart, budget>>
    BY Zenon, <1>1, <1>2, <1>3, SkipStep
  <1>4. CASE /\ disk' = [disk EXCEPT !.state[i] = StateOf(pass[i].target)]
             /\ SkipRestart(i) /\ UNCHANGED <<kubelet, locks, chart, budget>>
    <2>1. StateOf(pass[i].target) \in State
      BY Zenon, <1>1, StateTypes DEF Pass
    <2>2. SameFiles(disk', disk)
      BY Zenon, <1>1, <1>4, <2>1, StateWritten
    <2> QED BY Zenon, <1>1, <1>2, <1>4, <2>2, SkipStep
  <1>5. CASE /\ kubelet' = Started(kubelet.identity) /\ GoOn(i)
             /\ UNCHANGED <<disk, locks, chart, budget>>
    BY Zenon, <1>1, <1>2, <1>5, RestartStep
  <1>6. CASE /\ Fault /\ pass' = [pass EXCEPT ![i].todo = RejectSteps(i)]
             /\ UNCHANGED <<disk, kubelet, locks, chart>>
    <2>1. budget' \in Budgets
      BY Zenon, <1>6, FaultFacts DEF InstallerInv
    <2> QED BY Zenon, <1>1, <1>2, <1>6, <2>1, RejectedStep
  <1>7. CASE /\ Fault /\ UNCHANGED <<disk, kubelet>> /\ UNCHANGED <<locks, chart>>
             /\ pass' = [pass EXCEPT ![i].todo = Rollback(i) \o <<"fail">>]
    <2>1. budget' \in Budgets
      BY Zenon, <1>7, FaultFacts DEF InstallerInv
    <2> QED BY Zenon, <1>1, <1>2, <1>7, <2>1, RejectedStep
  <1>8. CASE Fault /\ UNCHANGED <<disk, kubelet>> /\ Ends(i, "error")
    <2>1. budget' \in Budgets
      BY Zenon, <1>8, FaultFacts DEF InstallerInv
    <2> QED BY Zenon, <1>1, <1>8, <2>1, EndStep
  <1> QED BY Zenon, <1>3, <1>4, <1>5, <1>6, <1>7, <1>8 DEF finishWithRestart

LEMMA VerifyStep ==
    ASSUME InstallerInv, NEW i \in Installs, verify(i)
    PROVE  InstallerInv'
  <1>1. /\ Running(i) /\ Head(pass[i].todo) = "verify" /\ SameFiles(disk', disk)
        /\ UNCHANGED <<disk, kubelet, locks, chart>> /\ budget \in Budgets
    BY Zenon, Frame DEF verify, At
  <1>2. "verify" \in NeedEnv /\ "verify" \notin Others
    BY DEF NeedEnv, Others
  <1>3. budget' \in Budgets
    BY Zenon, <1>1, FaultFacts DEF verify, InstallerInv
  <1>4. CASE GoOn(i)
    BY Zenon, <1>1, <1>2, <1>3, <1>4, RestartStep
  <1>5. CASE pass' = [pass EXCEPT ![i].todo = RejectSteps(i)]
    BY Zenon, <1>1, <1>2, <1>3, <1>5, RejectedStep
  <1> QED BY Zenon, <1>4, <1>5 DEF verify

LEMMA SaveStep ==
    ASSUME InstallerInv, NEW i \in Installs, saveState(i)
    PROVE  InstallerInv'
  <1>1. /\ Running(i) /\ Head(pass[i].todo) = "save" /\ pass[i] \in Pass /\ disk \in Disk
        /\ GoOn(i) /\ UNCHANGED <<kubelet, locks, chart, budget>> /\ budget' \in Budgets
        /\ disk' = [disk EXCEPT !.state[i] = StateOf(pass[i].target)]
    BY Zenon, Frame DEF saveState, At
  <1>2. "save" \notin Others
    BY DEF Others
  <1>3. StateOf(pass[i].target) \in State
    BY Zenon, <1>1, StateTypes DEF Pass
  <1>4. SameFiles(disk', disk)
    BY Zenon, <1>1, <1>3, StateWritten
  <1> QED BY Zenon, <1>1, <1>2, <1>4, RestartStep

LEMMA RestoreStep ==
    ASSUME InstallerInv, NEW i \in Installs, restore(i)
    PROVE  InstallerInv'
  <1> DEFINE s == Head(pass[i].todo)
  <1>1. /\ Running(i) /\ s \in {"restoreRecord", "restoreConfig", "restoreEnv"}
        /\ pass[i].todo # <<>> /\ pass[i] \in Pass /\ SamePlan(pass[i], pass[i])
        /\ PassInv(disk, locks, chart.values, i, pass[i])
        /\ disk \in Disk /\ SameFiles(disk, disk)
        /\ UNCHANGED <<kubelet, locks, chart>> /\ kubelet' \in Process /\ budget \in Budgets
    BY Zenon, Frame DEF restore, At, Running
  <1>2. s \notin Others /\ s \in Undo
    BY <1>1 DEF Others, Undo, Restores
  <1>3. CASE Fault /\ Continue(i, [pass[i] EXCEPT !.torn = TRUE]) /\ UNCHANGED disk
    <2>1. budget' \in Budgets /\ SamePlan([pass[i] EXCEPT !.torn = TRUE], pass[i])
      BY Zenon, <1>1, <1>3, FaultFacts, SamePlans DEF InstallerInv
    <2>2. Mine(i, disk, locks, disk', locks') /\ disk' \in Disk
      BY Zenon, <1>1, <1>3, SameKeeps
    <2> QED BY Zenon, <1>1, <1>2, <1>3, <2>1, <2>2, GoOnStep
  <1>4. CASE disk' = Restored(i) /\ GoOn(i) /\ UNCHANGED budget
    <2>1. Continue(i, pass[i]) /\ budget' \in Budgets
      BY Zenon, <1>1, <1>4 DEF GoOn
    <2>2. CASE s = "restoreRecord"
      <3>1. disk' = [disk EXCEPT !.record[pass[i].own.bin][i] = pass[i].begun]
        BY <1>4, <2>2 DEF Restored
      <3>2. pass[i].begun \in Record \cup {NoRecord}
        BY Zenon, <1>1 DEF Pass
      <3> QED BY Zenon, <1>1, <1>2, <1>4, <2>1, <3>1, <3>2, RecordStep
    <2>3. CASE s = "restoreConfig"
      <3> DEFINE c == pass[i].own.config
                 f == pass[i].prior
      <3>1. disk' = [disk EXCEPT !.config[c] = f]
        BY <1>4, <2>3 DEF Restored
      <3>2. "restoreConfig" \in NeedLock
        BY DEF NeedLock
      <3>3. Held(locks, i, pass[i])
        BY Zenon, <1>1, <2>3, <3>2, StepLocks
      <3>4. c \in Configs /\ locks[c] = i /\ f \in Content \cup {NoFile}
        BY Zenon, <1>1, <3>3, WiringTypes DEF Held, Pass
      <3> HIDE DEF c, f
      <3>5. WroteConfig(disk', disk, c, f)
        BY Zenon, <1>1, <3>1, <3>4, ConfigWritten
      <3>6. Mine(i, disk, locks, disk', locks)
        BY Zenon, <1>1, <3>4, <3>5, ConfigKeeps
      <3>7. Mine(i, disk, locks, disk', locks') /\ disk' \in Disk
        BY Zenon, <1>1, <3>5, <3>6 DEF WroteConfig
      <3> QED BY Zenon, <1>1, <1>2, <2>1, <3>7, GoOnStep
    <2>4. CASE s = "restoreEnv"
      <3> DEFINE e == pass[i].priorEnv
      <3>1. disk' = [disk EXCEPT !.env = e]
        BY <1>4, <2>4 DEF Restored
      <3>2. "restoreEnv" \in EnvSteps
        BY DEF EnvSteps
      <3>3. NodeHeld(locks, i, pass[i])
        BY Zenon, <1>1, <2>4, <3>2, StepPlace
      <3>4. locks["node"] = i /\ e \in Seq(Arg)
        BY Zenon, <1>1, <3>3 DEF NodeHeld, Pass
      <3> HIDE DEF e
      <3>5. WroteEnv(disk', disk, e)
        BY Zenon, <1>1, <3>1, <3>4, EnvWritten
      <3>6. Mine(i, disk, locks, disk', locks)
        BY Zenon, <3>4, <3>5, EnvKeeps
      <3>7. Mine(i, disk, locks, disk', locks') /\ disk' \in Disk
        BY Zenon, <1>1, <3>5, <3>6 DEF WroteEnv
      <3> QED BY Zenon, <1>1, <1>2, <2>1, <3>7, GoOnStep
    <2> QED BY Zenon, <1>1, <2>2, <2>3, <2>4
  <1> QED BY Zenon, <1>3, <1>4 DEF restore

LEMMA RestartBackStep ==
    ASSUME InstallerInv, NEW i \in Installs, restartBack(i)
    PROVE  InstallerInv'
  <1>1. /\ Running(i) /\ Head(pass[i].todo) = "restartBack" /\ GoOn(i)
        /\ kubelet' = Started(kubelet.identity) \/ kubelet' = kubelet
        /\ SameFiles(disk', disk) /\ UNCHANGED <<locks, chart>>
    BY Zenon, Frame DEF restartBack, At
  <1>2. budget' \in Budgets
    BY Zenon, Frame, FaultFacts DEF restartBack, InstallerInv
  <1>3. "restartBack" \notin Others
    BY DEF Others
  <1> QED BY Zenon, <1>1, <1>2, <1>3, RestartStep

LEMMA RejectStep ==
    ASSUME InstallerInv, NEW i \in Installs, rejectRestart(i)
    PROVE  InstallerInv'
  <1> DEFINE s == IF disk.state[i] = NoState THEN NewState ELSE disk.state[i]
  <1>1. PICK k \in kubeletIdentity :
            disk' = [disk EXCEPT !.state[i] =
                       [s EXCEPT !.rejected = [target |-> pass[i].target, kubelet |-> k]]]
    BY Zenon DEF rejectRestart
  <1>2. /\ Head(pass[i].todo) = "reject" /\ pass[i] \in Pass /\ disk \in Disk
        /\ pass[i].todo # <<>> /\ PassInv(disk, locks, chart.values, i, pass[i])
        /\ kubelet \in Process /\ UNCHANGED <<kubelet, budget>> /\ budget' \in Budgets
    BY Zenon, Frame DEF rejectRestart, At, Running
  <1>3. "reject" \in NeedPlan
    BY DEF NeedPlan
  <1>4. pass[i].target \in Target
    <2>1. Planned(disk, i, pass[i])
      BY Zenon, <1>2, <1>3, StepNeeds
    <2> QED BY Zenon, <2>1 DEF Planned
  <1>5. k \in Kubelets \cup {Unknown}
    BY Zenon, <1>1, <1>2 DEF kubeletIdentity, Process
  <1>6. s \in State
    <2>1. <<>> \in Seq(Arg)
      OBVIOUS
    <2>2. NewState \in State
      BY SMTT(20), <2>1 DEF NewState, State
    <2>3. disk.state[i] \in State \cup {NoState}
      BY Zenon, <1>2 DEF Disk
    <2> QED BY Zenon, <2>2, <2>3
  <1> HIDE DEF s
  <1> DEFINE r == [target |-> pass[i].target, kubelet |-> k]
             x == [s EXCEPT !.rejected = r]
  <1>7. r \in Rejection
    BY SMTT(20), <1>4, <1>5 DEF Rejection
  <1>8. disk' = [disk EXCEPT !.state[i] = x]
    BY Zenon, <1>1
  <1> HIDE DEF r
  <1>9. x \in State
    BY ZenonT(20), <1>6, <1>7 DEF State
  <1> HIDE DEF x
  <1>10. SameFiles(disk', disk)
    BY Zenon, <1>2, <1>8, <1>9, StateWritten
  <1>11. \E how \in {"ok", "error", "torn", "died"} : Ends(i, how)
    BY Zenon DEF rejectRestart, Failed
  <1> QED BY Zenon, <1>2, <1>10, <1>11, EndStep

LEMMA EndingSteps ==
    ASSUME InstallerInv, NEW i \in Installs, fail(i) \/ succeed(i) \/ die(i)
    PROVE  InstallerInv'
  <1>1. /\ SameFiles(disk', disk) /\ kubelet' = kubelet /\ budget' \in Budgets
    BY Zenon, Frame, FaultFacts DEF fail, succeed, die, InstallerInv
  <1>2. \E how \in {"ok", "error", "torn", "died"} : Ends(i, how)
    BY Zenon DEF fail, succeed, die, Failed
  <1> QED BY Zenon, <1>1, <1>2, EndStep

LEMMA UpgradeStep ==
    ASSUME InstallerInv, NEW i \in Installs, upgrade(i)
    PROVE  InstallerInv'
  <1>1. PICK v \in chart.menu[i] : chart' = [chart EXCEPT !.values[i] = v, !.due = @ \cup {i}]
    BY Zenon DEF upgrade
  <1>2. UNCHANGED <<disk, kubelet, locks, pass>> /\ pass[i].todo = <<>>
    BY Zenon DEF upgrade, Running
  <1>3. budget' \in Budgets
    BY DEF upgrade, InstallerInv, TypeOK, Budgets
  <1>4. chart \in Charts /\ v \in Chart
    BY Zenon, <1>1 DEF InstallerInv, TypeOK, Charts
  <1> DEFINE h == [chart.values EXCEPT ![i] = v]
             u == chart.due \cup {i}
  <1>5. /\ h \in [Installs -> Chart] /\ u \in SUBSET Installs
        /\ \A j \in Installs : h[j] = chart.values[j] \/ j = i
    BY Zenon, <1>4 DEF Charts
  <1>6. chart' = [chart EXCEPT !.values = h, !.due = u]
    BY Zenon, <1>1
  <1> HIDE DEF h, u
  <1>7. chart' \in Charts /\ chart'.values = h
    BY ZenonT(20), <1>4, <1>5, <1>6 DEF Charts
  <1>8. ASSUME NEW j \in Installs PROVE PassInv(disk, locks, h, j, pass[j])
    <2>1. Steady(j, disk, locks, disk, locks)
      BY Zenon, Frame, SameKeeps
    <2>2. /\ pass[j] \in Pass /\ PassInv(disk, locks, chart.values, j, pass[j])
          /\ chart.values[j].wiring \in Wiring
      BY Zenon, Frame
    <2>3. h[j] = chart.values[j] \/ pass[j].todo = <<>>
      BY Zenon, <1>2, <1>5
    <2> QED BY Zenon, <2>1, <2>2, <2>3, OthersKeep
  <1>9. TypeOK'
    BY Zenon, <1>2, <1>3, <1>7 DEF InstallerInv, TypeOK, Budgets
  <1> QED BY Zenon, <1>2, <1>7, <1>8, <1>9 DEF InstallerInv, PassesInv

LEMMA KubeletSteps ==
    ASSUME InstallerInv, kubeletRestarts \/ kubeletRecovers
    PROVE  InstallerInv'
  <1>1. UNCHANGED <<disk, locks, pass, chart>>
    BY Zenon DEF kubeletRestarts, kubeletRecovers
  <1>2. \E k \in Kubelets : kubelet' = Started(k)
    BY Zenon, Frame DEF kubeletRestarts, kubeletRecovers
  <1>3. budget' \in Budgets
    <2>1. CASE kubeletRestarts
      BY <2>1 DEF kubeletRestarts, InstallerInv, TypeOK, Budgets
    <2>2. CASE kubeletRecovers
      BY Zenon, <2>2, Frame DEF kubeletRecovers
    <2> QED BY Zenon, <2>1, <2>2
  <1>4. kubelet' \in Process
    BY Zenon, <1>2, Frame, StartedFacts
  <1> QED BY Zenon, <1>1, <1>3, <1>4 DEF InstallerInv, TypeOK, PassesInv, Budgets

(***************************************************************************)
(* The node before the first pass.                                         *)
(***************************************************************************)
LEMMA EmptyFacts ==
    /\ EmptyDisk \in Disk /\ EmptyDisk.env \in Seq(Arg)
    /\ EmptyDisk.config \in [Configs -> Content \cup {NoFile}]
    /\ EmptyDisk.binaries \in [BinDirs -> SUBSET Names]
    /\ EmptyDisk.state \in [Installs -> State \cup {NoState}]
  <1> DEFINE e == << <<"other">> >>
  <1>1. e \in Seq(Arg) /\ <<>> \in Seq(Arg)
    BY DEF Arg
  <1>2. EmptyDisk = [config |-> [c \in Configs |-> NoFile],
                     record |-> [b \in BinDirs |-> [i \in Installs |-> NoRecord]],
                     binaries |-> [b \in BinDirs |-> {}], env |-> e, unit |-> <<>>,
                     state |-> [i \in Installs |-> NoState]]
    BY Zenon DEF EmptyDisk
  <1> HIDE DEF e
  <1>3. EmptyDisk \in Disk
    BY ZenonT(20), <1>1, <1>2 DEF Disk
  <1> QED BY Zenon, <1>3 DEF Disk

LEMMA OnlyFacts ==
    ASSUME NEW n, NEW e \in Entry \cup {Cloud}
    PROVE  Only(n, e) \in Content
  BY Zenon DEF Only, Content

LEMMA CloudFacts == CloudDisk \in Disk
  <1> DEFINE w == CloudWiring
             u == mergeExtraArgs(<<>>, w)
             h == [EmptyDisk.config EXCEPT ![w.config] = Only(Cloud, Cloud)]
             g == [EmptyDisk.binaries EXCEPT ![w.bin] = {Cloud}]
  <1>1. w \in Wiring /\ w.bin \in BinDirs /\ w.config \in Configs /\ Cloud \in Names
    BY Zenon, WiringTypes, InstallerAssumption DEF Names
  <1>2. u \in Seq(Arg)
    <2>1. <<>> \in Seq(Arg)
      OBVIOUS
    <2> QED BY Zenon, <1>1, <2>1, MergeFacts
  <1>3. h \in [Configs -> Content \cup {NoFile}] /\ g \in [BinDirs -> SUBSET Names]
    BY Zenon, <1>1, EmptyFacts, OnlyFacts
  <1>4. CloudDisk = [EmptyDisk EXCEPT !.unit = u, !.config = h, !.binaries = g]
    BY Zenon, <1>1 DEF CloudDisk
  <1> HIDE DEF u, h, g
  <1> QED BY ZenonT(20), <1>2, <1>3, <1>4, EmptyFacts DEF Disk

LEMMA LegacyFacts ==
    ASSUME NEW v \in Chart
    PROVE  LegacyDisk(v) \in Disk
  <1> DEFINE w == v.wiring
             n == [ver |-> v.ver, home |-> w.config]
             f == Only(First, n)
             e == mergeExtraArgs(EmptyDisk.env, w)
             s == [mode |-> "patch", wiring |-> w, entry |-> NoEntry, env |-> e, file |-> f,
                   rejected |-> NoRejection]
             h == [EmptyDisk.config EXCEPT ![w.config] = f]
             g == [EmptyDisk.binaries EXCEPT ![w.bin] = {First}]
             x == [EmptyDisk.state EXCEPT ![First] = s]
             d == LegacyDisk(v)
  <1>1. /\ w \in Wiring /\ w.bin \in BinDirs /\ w.config \in Configs
        /\ First \in Installs /\ First \in Names /\ v.ver \in Versions
    BY Zenon, WiringTypes, InstallerAssumption DEF Names, Chart
  <1>2. n \in Entry
    BY <1>1 DEF Entry
  <1>3. d = [EmptyDisk EXCEPT !.env = e, !.config = h, !.binaries = g, !.state = x]
    BY Zenon, <1>1 DEF LegacyDisk
  <1>4. e \in Seq(Arg)
    BY Zenon, <1>1, EmptyFacts, MergeFacts
  <1> HIDE DEF n, e
  <1>5. f \in Content
    BY Zenon, <1>2, OnlyFacts
  <1>6. h \in [Configs -> Content \cup {NoFile}] /\ g \in [BinDirs -> SUBSET Names]
    BY ZenonT(40), <1>1, <1>5, EmptyFacts
  <1> HIDE DEF f, h, g, d
  <1>7. s \in State
    BY ZenonT(30), <1>1, <1>4, <1>5 DEF State
  <1> HIDE DEF s
  <1>8. x \in [Installs -> State \cup {NoState}]
    BY Zenon, <1>1, <1>7, EmptyFacts
  <1> HIDE DEF x
  <1>9. d \in Disk
    BY ZenonT(20), <1>3, <1>4, <1>6, <1>8, EmptyFacts DEF Disk
  <1> QED BY Zenon, <1>9 DEF d

LEMMA InitInv == Init => InstallerInv
  <1> SUFFICES ASSUME Init PROVE InstallerInv
    OBVIOUS
  <1>1. PICK p \in Plans :
          /\ chart = [values |-> p.start, menu |-> p.menu, due |-> Installs,
                      result |-> [i \in Installs |-> "none"]]
          /\ disk = CASE p.node = "bare" -> EmptyDisk
                      [] p.node = "cloud" -> CloudDisk
                      [] p.node = "legacy" -> LegacyDisk(p.start[First])
          /\ kubelet = Started(FirstKubelet)
          /\ locks = [l \in Locks |-> NoOwner]
          /\ pass = [i \in Installs |-> Idle]
          /\ budget = p.budget
    BY Zenon DEF Init
  <1>2. /\ p.node \in {"bare", "cloud", "legacy"} /\ p.start \in [Installs -> Chart]
        /\ p.menu \in [Installs -> SUBSET Chart] /\ p.budget \in Budgets
        /\ First \in Installs /\ FirstKubelet \in Kubelets
    BY Zenon, InstallerAssumption DEF Plan, Budgets
  <1>3. disk \in Disk
    <2>1. CASE p.node = "bare"
      <3>1. disk = EmptyDisk
        BY <1>1, <2>1
      <3> QED BY Zenon, <3>1, EmptyFacts
    <2>2. CASE p.node = "cloud"
      <3>1. disk = CloudDisk
        BY <1>1, <2>2
      <3> QED BY Zenon, <3>1, CloudFacts
    <2>3. CASE p.node = "legacy"
      <3>1. disk = LegacyDisk(p.start[First])
        BY <1>1, <2>3
      <3> QED BY Zenon, <1>2, <3>1, LegacyFacts
    <2> QED BY Zenon, <1>2, <2>1, <2>2, <2>3
  <1>4. kubelet \in Process
    BY Zenon, <1>1, <1>2, <1>3, StartedFacts
  <1>5. chart \in Charts
    <2> DEFINE r == [i \in Installs |-> "none"]
    <2>1. r \in [Installs -> {"none", "ok", "error", "torn", "died"}]
      BY Zenon
    <2>2. chart = [values |-> p.start, menu |-> p.menu, due |-> Installs, result |-> r]
      BY Zenon, <1>1
    <2> HIDE DEF r
    <2> QED BY ZenonT(20), <1>2, <2>1, <2>2 DEF Charts
  <1>6. pass \in [Installs -> Pass] /\ PassesInv
    BY Zenon, <1>1, IdleFacts DEF PassesInv
  <1>7. locks \in [Locks -> Installs \cup {NoOwner}]
    BY Zenon, <1>1
  <1>8. TypeOK
    BY Zenon, <1>1, <1>2, <1>3, <1>4, <1>5, <1>6, <1>7 DEF TypeOK, Budgets
  <1> QED BY Zenon, <1>6, <1>8 DEF InstallerInv

LEMMA NextInv == InstallerInv /\ [Next]_vars => InstallerInv'
  <1> SUFFICES ASSUME InstallerInv, [Next]_vars PROVE InstallerInv'
    OBVIOUS
  <1>1. CASE UNCHANGED vars
    BY Zenon, <1>1 DEF vars, InstallerInv, TypeOK, PassesInv
  <1>2. CASE kubeletRestarts \/ kubeletRecovers
    BY Zenon, <1>2, KubeletSteps
  <1>3. ASSUME NEW i \in Installs,
               Start(i) \/ lockNode(i) \/ lockConfig(i) \/ lockTimeout(i) \/ die(i) \/ upgrade(i)
        PROVE  InstallerInv'
    BY Zenon, <1>3, StartStep, LockNodeStep, LockConfigStep, LockTimeoutStep, EndingSteps,
       UpgradeStep
  <1>4. ASSUME NEW i \in Installs, Step(i)
        PROVE  InstallerInv'
    BY Zenon, <1>4, CheckStep, StageStep, PlanStep, BeginStep, BinaryStep, ConfigStep, CommitStep,
       EnvStep, FinishStep, VerifyStep, SaveStep, RestoreStep, RestartBackStep, RejectStep,
       EndingSteps DEF Step
  <1> QED BY Zenon, <1>1, <1>2, <1>3, <1>4 DEF Next

\* The invariant that the theorems below rest on.
LEMMA InstallerInvariant == Spec => []InstallerInv
  BY InitInv, NextInv, PTL DEF Spec

\* Whatever passes, faults, upgrades and kubelet restarts do, the files, the
\* process, the locks, the passes and the chart values have their types: no
\* step reads a plan, a config or a wiring that is not there (run.go).
THEOREM InstallerTypes == Spec => []TypeOK
  <1>1. InstallerInv => TypeOK
    BY Zenon DEF InstallerInv
  <1> QED BY <1>1, InstallerInvariant, PTL

\* For any installs, directories and chart values, a change of one directory alone
\* included, and any faults: a pass writes kubelet's flags, restarts kubelet and
\* waits for it only while the config there has an entry and every entry in it,
\* of another install or of the cloud too, has its binary there, and from the
\* restart on these are the flags kubelet starts with.  It holds because the
\* pass carries over only entries whose binary is there, writes its own binary
\* first, and from its plan on holds the locks of what it wrote (siblingIn,
\* chartOwnedConfigIn, mergeProvider, lockPatchConfigs, runPatchOn, runMerge).
THEOREM RestartsFindBinaries == Spec => []RestartFindsBinaries
  <1>1. ASSUME InstallerInv, NEW i \in Installs,
               NEW s \in {"env", "finish", "verify", "save"}, At(i, s)
        PROVE  /\ HasBinaries(pass[i].own)
               /\ pass[i].mode = "patch" /\ ~At(i, "env")
                     => kubeletWiring(CommandLine) = pass[i].own
    <2>1. /\ Head(pass[i].todo) = s /\ pass[i].todo # <<>> /\ pass[i] \in Pass /\ disk \in Disk
          /\ PassInv(disk, locks, chart.values, i, pass[i])
      BY Zenon, <1>1, Frame DEF At, Running
    <2>2. s \in NeedFiles /\ s \in NeedBinary /\ s \in NeedPlan /\ (s # "env" => s \in NeedEnv)
      BY DEF NeedFiles, NeedBinary, NeedPlan, NeedEnv
    <2>3. /\ HasBinary(disk, i, pass[i]) /\ Planned(disk, i, pass[i])
          /\ Written(disk, locks, i, pass[i]) /\ (s # "env" => Wired(disk, pass[i]))
      BY Zenon, <2>1, <2>2, StepNeeds
    <2> DEFINE w == pass[i].own
               t == pass[i].target
    <2>4. HasBinaries(w)
      <3>1. /\ disk.config[w.config] = t.file /\ i \in Names
            /\ i \in disk.binaries[w.bin] /\ t.file[i] # NoEntry
            /\ \A n \in Names \ {i} : t.file[n] # NoEntry => n \in disk.binaries[w.bin]
        BY Zenon, <2>3 DEF HasBinary, Planned, Written, Names
      <3>2. t.file # NoFile
        BY Zenon, <2>3, InstallerAssumption DEF Planned, Target
      <3>3. \A n \in Names : t.file[n] # NoEntry => n \in disk.binaries[w.bin]
        BY Zenon, <3>1
      <3> HIDE DEF w, t
      <3> QED BY Zenon, <3>1, <3>2, <3>3 DEF HasBinaries
    <2>5. ASSUME pass[i].mode = "patch", ~At(i, "env")
          PROVE  kubeletWiring(CommandLine) = w
      <3>1. s # "env"
        BY Zenon, <1>1, <2>5
      <3>2. disk.env = t.env /\ EndsIn(t.env, w) /\ w \in Wiring
        BY Zenon, <2>3, <2>5, <3>1 DEF Wired, Planned
      <3>3. disk.env \in Seq(Arg) /\ disk.unit \in Seq(Arg)
        BY Zenon, <2>1 DEF Disk
      <3>4. EndsIn(disk.env, w)
        BY Zenon, <3>2
      <3> HIDE DEF w, t
      <3> QED BY Zenon, <3>2, <3>3, <3>4, OwnFlags DEF CommandLine
    <2> QED BY Zenon, <2>4, <2>5
  <1>2. InstallerInv => RestartFindsBinaries
    BY Zenon, <1>1 DEF RestartFindsBinaries
  <1> QED BY <1>2, InstallerInvariant, PTL
=============================================================================
