-------------------------------- MODULE Glob --------------------------------
(***************************************************************************)
(* The files a wildcard expression of EnvironmentFile= names               *)
(* (installer/envfile.go, expandEnvFile and below), and the definition of  *)
(* glob(3) it has to agree with.                                           *)
(*                                                                         *)
(* A component of a path is a sequence of characters, a path a sequence of *)
(* components.  Order ranks the characters.                                *)
(***************************************************************************)
EXTENDS Integers, FiniteSetsExt, SequencesExt

CONSTANTS
    Order,    \* the characters of names and patterns, in the order of their bytes
    Node      \* the node's files: kind, by path

\* Kinds: "file", "dir", "symlink".
ASSUME GlobAssumption ==
    \A path \in DOMAIN Node : path # <<>> /\ Node[path] \in {"file", "dir", "symlink"}

\* The byte of a character.
Rank(c) == CHOOSE i \in DOMAIN Order : Order[i] = c

Escape == "\\"

-----------------------------------------------------------------------------
(* Components.                                                             *)

\* The characters of comp that no backslash escapes, with their places.
RECURSIVE Unescaped(_, _)
Unescaped(comp, i) ==
    IF i > Len(comp) THEN {}
    ELSE IF comp[i] = Escape THEN Unescaped(comp, i + 2)
    ELSE {i} \cup Unescaped(comp, i + 1)

globMagic(comp) ==
    LET bare == Unescaped(comp, 1)
    IN \E i \in bare : \/ comp[i] \in {"*", "?"}
                       \/ comp[i] = "[" /\ \E j \in bare : j > i /\ comp[j] = "]"

\* An escape at the very end stands for itself.
RECURSIVE globUnescape(_)
globUnescape(comp) ==
    CASE comp = <<>> -> <<>>
      [] Len(comp) > 1 /\ Head(comp) = Escape ->
            <<comp[2]>> \o globUnescape(SubSeq(comp, 3, Len(comp)))
      [] OTHER -> <<Head(comp)>> \o globUnescape(Tail(comp))

\* What follows a "[" in a character class, an equivalence class and a collating
\* symbol.
ClassMarks == {":", "=", "."}

\* A bracket expression: end is the place after it (0: it is not closed),
\* members the characters of its set, before negation; error where it holds a
\* class or a symbol, which the installer does not evaluate.
Unclosed == [end |-> 0, members |-> {}, negate |-> FALSE, error |-> FALSE]

Between(lo, hi) == {c \in ToSet(Order) : Rank(lo) <= Rank(c) /\ Rank(c) <= Rank(hi)}

RECURSIVE BracketFrom(_, _, _, _, _)
BracketFrom(p, i, first, negate, members) ==
    LET real(k) == IF k <= Len(p) /\ p[k] = Escape THEN k + 1 ELSE k
        ranged(at) == at + 2 <= Len(p) /\ p[at + 1] = "-" /\ p[at + 2] # "]"
        member(at, high) ==
            IF high > Len(p) THEN Unclosed
            ELSE BracketFrom(p, high + 1, FALSE, negate,
                             members \cup Between(p[at], p[high]))
        one(at) == member(at, IF ranged(at) THEN real(at + 2) ELSE at)
    IN CASE i > Len(p) -> Unclosed
         [] i <= Len(p) /\ p[i] = "]" /\ ~first ->
               [end |-> i + 1, members |-> members, negate |-> negate, error |-> FALSE]
         [] i < Len(p) /\ p[i] = "[" /\ p[i + 1] \in ClassMarks ->
               [Unclosed EXCEPT !.error = TRUE]
         [] OTHER -> one(real(i))

\* Mutant: "^" does not negate.
globBracketBang(pattern, p) ==
    IF p < Len(pattern) /\ pattern[p + 1] = "!"
    THEN BracketFrom(pattern, p + 2, TRUE, TRUE, {})
    ELSE BracketFrom(pattern, p + 1, TRUE, FALSE, {})
globBracket(pattern, p) ==
    IF p < Len(pattern) /\ pattern[p + 1] \in {"!", "^"}
    THEN BracketFrom(pattern, p + 2, TRUE, TRUE, {})
    ELSE BracketFrom(pattern, p + 1, TRUE, FALSE, {})

InSet(b, c) == (c \in b.members) # b.negate

\* The loop of globMatch: p and n are the places in pattern and name, starP and
\* starN those to go back to (starP = 0: none).  The result is "yes", "no" or
\* "error".
RECURSIVE MatchLoop(_, _, _, _, _, _)
MatchLoop(pattern, name, p, n, starP, starN) ==
    LET c == pattern[p]
        more == n <= Len(name)
        back == IF starP > 0 /\ starN <= Len(name)
                THEN MatchLoop(pattern, name, starP, starN + 1, starP, starN + 1)
                ELSE "no"
        step(k, ok) == IF ok THEN MatchLoop(pattern, name, k, n + 1, starP, starN) ELSE back
        bracket(b) == IF b.error THEN "error"
                      ELSE IF b.end = 0 THEN step(p + 1, more /\ name[n] = "[")
                      ELSE step(b.end, more /\ InSet(b, name[n]))
    IN IF p > Len(pattern) THEN IF more THEN back ELSE "yes"
       ELSE CASE c = "*" -> MatchLoop(pattern, name, p + 1, n, p + 1, n)
              [] c = "?" -> step(p + 1, more)
              [] c = "[" -> bracket(globBracket(pattern, p))
              [] c = Escape ->
                    step(p + 2, p < Len(pattern) /\ more /\ name[n] = pattern[p + 1])
              [] OTHER -> step(p + 1, more /\ name[n] = c)

globMatch(pattern, name) ==
    IF /\ IsPrefix(<<".">>, name)
       /\ ~IsPrefix(<<".">>, pattern) /\ ~IsPrefix(<<Escape, ".">>, pattern)
    THEN "no" ELSE MatchLoop(pattern, name, 1, 1, 0, 0)

-----------------------------------------------------------------------------
(* Paths.                                                                  *)

Refusal == [ok |-> FALSE, paths |-> {}]

Entries(dir) == {path \in DOMAIN Node : Len(path) = Len(dir) + 1 /\ Front(path) = dir}

IsDir(path) == path \in DOMAIN Node /\ Node[path] = "dir"

\* The entries of dir that match; an error where one is a symlink to follow or
\* the pattern cannot be evaluated.
globDir(dir, pattern, last) ==
    LET of(match, kind) == {e \in DOMAIN match : match[e] = "yes" /\ Node[e] \in kind}
        found(match) ==
            IF \/ \E e \in DOMAIN match : match[e] = "error"
               \/ ~last /\ of(match, {"symlink"}) # {}
            THEN Refusal
            ELSE [ok |-> TRUE,
                  paths |-> of(match, IF last THEN {"file", "dir", "symlink"} ELSE {"dir"})]
    IN found([e \in Entries(dir) |-> globMatch(pattern, Last(e))])

\* One component of expandEnvFile: from the paths so far to the next ones.
expandComponent(found, comp, last) ==
    LET union(each) ==
            IF \E d \in each : ~d.ok THEN Refusal
            ELSE [ok |-> TRUE, paths |-> UNION {d.paths : d \in each}]
    IN IF ~found.ok THEN found
       ELSE IF ~globMagic(comp)
       THEN [ok |-> TRUE, paths |-> {Append(dir, globUnescape(comp)) : dir \in found.paths}]
       ELSE union({globDir(dir, comp, last) : dir \in found.paths})

\* sort.Strings over the joined paths.
RECURSIVE Before(_, _)
Before(a, b) ==
    /\ b # <<>>
    /\ \/ a = <<>>
       \/ Rank(Head(a)) < Rank(Head(b))
       \/ (Rank(Head(a)) = Rank(Head(b)) /\ Before(Tail(a), Tail(b)))

Joined(path) == FlattenSeq([i \in DOMAIN path |-> <<"/">> \o path[i]])

Inserted(path, sorted) ==
    LET lower == SelectSeq(sorted, LAMBDA a : Before(Joined(a), Joined(path)))
    IN lower \o <<path>> \o SubSeq(sorted, Len(lower) + 1, Len(sorted))

Sorted(paths) == FoldSet(Inserted, <<>>, paths)

\* The node paths of the files of a setting, in systemd's order.
expandEnvFile(pattern) ==
    LET result(found) ==
            [ok |-> found.ok, paths |-> IF found.ok THEN Sorted(found.paths) ELSE <<>>]
    IN result(FoldLeft(LAMBDA f, i : expandComponent(f, pattern[i], i = Len(pattern)),
                       [ok |-> TRUE, paths |-> {<<>>}], [i \in DOMAIN pattern |-> i]))

-----------------------------------------------------------------------------
(* glob(3) (external): which names match, by cases on the pattern, and     *)
(* which files of the node there are under it.  A bracket expression is    *)
(* read from its closing bracket back, not by the installer's loop.        *)

\* An odd number of backslashes stands right before place j of p, from place
\* `from' on.
Escaped(p, from, j) ==
    Cardinality({k \in from..(j - 1) : \A m \in k..(j - 1) : p[m] = Escape}) % 2 = 1

\* The members that the places `at' of p list: a "-" that is not escaped and
\* stands between two others makes a range of bytes.
RECURSIVE Listed(_, _, _)
Listed(p, bare, at) ==
    LET range == {Order[k] : k \in Rank(p[at[1]])..Rank(p[at[3]])}
    IN IF at = <<>> THEN {}
       ELSE IF Len(at) > 2 /\ at[2] \in bare /\ p[at[2]] = "-"
       THEN range \cup Listed(p, bare, SubSeq(at, 4, Len(at)))
       ELSE {p[at[1]]} \cup Listed(p, bare, Tail(at))

\* The bracket expression p begins with: whether it is closed, the place after
\* it, whether a class or a symbol is opened in it, and the characters it matches.
Bracketed(p) ==
    LET negated == Len(p) > 1 /\ p[2] \in {"!", "^"}
        from == IF negated THEN 3 ELSE 2
        bare == {j \in from..Len(p) : ~Escaped(p, from, j)}
        closing == {j \in bare : j > from /\ p[j] = "]"}
        end == Min(closing \cup {Len(p) + 1})
        places == SelectSeq([j \in 1..(end - 1) |-> j],
                            LAMBDA j : j >= from /\ (j \in bare => p[j] # Escape))
        listed == Listed(p, bare, places)
    IN [closed |-> closing # {}, end |-> end + 1,
        class |-> \E j \in bare : /\ j < end /\ p[j] = "["
                                  /\ j < Len(p) /\ p[j + 1] \in ClassMarks,
        matched |-> IF negated THEN ToSet(Order) \ listed ELSE listed]

\* What a class or a symbol matches is left open: verdict stands for it.
RECURSIVE Fnmatch(_, _, _)
Fnmatch(pattern, name, verdict) ==
    LET rest(k) == SubSeq(pattern, k, Len(pattern))
        one(k, ok) == name # <<>> /\ ok /\ Fnmatch(rest(k), Tail(name), verdict)
        bracket(b) == IF ~b.closed THEN one(2, Head(name) = "[")
                      ELSE IF b.class THEN verdict
                      ELSE one(b.end, Head(name) \in b.matched)
    IN IF pattern = <<>> THEN name = <<>>
       ELSE CASE Head(pattern) = "*" ->
                   \E k \in 1..(Len(name) + 1) :
                      Fnmatch(rest(2), SubSeq(name, k, Len(name)), verdict)
              [] Head(pattern) = "?" -> one(2, TRUE)
              [] Head(pattern) = "[" -> bracket(Bracketed(pattern))
              [] Head(pattern) = Escape -> Len(pattern) > 1 /\ one(3, pattern[2] = Head(name))
              [] OTHER -> one(2, Head(pattern) = Head(name))

\* A hidden name is not matched by a wildcard.
FnmatchPeriod(pattern, name, verdict) ==
    /\ Fnmatch(pattern, name, verdict)
    /\ name # <<>> /\ Head(name) = "." =>
          IsPrefix(<<".">>, pattern) \/ IsPrefix(<<Escape, ".">>, pattern)

Matches(pattern, path, verdict) ==
    \A i \in DOMAIN path : FnmatchPeriod(pattern[i], path[i], verdict)

\* Every path that exists and matches in each of its components.
GlobPaths(pattern, verdict) ==
    {path \in DOMAIN Node :
       /\ Len(path) = Len(pattern)
       /\ \A i \in 1..(Len(path) - 1) : IsDir(SubSeq(path, 1, i))
       /\ Matches(pattern, path, verdict)}

\* A component that opens a class or a symbol inside a bracket expression.
OpensClass(comp) ==
    \E i, j \in DOMAIN comp : /\ i < j /\ comp[i] = "[" /\ comp[j] = "["
                              /\ j < Len(comp) /\ comp[j + 1] \in ClassMarks

\* A range whose last character is the "[" of a symbol: POSIX takes the symbol
\* for the end of the range.
RangesToClass(comp) ==
    \E i \in 1..(Len(comp) - 2) : /\ comp[i] = "-" /\ comp[i + 1] = "["
                                  /\ comp[i + 2] \in ClassMarks

\* A symlink on the way.
CrossesSymlink(pattern) ==
    \E path \in DOMAIN Node : /\ Node[path] = "symlink" /\ Len(path) < Len(pattern)
                              /\ Matches(pattern, path, TRUE)
=============================================================================
