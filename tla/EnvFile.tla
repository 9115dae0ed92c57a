------------------------------ MODULE EnvFile ------------------------------
(***************************************************************************)
(* Putting kubelet's flags into its environment file                       *)
(* (installer/defaultkubelet.go, and the choice of the file in             *)
(* installer/envfile.go).  The functions are pure; the environment writes  *)
(* one file of the kubelet unit, a piece at a time, and lists files in the *)
(* unit, and the properties compare what systemd and kubelet make of the   *)
(* files before and after the installer.                                   *)
(*                                                                         *)
(* A text is a sequence of symbols: the characters that systemd's parser   *)
(* tells apart, and whole words where it does not.                         *)
(***************************************************************************)
EXTENDS Glob, TLC

CONSTANTS
    kubeletEnvFiles,  \* the paths of the operator's files
    Scenes,           \* the files and the unit to begin with
    Pieces,           \* what is appended to the first operator file
    Refs              \* the settings added to the unit

NL == "\n"
CR == "\r"
SP == " "
BS == "\\"
DQ == "\""
SQ == "'"
NUL == "NUL"                  \* a NUL byte
BadByte == "BAD"              \* a byte that is not valid UTF-8
extraArgsKey == "KUBELET_EXTRA_ARGS"
flagBinDir == "--image-credential-provider-bin-dir"
flagConfigFile == "--image-credential-provider-config"
binDir == "DIR"
configFile == "CONFIG"

envWhitespace == {SP, NL, CR}
envNewline == {NL, CR}
envComments == {"#"}
envShellNeedEscape == {DQ, BS, "$"}

ours == <<<<flagBinDir, "=", binDir>>, <<flagConfigFile, "=", configFile>>>>

-----------------------------------------------------------------------------
(* Texts.                                                                  *)

Has(text, symbols) == ToSet(text) \cap symbols # {}

\* The pieces of text between symbols of sep, empty ones included.
RECURSIVE Split(_, _)
Split(text, sep) ==
    LET at == {i \in DOMAIN text : text[i] \in sep}
    IN IF at = {} THEN <<text>>
       ELSE <<SubSeq(text, 1, Min(at) - 1)>> \o Split(SubSeq(text, Min(at) + 1, Len(text)), sep)

RECURSIVE Join(_, _)
Join(texts, sep) ==
    IF Len(texts) < 2 THEN FlattenSeq(texts)
    ELSE Head(texts) \o <<sep>> \o Join(Tail(texts), sep)

\* The places of text that are not white space.
Solid(text) == {i \in DOMAIN text : text[i] \notin envWhitespace}
TrimLeft(text) ==
    IF Solid(text) = {} THEN <<>> ELSE SubSeq(text, Min(Solid(text)), Len(text))
Trim(text) ==
    IF Solid(text) = {} THEN <<>> ELSE SubSeq(text, Min(Solid(text)), Max(Solid(text)))

splitArgs(val) == SelectSeq(Split(val, envWhitespace), LAMBDA w : w # <<>>)

-----------------------------------------------------------------------------
(* parseEnvFile, the port of systemd's parser.                             *)

\* commentEndsInBackslash; line without its line break
commentEndsInBackslash(line) ==
    LET body == IF line # <<>> /\ Last(line) = CR THEN Front(line) ELSE line
        text == TrimLeft(body)
    IN text # <<>> /\ Head(text) \in envComments /\ Last(body) = BS

\* The parser's variables; text is the line it is in.
Start == [state |-> "preKey", key |-> <<>>, value |-> <<>>, lastKeyWS |-> -1,
          lastValueWS |-> -1, line |-> 1, first |-> 1, continuedComment |-> FALSE,
          startsContinued |-> FALSE, text |-> <<>>, out |-> <<>>]

Cut(text, n) == IF n >= 0 THEN SubSeq(text, 1, n) ELSE text

push(p) ==
    LET a == [key |-> Cut(p.key, p.lastKeyWS), value |-> p.value, first |-> p.first,
              last |-> p.line, afterContinuedComment |-> p.startsContinued]
    IN [p EXCEPT !.state = "preKey", !.key = <<>>, !.value = <<>>, !.out = Append(@, a)]

pushTrimmed(p) == push([p EXCEPT !.value = Cut(@, p.lastValueWS)])

\* Where the white space at the end of a key or value of length n begins.
ws(old, n, c) == IF c \notin envWhitespace THEN -1 ELSE IF old < 0 THEN n ELSE old

add(p, c) == [p EXCEPT !.value = Append(@, c)]

PreKey(p, c) ==
    CASE c \in envComments -> [p EXCEPT !.state = "comment"]
      [] c \in envWhitespace -> p
      [] OTHER -> [p EXCEPT !.state = "key", !.lastKeyWS = -1, !.first = p.line,
                            !.startsContinued = p.continuedComment, !.key = <<c>>]

InKey(p, c) ==
    CASE c \in envNewline -> [p EXCEPT !.state = "preKey", !.key = <<>>]
      [] c = "=" -> [p EXCEPT !.state = "preValue", !.lastValueWS = -1]
      [] OTHER -> [p EXCEPT !.lastKeyWS = ws(@, Len(p.key), c), !.key = Append(@, c)]

PreValue(p, c) ==
    CASE c \in envNewline -> push(p)
      [] c = SQ -> [p EXCEPT !.state = "singleQuote"]
      [] c = DQ -> [p EXCEPT !.state = "doubleQuote"]
      [] c = BS -> [p EXCEPT !.state = "valueEscape"]
      [] c = SP -> p
      [] OTHER -> [add(p, c) EXCEPT !.state = "value"]

InValue(p, c) ==
    CASE c \in envNewline -> pushTrimmed(p)
      [] c = BS -> [p EXCEPT !.state = "valueEscape", !.lastValueWS = -1]
      [] OTHER -> [add(p, c) EXCEPT !.lastValueWS = ws(@, Len(p.value), c)]

ValueEscape(p, c) ==
    [(IF c \in envNewline THEN p ELSE add(p, c)) EXCEPT !.state = "value"]

SingleQuote(p, c) == IF c = SQ THEN [p EXCEPT !.state = "preValue"] ELSE add(p, c)

DoubleQuote(p, c) ==
    CASE c = DQ -> [p EXCEPT !.state = "preValue"]
      [] c = BS -> [p EXCEPT !.state = "doubleQuoteEscape"]
      [] OTHER -> add(p, c)

DoubleQuoteEscape(p, c) ==
    [(CASE c \in envShellNeedEscape -> add(p, c)
        [] c = NL -> p
        [] OTHER -> add(add(p, BS), c)) EXCEPT !.state = "doubleQuote"]

Comment(p, c) ==
    CASE c = BS -> [p EXCEPT !.state = "commentEscape"]
      [] c \in envNewline -> [p EXCEPT !.state = "preKey"]
      [] OTHER -> p

\* continued: systemd before v254 (external), where the comment goes on.
CommentEscape(p, c, continued) ==
    [p EXCEPT !.state = IF c \in envNewline /\ ~continued THEN "preKey" ELSE "comment"]

parseStep(p, c, continued) ==
    CASE p.state = "preKey" -> PreKey(p, c)
      [] p.state = "key" -> InKey(p, c)
      [] p.state = "preValue" -> PreValue(p, c)
      [] p.state = "value" -> InValue(p, c)
      [] p.state = "valueEscape" -> ValueEscape(p, c)
      [] p.state = "singleQuote" -> SingleQuote(p, c)
      [] p.state = "doubleQuote" -> DoubleQuote(p, c)
      [] p.state = "doubleQuoteEscape" -> DoubleQuoteEscape(p, c)
      [] p.state = "comment" -> Comment(p, c)
      [] p.state = "commentEscape" -> CommentEscape(p, c, continued)

\* The end of a line, in whatever state it leaves the parser.
endLine(p, c) ==
    IF c = NL THEN [p EXCEPT !.continuedComment = p.state = "preKey" /\ commentEndsInBackslash(p.text),
                             !.line = @ + 1, !.text = <<>>]
    ELSE [p EXCEPT !.text = Append(@, c)]

RECURSIVE parseFrom(_, _, _, _)
parseFrom(p, content, i, continued) ==
    IF i > Len(content) THEN p
    ELSE parseFrom(endLine(parseStep(p, content[i], continued), content[i]),
                   content, i + 1, continued)

endOfFile(p) ==
    CASE p.state = "value" -> pushTrimmed(p).out
      [] p.state \in {"preValue", "valueEscape", "singleQuote", "doubleQuote",
                      "doubleQuoteEscape"} -> push(p).out
      [] p.state \in {"preKey", "key", "comment", "commentEscape"} -> p.out

parse(content, continued) == endOfFile(parseFrom(Start, content, 1, continued))

\* A file that systemd does not load: a NUL byte, or a name or value that is
\* not valid UTF-8.
unloadable(content) ==
    NUL \in ToSet(content)
    \/ \E a \in ToSet(parse(content, FALSE)) : Has(a.key \o a.value, {BadByte})

loneCR(content) ==
    \E i \in DOMAIN content : content[i] = CR /\ (i = Len(content) \/ content[i + 1] # NL)

\* parseEnvFile returns an error.
Refused(content) == loneCR(content) \/ unloadable(content)

parseEnvFile(content) == parse(content, FALSE)

-----------------------------------------------------------------------------
(* mergeExtraArgs.                                                         *)

\* The lines of a file, without the empty one after its last line break.
Lines(content) ==
    LET lines == Split(content, {NL})
    IN IF Last(lines) = <<>> THEN Front(lines) ELSE lines

After(text, sep) == SubSeq(text, Min({i \in DOMAIN text : text[i] = sep}) + 1, Len(text))

extraArgs(assignments) == SelectSeq(assignments, LAMBDA a : a.key = <<extraArgsKey>>)

Assignment(args) == <<extraArgsKey, "=", DQ>> \o Join(args, SP) \o <<DQ>>

\* Of two assignments, the second is a line that earlier installers appended:
\* they did not recognise the first, and wrote just the two flags.
appendedByEarlierInstaller(extra, lines) ==
    /\ Len(extra) = 2
    /\ ~IsPrefix(<<extraArgsKey, "=">>, Trim(lines[extra[1].first]))
    /\ extra[2].first = extra[2].last /\ ~extra[2].afterContinuedComment
    /\ LET line == lines[extra[2].first]
           args == Split(SubSeq(line, 4, Len(line) - 1), {SP})
       IN /\ Len(line) >= 4 /\ IsPrefix(<<extraArgsKey, "=", DQ>>, line) /\ Last(line) = DQ
          /\ Len(args) = 2
          /\ IsPrefix(<<flagBinDir, "=">>, args[1]) /\ Len(args[1]) > 2
          /\ IsPrefix(<<flagConfigFile, "=">>, args[2]) /\ Len(args[2]) > 2
          /\ ~Has(args[1] \o args[2], {DQ, SQ, BS, "$"})

unquote(val) ==
    IF Len(val) >= 2 /\ Head(val) \in {DQ, SQ} /\ Last(val) = Head(val)
    THEN SubSeq(val, 2, Len(val) - 1) ELSE val

\* Mutant: the flags of the pass before stay.
stripNothing(args) == args
stripCredentialProviderFlags(args) ==
    FoldLeft(LAMBDA s, a :
                IF s.skipNext THEN [s EXCEPT !.skipNext = FALSE]
                ELSE IF a \in {<<flagBinDir>>, <<flagConfigFile>>}
                     THEN [s EXCEPT !.skipNext = TRUE]
                ELSE IF IsPrefix(<<flagBinDir, "=">>, a) \/ IsPrefix(<<flagConfigFile, "=">>, a)
                     THEN s
                ELSE [s EXCEPT !.out = Append(@, a)],
             [out |-> <<>>, skipNext |-> FALSE], args).out

Sentinel == "HARBOR_BRIDGE_INSTALLER_PROBE"

\* A line appended to content would not be an assignment of its own.
openAtEnd(content) ==
    LET ends == {i \in DOMAIN content : content[i] \notin envNewline}
        probe == content \o (IF content = <<>> \/ Last(content) = NL THEN <<>> ELSE <<NL>>)
                         \o <<Sentinel, "=", "x", NL>>
        found(assignments) ==
            /\ assignments # <<>>
            /\ Last(assignments).key = <<Sentinel>> /\ Last(assignments).value = <<"x">>
    IN \/ ends # {} /\ content[Max(ends)] = BS
       \/ Refused(probe) \/ ~found(parseEnvFile(probe))

NoText == [ok |-> FALSE, text |-> <<>>]

\* The reasons of mergeExtraArgs to leave the file alone.
cannotRewrite(content, lines, extra) ==
    \/ Len(extra) > 1
    \/ \E a \in ToSet(extra) :
          \/ a.first # a.last \/ a.afterContinuedComment
          \/ Has(unquote(Trim(After(lines[a.first], "="))), {DQ, SQ, BS, "$"})
    \/ (extra = <<>> \/ Last(content) # NL) /\ openAtEnd(content)

\* Mutant: the file is written anew, as scripts before this installer did.
mergeExtraArgsAnew(content) ==
    LET merged(all) ==
            IF Len(all) > 1 THEN NoText
            ELSE [ok |-> TRUE,
                  text |-> Assignment(stripCredentialProviderFlags(
                              IF all = <<>> THEN <<>> ELSE splitArgs(all[1].value)) \o ours)
                           \o <<NL>>]
    IN IF Refused(content) THEN NoText ELSE merged(extraArgs(parseEnvFile(content)))
mergeExtraArgs(content) ==
    LET rewritten(line) ==
            stripCredentialProviderFlags(splitArgs(unquote(Trim(After(line, "="))))) \o ours
        edited(lines, extra) ==
            IF extra = <<>> THEN Append(lines, Assignment(ours))
            ELSE [lines EXCEPT ![extra[1].first] = Assignment(rewritten(@))]
        merged(lines, all, appended) ==
            LET extra == IF appended THEN <<all[1]>> ELSE all
                kept(new) == IF appended THEN RemoveAt(new, all[2].first) ELSE new
            IN IF cannotRewrite(content, lines, extra) THEN NoText
               ELSE [ok |-> TRUE, text |-> Join(kept(edited(lines, extra)), NL) \o <<NL>>]
        read(lines, all) == merged(lines, all, appendedByEarlierInstaller(all, lines))
    IN IF Refused(content) THEN NoText
       ELSE read(Lines(content), extraArgs(parseEnvFile(content)))

-----------------------------------------------------------------------------
(* kubeletEnvFile: the file that patch mode edits.                         *)

VARIABLES
    files,    \* the unit's environment files, by path: a text, or why there is none
    unit,     \* its EnvironmentFile= settings, and whether Environment= has the key
    pattern,  \* a setting being written
    left      \* bound: what may still be appended

vars == <<files, unit, pattern, left>>

Text(content) == [kind |-> "text", text |-> content]
NoFile == [kind |-> "missing", text |-> <<>>]
Directory == [kind |-> "dir", text |-> <<>>]

File(f) == IF f \in DOMAIN files THEN files[f] ELSE NoFile

\* systemd passes over the file: a directory, or one that it does not load.
Skipped(file) == \/ file.kind = "dir"
                 \/ file.kind = "text" /\ unloadable(file.text)

\* readEnvFile fails.
unreadable(file, skippable) ==
    \/ ~skippable /\ Skipped(file)
    \/ file.kind = "text" /\ loneCR(file.text) /\ NUL \notin ToSet(file.text)

assigns(file) ==
    /\ file.kind = "text" /\ ~Skipped(file)
    /\ extraArgs(parseEnvFile(file.text)) # <<>>

operator(f) == f \in ToSet(kubeletEnvFiles)

\* The unit's files in systemd's order, each with its setting's "-".
UnitFiles(refs) ==
    LET each(paths, optional) ==
            [j \in DOMAIN paths |-> [path |-> paths[j], optional |-> optional]]
    IN FlattenSeq([i \in DOMAIN refs |->
                     each(expandEnvFile(refs[i].path).paths, refs[i].optional)])

LastOf(seq, P(_)) ==
    LET is == {i \in DOMAIN seq : P(seq[i])}
    IN IF is = {} THEN <<>> ELSE seq[Max(is)].path

NoPath == <<>>

\* Mutant: the operator's file that is listed last, whoever assigns the key.
kubeletEnvFileListed == LastOf(UnitFiles(unit.refs), LAMBDA r : operator(r.path))
\* NoPath: the installer refuses.
kubeletEnvFile ==
    LET chosen(assigning, lastOperator) ==
            IF assigning # NoPath THEN IF operator(assigning) THEN assigning ELSE NoPath
            ELSE IF unit.sets THEN NoPath ELSE lastOperator
        among(all) ==
            IF \E r \in ToSet(all) :
                  unreadable(File(r.path), r.optional /\ ~operator(r.path))
            THEN NoPath
            ELSE chosen(LastOf(all, LAMBDA r : assigns(File(r.path))),
                        LastOf(all, LAMBDA r : operator(r.path)))
    IN IF \E i \in DOMAIN unit.refs : ~expandEnvFile(unit.refs[i].path).ok THEN NoPath
       ELSE among(UnitFiles(unit.refs))

-----------------------------------------------------------------------------

\* The first operator file gets longer.
append(piece) ==
    /\ left.pieces > 0
    /\ files' = [files EXCEPT ![kubeletEnvFiles[1]] = Text(@.text \o piece)]
    /\ left' = [left EXCEPT !.pieces = @ - 1]
    /\ UNCHANGED <<unit, pattern>>

\* A drop-in of the unit adds a setting.
addRef(ref) ==
    /\ left.refs > 0
    /\ unit' = [unit EXCEPT !.refs = Append(@, ref)]
    /\ left' = [left EXCEPT !.refs = @ - 1]
    /\ UNCHANGED <<files, pattern>>

\* A setting gets longer, by a character or by a component; left.characters holds
\* the characters that may come next, one set for each place.
write ==
    /\ left.characters # <<>>
    /\ \E c \in Head(left.characters) :
          pattern' = IF c = "/" THEN Append(pattern, <<>>)
                     ELSE Append(Front(pattern), Append(Last(pattern), c))
    /\ left' = [left EXCEPT !.characters = Tail(@)]
    /\ UNCHANGED <<files, unit>>

Init ==
    \E s \in Scenes :
       /\ files = s.files /\ unit = s.unit /\ left = s.left
       /\ pattern = <<s.begun>>

Next == \/ \E p \in Pieces : append(p)
        \/ \E r \in Refs : addRef(r)
        \/ write

Spec == Init /\ [][Next]_vars

-----------------------------------------------------------------------------
(* What systemd and kubelet make of it (external).                         *)

\* The values of KUBELET_EXTRA_ARGS a file assigns.
Values(file, continued) ==
    IF file.kind # "text" \/ unloadable(file.text) THEN <<>>
    ELSE LET values(extra) == [i \in DOMAIN extra |-> extra[i].value]
         IN values(extraArgs(parse(file.text, continued)))

\* kubelet's arguments: the last assignment of the last file wins.
KubeletArgs(fs, continued) ==
    LET of(path) == IF path \in DOMAIN fs THEN fs[path] ELSE NoFile
        all(refs) == FlattenSeq([i \in DOMAIN refs |-> Values(of(refs[i].path), continued)])
        args(values) == IF values = <<>> THEN <<>> ELSE splitArgs(Last(values))
    IN args(all(UnitFiles(unit.refs)))

\* The other variables of a file.
OtherVariables(content, continued) ==
    LET pairs(others) == [i \in DOMAIN others |-> <<others[i].key, others[i].value>>]
    IN pairs(SelectSeq(parse(content, continued), LAMBDA a : a.key # <<extraArgsKey>>))

\* What kubelet takes the flag to be: its last "--flag=value" or "--flag value".
Setting(args, flag) ==
    LET at == Max({i \in DOMAIN args : args[i][1] = flag})
    IN IF args[at] = <<flag>> THEN args[at + 1] ELSE SubSeq(args[at], 3, Len(args[at]))

\* systemd before v254 continues a comment that ends in a backslash.  A line it
\* swallows that opens a quote or is continued itself is out of what the
\* installer looks at.
PlainComments(content) ==
    LET lines == Split(content, {NL})
    IN \A i \in 1..(Len(lines) - 1) :
          commentEndsInBackslash(lines[i]) => ~Has(lines[i + 1], {DQ, SQ, BS})

Systemds(content) == IF PlainComments(content) THEN BOOLEAN ELSE {FALSE}

\* P holds of the file that is patched, its text before and its text after.
Patched(P(_, _, _)) ==
    LET edit(f, old, new) == new.ok => P(f, old, new.text)
        of(f) == f # NoPath => edit(f, File(f).text, mergeExtraArgs(File(f).text))
    IN of(kubeletEnvFile)

-----------------------------------------------------------------------------

\* Where the installer edits a file, kubelet gets, from a systemd of either
\* kind, exactly the operator's arguments without the two flags, and then ours:
\* the file edited is the one that counts, and no other assignment, comment or
\* open quote takes the edit away.  The operator's arguments are those kubelet
\* had; where an earlier installer appended an assignment, the ones it hid.
FlagsArrive ==
    Patched(LAMBDA f, old, new :
      \A continued \in Systemds(old) :
         LET operators(extra) ==
                 IF appendedByEarlierInstaller(extra, Lines(old))
                 THEN splitArgs(extra[1].value) ELSE KubeletArgs(files, continued)
             arrived(args) ==
                 /\ args = stripCredentialProviderFlags(operators(extraArgs(parse(old, FALSE))))
                              \o ours
                 /\ Setting(args, flagBinDir) = <<binDir>>
                 /\ Setting(args, flagConfigFile) = <<configFile>>
         IN arrived(KubeletArgs((f :> Text(new)) @@ files, continued)))

\* The edit leaves every other variable of the file as systemd read it.
OthersKept ==
    Patched(LAMBDA f, old, new :
      \A continued \in Systemds(old) :
         OtherVariables(new, continued) = OtherVariables(old, continued))

\* The next pass finds nothing to do: the edited file is accepted, and patching
\* it again gives the same text, or kubelet would be restarted on every pass.
MergedOnce ==
    Patched(LAMBDA f, old, new : mergeExtraArgs(new) = [ok |-> TRUE, text |-> new])

\* Whatever the pattern, the files found are the ones glob(3) finds, whatever
\* a character class, an equivalence class or a collating symbol in it matches;
\* and the setting is refused only for one of these or for a symlink to follow
\* (expandEnvFile, globMatch, globBracket).  One file too few and the edit goes
\* to a file that a later one overrides.  Left out are ranges that end in a
\* collating symbol, as in [a-[.b.]]: the comment of globMatch says that they
\* are an error, and globBracket takes the "[" for the end of the range.
ExpandsAsGlob ==
    LET agrees(found) ==
            IF found.ok
            THEN \A verdict \in BOOLEAN :
                    ToSet(found.paths) \cap DOMAIN Node = GlobPaths(pattern, verdict)
            ELSE CrossesSymlink(pattern) \/ \E i \in DOMAIN pattern : OpensClass(pattern[i])
    IN (\A i \in DOMAIN pattern : ~RangesToClass(pattern[i])) => agrees(expandEnvFile(pattern))
=============================================================================
