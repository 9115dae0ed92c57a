----------------------------- MODULE MCEnvFile -----------------------------
(***************************************************************************)
(* EnvFile for TLC: one file written in many ways, a unit with several     *)
(* files, and settings with wildcards.                                     *)
(***************************************************************************)
EXTENDS EnvFile

Default == <<<<"d">>, <<"k">>>>
Sysconfig == <<<<"s">>, <<"k">>>>
Dropin == <<<<"d">>, <<"x">>>>

Ranked == <<"!", "*", "-", ".", "/", ":", "=", "?", "[", Escape, "]", "^",
            "a", "b", "d", "k", "s", "x">>

NodeFiles ==
    (<<<<"d">>>> :> "dir") @@ (<<<<"s">>>> :> "dir") @@ (<<<<"a", "b">>>> :> "dir")
    @@ (<<<<"[", "a">>>> :> "file") @@ (<<<<".", "a">>>> :> "file")
    @@ (Default :> "file") @@ (Sysconfig :> "file") @@ (Dropin :> "file")
    @@ (<<<<"a", "b">>, <<"a">>>> :> "file") @@ (<<<<"a", "b">>, <<"b", "a">>>> :> "file")
    @@ (<<<<"b">>>> :> "symlink") @@ (<<<<"-">>>> :> "file") @@ (<<<<"]", "a">>>> :> "file")

Ref(path, optional) == [path |-> path, optional |-> optional]
Unit(refs, sets) == [refs |-> refs, sets |-> sets]
Left(p, r, c) == [pieces |-> p, refs |-> r, characters |-> c]

K == extraArgsKey
Operators == <<K, " ", "=", "a">>
Appended == <<K, "=", DQ, flagBinDir, "=", "b", SP, flagConfigFile, "=", "b", DQ>>

Written == {<<NL>>, <<SP>>, <<"#">>, <<BS>>, <<DQ>>, <<"a">>, <<"a", "=">>, <<K>>, <<"=">>,
            <<flagBinDir>>}

Start1 == {<<>>, Operators \o <<NL>> \o Appended, <<"#", "a", BS, NL>>,
           <<K, "=">>, <<"a", "=", SQ, K, "=", NL, SQ>>}

Writing == {[files |-> (Default :> Text(c)), unit |-> Unit(<<Ref(Default, TRUE)>>, FALSE),
             left |-> Left(IF c = <<>> THEN 4 ELSE 3, 0, <<>>), begun |-> <<>>] : c \in Start1}

Contents == {NoFile, Directory, Text(<<"a", "=", "b", NL>>), Text(<<K, "=", "a">>),
             Text(<<K, "=", "b", NL, NUL>>), Text(<<K, "=", "b", BadByte>>),
             Text(<<K, "=", "b", CR, "a", "=", "b">>), Text(<<K, "=", "b", CR, NL>>)}

Units == {[files |-> (Default :> d) @@ (Sysconfig :> s) @@ (Dropin :> x),
           unit |-> Unit(<<>>, e), left |-> Left(0, 2, <<>>), begun |-> <<>>] :
             d, x \in Contents, s \in {NoFile, Text(<<K, "=", "x">>)}, e \in BOOLEAN}

AllRefs == {Ref(p, o) : p \in {Default, Dropin, <<<<"s">>, <<"k">>>>, <<<<"?">>, <<"k">>>>, <<<<"d">>, <<"*">>>>},
                        o \in BOOLEAN}

\* Settings: every one of up to four characters; bracket expressions with
\* ranges, escapes and negation; and bracket expressions with a class or a symbol.
Chars == {"a", "b", ".", "*", "?", "[", "]", "-", "!", "^", ":", "=", "/", Escape}
InBrackets == {"a", "d", "]", "-", "^", "[", Escape}

Setting1(begun, next) ==
    [files |-> (Default :> NoFile), unit |-> Unit(<<>>, FALSE),
     left |-> Left(0, 0, next), begun |-> begun]

Patterns ==
    {Setting1(<<>>, <<Chars, Chars, Chars, Chars>>),
     Setting1(<<"[">>, <<InBrackets, InBrackets, InBrackets, InBrackets, {"]", "a", Escape}>>),
     Setting1(<<"[", "!">>, <<InBrackets, InBrackets, InBrackets, {"]", "-"}, {"a", "]", "*"}>>),
     Setting1(<<"[">>, <<{"[", "a"}, ClassMarks \cup {"["}, {"a", "."}, ClassMarks, {"]"}, {"]", "-"},
                         {"a", "]"}>>)}

AllScenes == Writing \cup Units \cup Patterns
Operator2 == <<Default, Sysconfig>>
=============================================================================
