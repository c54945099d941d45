------------------------------- MODULE MCParts -------------------------------
(* The components that are checked side by side: each is a machine of its    *)
(* own, and a behaviour is one of the machine that `part` names.             *)
EXTENDS Framing, ByteTransfer, FileLinks, Windows, Unfinished, Hooks, InputLine,
        Prompts, Alist, Aliases, Control, Expressions, Arrays, Browses, Keys,
        Patterns, Texts, Display, Wrap, Attributes, Community, Settings, StatusLine,
        Loading, Completion

VARIABLE part

MCFileSizes == {<<3, 3>>, <<2, 3>>, <<4, 3>>}
MCOffsets == {-2, 1}
MCMatch == <<2, 1>>
MCNames == {<<1>>, <<1, 2>>, <<1, 2, 1>>, <<1, 2, 2>>, <<2>>, <<2, 1>>, <<2, 1, 2>>}
MCAbbreviates == [n \in AliasNames |-> IF n = "a" THEN {"a", "ab"} ELSE {"ab"}]
MCDefaults == (<<0, 1>> :> -1) @@ (<<1, 2>> :> 2)
MCSequences == {<<2>>, <<2, 1>>, <<1, 3, 1>>}
MCVocabulary == {<<"x">>, <<"x", "y">>, <<"q", "x", "_", "y", "q">>}
MCAbsent == <<"y">>
MCTextChars == {120, -23, 91, 93, 92, 44}

\* Lines wrapped: a window of 9 columns where lines are indented, one of 4 for the rest
Setting(c, k, i, l, a, n) ==
    [cols |-> c, cont |-> k, indent |-> i, limit |-> l, letters |-> a, size |-> n]
WrapSettings ==
    {Setting(9, k, TRUE, 1, {"x", "_"}, 11) : k \in {0, 1}}
    \cup {Setting(4, k, i, 1, {"x", "_", ",", "newline"}, 6) : k \in {0, 1}, i \in BOOLEAN}
    \cup {Setting(4, 1, FALSE, l, {"x", "_", "tab", "bell", "nd", "rev"}, 4) : l \in {0, 1}}

\* Texts with attributes: what stands behind a ^C, and characters behind a code
ColorCodes == {<<>>, <<4>>, <<0, 7>>, <<4, 10, 2>>, <<10, 8>>, <<3, 1>>, <<5, 2>>, <<12>>}
BehindCodes == {<<11>>, <<1>>, <<10, 11>>}
MCVisits == {<<1, "a">>}
MCSources == {<<"a", "MSGS", 0>>, <<"a", "PUBLIC", 1>>, <<"b", "PUBLIC", 1>>}

\* Words typed for a setting that is a list of flags
MCLists == {<<"null">>, <<"a">>, <<"-a", "b">>, <<"ALL">>, <<"-ESCAPE", "ESCAPE">>}

\* Status lines: what a format is put together from, and what there is to show
FillMark == <<"%", ">">>
FormatParts == {<<"x">>, <<"%", "S">>, <<"%", "{", "2", "}", "S">>, <<"%", "C">>, FillMark, <<"tab">>,
           <<"%", "%">>, <<"%", "{", "1", "}", "F">>, <<"%", "?">>}
FormatPairs == {<<"x">>, <<"%", "S">>, FillMark, <<"tab">>, <<"%", "%">>}
FormatSides == {<<"x">>, <<"%", "{", "2", "}", "S">>, <<"%", "C">>, <<"tab">>, <<"%", "{", "1", "}", "F">>}
MCFormat1 ==
    {<<>>} \cup FormatParts \cup {p \o q : p, q \in FormatPairs} \cup {p \o FillMark \o q : p, q \in FormatSides}
    \cup {<<"%", "{", "x">>, <<"%", "I", "%", "O", "%", ">", "%", "W">>,
          <<"%", "Q", "%", "T", "%", "N">>, <<"%", "B", "%", "H">>,
          <<"%", "R", "%", "{", "1", "}", "K">>, <<"%", "U", "%", "{", "2", "}", "U">>,
          <<"%", "s", "%", "d">>}
MCFormat2 == {<<>>, <<"%", "R", "%", ">", "%", "F">>}
QuietLine ==
    [start |-> TRUE, server |-> <<"irc", ".", "a", "b", ".", "n">>,
     channel |-> [name |-> <<"c", "h">>, width |-> 1, format |-> <<"(", "%", "C", ")">>],
     notified |-> <<>>, query |-> <<>>, nick |-> <<"m">>, clock |-> <<"1", ":", "2">>,
     held |-> 0, interval |-> 2, insert |-> TRUE, visible_windows |-> 1, current |-> TRUE,
     refnum |-> "1", scrolled |-> <<>>, stats |-> <<>>, transfers |-> <<>>]
FullLine ==
    [QuietLine EXCEPT !.start = FALSE, !.server = <<"n", ".", "b">>, !.query = <<"q">>,
        !.channel = [name |-> <<"c", "h">>, width |-> 0, format |-> <<"%", "%", "C">>],
        !.notified = <<[refnum |-> "2", name |-> "w"], [refnum |-> "3", name |-> ""]>>,
        !.held = 5, !.insert = FALSE, !.scrolled = <<"4">>, !.stats = <<"9", "k">>,
        !.transfers = <<[up |-> TRUE, size |-> 4, done |-> 2],
                        [up |-> FALSE, size |-> 0, done |-> 0],
                        [up |-> FALSE, size |-> 4, done |-> 1]>>]
OtherLine ==
    [FullLine EXCEPT !.server = <<>>, !.channel.name = <<>>, !.visible_windows = 2,
        !.current = FALSE, !.interval = 0, !.clock = <<>>]
MCSituations == {QuietLine, FullLine, OtherLine}
DisplayOf(f, p, a, r) == [full |-> f, plain |-> p, all |-> a, reverse |-> r]
MCDisplays == {DisplayOf(TRUE, FALSE, FALSE, FALSE), DisplayOf(FALSE, FALSE, TRUE, TRUE),
               DisplayOf(TRUE, TRUE, FALSE, FALSE)}

\* Files of commands: what may be where, texts of three to five lines, names, and files that
\* load each other, wait and set DISPLAY
FilePlace(d, s) == [dir |-> d, name |-> "f", suffix |-> s]
FilePlaces == {FilePlace(d, s) : d \in {"d1", "d2"}, s \in Range(FileSuffixes)}
FileDisks ==
    {p :> k : p \in FilePlaces, k \in {"plain", "directory", "executable"}}
    \cup {(p :> k) @@ (q :> "plain") : p, q \in FilePlaces, k \in {"plain", "directory"}}
MCFileCases ==
    [typed : {FilePlace(d, "") : d \in {"", "d2", "~", "~nobody"}}, disk : FileDisks,
     tools : {{}, {"gunzip", "bunzip2"}, {"uncompress"}}, forks : {TRUE}]
    \cup [typed : {FilePlace("", "")}, disk : {p :> "plain" : p \in FilePlaces},
          tools : {{"gunzip", "bunzip2"}}, forks : {FALSE}]
    \cup [typed : {FilePlace("", ".Z")}, tools : {{}, {"gunzip"}, {"uncompress"}}, forks : BOOLEAN,
          disk : {FilePlace(d, ".Z") :> "plain" : d \in {"d1", "d2"}}]
LinesWith(x) ==
    {<<x>>, <<"_", x, ";">>, <<x, ";", x>>, <<x, "_", "{">>, <<"{", x>>, <<"}">>, <<x, "}">>,
     <<"}", "_", x>>, <<"/", "*", "k">>, <<"k", "*", "/">>, <<"/", "*", "k", "{", "*", "/">>,
     <<"#", "k">>, <<x, "\\">>, <<x, "/", x>>, <<x, "/">>, <<x, "\\", "{">>}
MCTexts ==
    {<<p, q, r>> : p \in LinesWith("a"), q \in LinesWith("b"), r \in LinesWith("c")}
    \cup {<<<<"a", "{">>, p, q, <<"}">>, <<"d">>>> : p \in LinesWith("b"), q \in LinesWith("c")}
MCCommandNames == {<<"a">>, <<"a", "b">>, <<"a", "c">>}
MCNameCases ==
    {c \in [line : {pre \o n : pre \in {<<>>, <<"/">>, <<"/", "/">>, <<"/", "^">>, <<"^", "/">>,
                                    <<"/", "/", "/">>, <<"'">>}, n \in {<<"a">>, <<"a", "b">>}},
            hist : BOOLEAN, command_mode : BOOLEAN, aliases : SUBSET MCCommandNames,
            commands : SUBSET MCCommandNames, nick : {<<"a">>}] :
        Cardinality(c.commands) = 1 => c.aliases \subseteq c.commands}
MCOrders == [o \in {"1", "2"} |-> IF o = "1" THEN <<"f">> ELSE <<"g", "none", "f">>]
DiskOf(f, g) == [n \in {"f", "g"} |-> IF n = "f" THEN f ELSE g]
MCDisks ==
    {DiskOf(<<<<"wait">>, <<"on">>>>, <<<<"load", "1">>, <<"off">>, <<"x", ";">>>>),
     DiskOf(<<<<"off">>, <<"load", "2">>, <<"later">>>>, <<<<"load", "1">>, <<"^", "wait">>>>),
     DiskOf(<<<<"^", "on">>, <<"x", "{">>>>,
            <<<<"x">>, <<"/", "*">>, <<"off", "*", "/">>, <<"later">>>>)}
MCStartDisks == {DiskOf(<<<<"x", "/">>, <<"wait">>>>, <<<<"load", "1">>, <<"later">>>>)}
MCTypedLines ==
    {<<"load", "1">>, <<"^", "load", "2">>, <<"on">>, <<"off">>, <<"^", "wait">>, <<"later">>}

\* What the key that completes may find: nicks, channels, files, servers, commands and
\* aliases; and what is typed when it is pressed
WorldOf(rooms, window, aliases) ==
    [rooms |-> rooms, channels |-> <<<<"r", "1">>, <<"r", "2">>>>, at |-> window, aliases |-> aliases,
     files |-> <<<<"/", "h", "/", "d", "/">>, <<"/", "h", "/", "d", "/", "x">>,
                 <<"/", "h", "/", "f", "1">>, <<"/", "h", "/", "f", "2">>,
                 <<"/", "h", "/", "g", "_", "g">>, <<"/", "h", "/", "t", "/">>,
                 <<"/", "u", "/", "g">>>>,
     homes |-> <<<<"~", "j", "o">>, <<"~", "j", "i">>, <<"~", "k">>>>,
     servers |-> <<<<"i", "1">>, <<"k">>>>,
     commands |-> {<<"m">>, <<"w", "h">>, <<"w", "o">>}]
MCWorlds ==
    {WorldOf(<<<<<<"b", "o">>, <<"c">>>>, <<<<"a", "l">>, <<"b", "i">>>>>>, 1, {}),
     WorldOf(<<<<<<"A", "l">>, <<"c">>>>, <<<<"b", "b", "1">>, <<"b", "b", "2">>, <<"b", "b", "3">>>>>>, 1,
          {<<"w", "h">>, <<"z">>}),
     WorldOf(<<<<>>, <<>>>>, 0, {<<"w", "h", "y">>})}
MCTypedTexts ==
    {<<>>, <<"b">>, <<"a">>, <<"c">>, <<"/", "w">>, <<"/", "w", "h">>, <<"/", "z">>, <<"/">>,
     <<"/", "/", "w", "h">>}
    \cup {<<"/", "m", "_">> \o x : x \in {<<>>, <<"b">>, <<"a">>, <<"#", "r">>}}
    \cup {<<"h", "_">> \o x : x \in {<<"b">>, <<"c", "_", "b">>, <<"A">>, <<"c", "_">>}}
    \cup {<<"/", "s", "_">> \o x : x \in {<<>>, <<"i">>, <<"z">>}}
    \cup {<<"/", "l", "_">> \o x : x \in {<<>>, <<"f">>}}
    \cup {<<"/", "x", "_">> \o x : x \in {<<>>, <<"/", "u">>, <<"~", "j">>}}
    \cup {<<"/", "f", "_">> \o x : x \in {<<"~", "k">>, <<"~", "/", "f">>, <<"~", "/">>,
                                     <<"\"", "g", "_", "\"">>}}
    \cup {<<"/", "d", "_">> \o x : x \in {<<>>, <<"b">>, <<"b", "_", "f">>}}
MCCorrespondents == {<<"a", "l">>, <<"b", "o">>, <<"b", "b">>}

\* A machine that does not run has one initial state.
Settled == <<"other", 3, 3>>
PlainStream == [k \in 1 .. NMessages |-> 1]
Plain == [op |-> "!", l |-> [op |-> "!", l |-> Num(2)]]

PartsInit ==
    /\ part \in {"framing", "bytes", "file links", "windows", "unfinished", "hooks", "input line",
                "prompts", "sorted list", "aliases", "control", "expressions",
                "arrays", "browses", "keys", "words", "patterns", "texts",
                "display", "wrap", "attributes", "community", "settings",
                "status line", "loading", "completion"}
    /\ FramingInit /\ (part # "framing" => stream = PlainStream)
    /\ ByteTransferInit /\ (part # "bytes" => <<seeker, expected, actual>> = Settled)
    /\ FileLinksInit
    /\ WindowsInit
    /\ UnfinishedInit
    /\ HooksInit
    /\ InputLineInit /\ (part # "input line" => can)
    /\ PromptsInit /\ (part # "prompts" => circleq /\ history_var = 1)
    /\ AlistInit
    /\ AliasesInit
    /\ ControlInit
    /\ ExpressionsInit /\ (part # "expressions" => expression = Plain /\ before["y"] = 0)
    /\ ArraysInit
    /\ BrowsesInit /\ (part # "browses" => shares.dataport /\ shares.willing)
    /\ KeysInit
    /\ WordsInit
    /\ PatternsInit
    /\ TextsInit
    /\ DisplayInit
    /\ WrapInit
    /\ AttributesInit
    /\ CommunityInit
    /\ SettingsInit
    /\ StatusLineInit
    /\ LoadingInit
    /\ CompletionInit

partsVars == <<part, framingVars, byteVars, fileVars, layout, unfinishedVars, hookVars,
               inputVars, promptVars, alistVars, aliasVars, controlVars,
               expressionVars, arrayVars, browseVars, keyVars, wordVars,
               patternVars, textVars, displayVars, wrapVars, attributeVars,
               communityVars, settingVars, statusVars, loadVars, tabVars>>

PartsNext ==
    \/ /\ part = "framing" /\ FramingNext
       /\ UNCHANGED <<part, byteVars, fileVars, layout, unfinishedVars, hookVars, inputVars,
                      promptVars, alistVars, aliasVars, controlVars,
                      expressionVars, arrayVars, browseVars, keyVars,
                      wordVars, patternVars, textVars, displayVars,
                      wrapVars, attributeVars, communityVars, settingVars,
                      statusVars, loadVars, tabVars>>
    \/ /\ part = "bytes" /\ ByteTransferNext
       /\ UNCHANGED <<part, framingVars, fileVars, layout, unfinishedVars, hookVars,
                      inputVars, promptVars, alistVars, aliasVars,
                      controlVars, expressionVars, arrayVars, browseVars,
                      keyVars, wordVars, patternVars, textVars,
                      displayVars, wrapVars, attributeVars, communityVars,
                      settingVars, statusVars, loadVars, tabVars>>
    \/ /\ part = "file links" /\ FileLinksNext
       /\ UNCHANGED <<part, framingVars, byteVars, layout, unfinishedVars, hookVars,
                      inputVars, promptVars, alistVars, aliasVars,
                      controlVars, expressionVars, arrayVars, browseVars,
                      keyVars, wordVars, patternVars, textVars,
                      displayVars, wrapVars, attributeVars, communityVars,
                      settingVars, statusVars, loadVars, tabVars>>
    \/ /\ part = "windows" /\ WindowsNext
       /\ UNCHANGED <<part, framingVars, byteVars, fileVars, unfinishedVars, hookVars,
                      inputVars, promptVars, alistVars, aliasVars,
                      controlVars, expressionVars, arrayVars, browseVars,
                      keyVars, wordVars, patternVars, textVars,
                      displayVars, wrapVars, attributeVars, communityVars,
                      settingVars, statusVars, loadVars, tabVars>>
    \/ /\ part = "unfinished" /\ UnfinishedNext
       /\ UNCHANGED <<part, framingVars, byteVars, fileVars, layout, hookVars, inputVars,
                      promptVars, alistVars, aliasVars, controlVars,
                      expressionVars, arrayVars, browseVars, keyVars,
                      wordVars, patternVars, textVars, displayVars,
                      wrapVars, attributeVars, communityVars, settingVars,
                      statusVars, loadVars, tabVars>>
    \/ /\ part = "hooks" /\ HooksNext
       /\ UNCHANGED <<part, framingVars, byteVars, fileVars, layout, unfinishedVars,
                      inputVars, promptVars, alistVars, aliasVars,
                      controlVars, expressionVars, arrayVars, browseVars,
                      keyVars, wordVars, patternVars, textVars,
                      displayVars, wrapVars, attributeVars, communityVars,
                      settingVars, statusVars, loadVars, tabVars>>
    \/ /\ part = "input line" /\ InputLineNext
       /\ UNCHANGED <<part, framingVars, byteVars, fileVars, layout, unfinishedVars, hookVars,
                      promptVars, alistVars, aliasVars, controlVars,
                      expressionVars, arrayVars, browseVars, keyVars,
                      wordVars, patternVars, textVars, displayVars,
                      wrapVars, attributeVars, communityVars, settingVars,
                      statusVars, loadVars, tabVars>>
    \/ /\ part = "prompts" /\ PromptsNext
       /\ UNCHANGED <<part, framingVars, byteVars, fileVars, layout, unfinishedVars, hookVars,
                      inputVars, alistVars, aliasVars, controlVars,
                      expressionVars, arrayVars, browseVars, keyVars,
                      wordVars, patternVars, textVars, displayVars,
                      wrapVars, attributeVars, communityVars, settingVars,
                      statusVars, loadVars, tabVars>>
    \/ /\ part = "sorted list" /\ AlistNext
       /\ UNCHANGED <<part, framingVars, byteVars, fileVars, layout, unfinishedVars, hookVars,
                      inputVars, promptVars, aliasVars, controlVars,
                      expressionVars, arrayVars, browseVars, keyVars,
                      wordVars, patternVars, textVars, displayVars,
                      wrapVars, attributeVars, communityVars, settingVars,
                      statusVars, loadVars, tabVars>>
    \/ /\ part = "aliases" /\ AliasesNext
       /\ UNCHANGED <<part, framingVars, byteVars, fileVars, layout, unfinishedVars, hookVars,
                      inputVars, promptVars, alistVars, controlVars,
                      expressionVars, arrayVars, browseVars, keyVars,
                      wordVars, patternVars, textVars, displayVars,
                      wrapVars, attributeVars, communityVars, settingVars,
                      statusVars, loadVars, tabVars>>
    \/ /\ part = "control" /\ ControlNext
       /\ UNCHANGED <<part, framingVars, byteVars, fileVars, layout, unfinishedVars, hookVars,
                      inputVars, promptVars, alistVars, aliasVars,
                      expressionVars, arrayVars, browseVars, keyVars,
                      wordVars, patternVars, textVars, displayVars,
                      wrapVars, attributeVars, communityVars, settingVars,
                      statusVars, loadVars, tabVars>>
    \/ /\ part = "expressions" /\ ExpressionsNext
       /\ UNCHANGED <<part, framingVars, byteVars, fileVars, layout, unfinishedVars, hookVars,
                      inputVars, promptVars, alistVars, aliasVars,
                      controlVars, arrayVars, browseVars, keyVars,
                      wordVars, patternVars, textVars, displayVars,
                      wrapVars, attributeVars, communityVars, settingVars,
                      statusVars, loadVars, tabVars>>
    \/ /\ part = "arrays" /\ ArraysNext
       /\ UNCHANGED <<part, framingVars, byteVars, fileVars, layout, unfinishedVars, hookVars,
                      inputVars, promptVars, alistVars, aliasVars,
                      controlVars, expressionVars, browseVars, keyVars,
                      wordVars, patternVars, textVars, displayVars,
                      wrapVars, attributeVars, communityVars, settingVars,
                      statusVars, loadVars, tabVars>>
    \/ /\ part = "browses" /\ BrowsesNext
       /\ UNCHANGED <<part, framingVars, byteVars, fileVars, layout, unfinishedVars, hookVars,
                      inputVars, promptVars, alistVars, aliasVars,
                      controlVars, expressionVars, arrayVars, keyVars,
                      wordVars, patternVars, textVars, displayVars,
                      wrapVars, attributeVars, communityVars, settingVars,
                      statusVars, loadVars, tabVars>>
    \/ /\ part = "keys" /\ KeysNext
       /\ UNCHANGED <<part, framingVars, byteVars, fileVars, layout, unfinishedVars, hookVars,
                      inputVars, promptVars, alistVars, aliasVars,
                      controlVars, expressionVars, arrayVars, browseVars,
                      wordVars, patternVars, textVars, displayVars,
                      wrapVars, attributeVars, communityVars, settingVars,
                      statusVars, loadVars, tabVars>>
    \/ /\ part = "words" /\ WordsNext
       /\ UNCHANGED <<part, framingVars, byteVars, fileVars, layout, unfinishedVars, hookVars,
                      inputVars, promptVars, alistVars, aliasVars,
                      controlVars, expressionVars, arrayVars, browseVars,
                      keyVars, patternVars, textVars, displayVars,
                      wrapVars, attributeVars, communityVars, settingVars,
                      statusVars, loadVars, tabVars>>
    \/ /\ part = "patterns" /\ PatternsNext
       /\ UNCHANGED <<part, framingVars, byteVars, fileVars, layout, unfinishedVars, hookVars,
                      inputVars, promptVars, alistVars, aliasVars,
                      controlVars, expressionVars, arrayVars, browseVars,
                      keyVars, wordVars, textVars, displayVars, wrapVars,
                      attributeVars, communityVars, settingVars,
                      statusVars, loadVars, tabVars>>
    \/ /\ part = "texts" /\ TextsNext
       /\ UNCHANGED <<part, framingVars, byteVars, fileVars, layout, unfinishedVars, hookVars,
                      inputVars, promptVars, alistVars, aliasVars,
                      controlVars, expressionVars, arrayVars, browseVars,
                      keyVars, wordVars, patternVars, displayVars,
                      wrapVars, attributeVars, communityVars, settingVars,
                      statusVars, loadVars, tabVars>>
    \/ /\ part = "display" /\ DisplayNext
       /\ UNCHANGED <<part, framingVars, byteVars, fileVars, layout, unfinishedVars, hookVars,
                      inputVars, promptVars, alistVars, aliasVars,
                      controlVars, expressionVars, arrayVars, browseVars,
                      keyVars, wordVars, patternVars, textVars, wrapVars,
                      attributeVars, communityVars, settingVars,
                      statusVars, loadVars, tabVars>>
    \/ /\ part = "wrap" /\ WrapNext
       /\ UNCHANGED <<part, framingVars, byteVars, fileVars, layout, unfinishedVars, hookVars,
                      inputVars, promptVars, alistVars, aliasVars,
                      controlVars, expressionVars, arrayVars, browseVars,
                      keyVars, wordVars, patternVars, textVars,
                      displayVars, attributeVars, communityVars,
                      settingVars, statusVars, loadVars, tabVars>>
    \/ /\ part = "attributes" /\ AttributesNext
       /\ UNCHANGED <<part, framingVars, byteVars, fileVars, layout, unfinishedVars, hookVars,
                      inputVars, promptVars, alistVars, aliasVars,
                      controlVars, expressionVars, arrayVars, browseVars,
                      keyVars, wordVars, patternVars, textVars,
                      displayVars, wrapVars, communityVars, settingVars,
                      statusVars, loadVars, tabVars>>
    \/ /\ part = "community" /\ CommunityNext
       /\ UNCHANGED <<part, framingVars, byteVars, fileVars, layout, unfinishedVars, hookVars,
                      inputVars, promptVars, alistVars, aliasVars,
                      controlVars, expressionVars, arrayVars, browseVars,
                      keyVars, wordVars, patternVars, textVars,
                      displayVars, wrapVars, attributeVars, settingVars,
                      statusVars, loadVars, tabVars>>
    \/ /\ part = "settings" /\ SettingsNext
       /\ UNCHANGED <<part, framingVars, byteVars, fileVars, layout, unfinishedVars, hookVars,
                      inputVars, promptVars, alistVars, aliasVars,
                      controlVars, expressionVars, arrayVars, browseVars,
                      keyVars, wordVars, patternVars, textVars,
                      displayVars, wrapVars, attributeVars, communityVars,
                      statusVars, loadVars, tabVars>>
    \/ /\ part = "status line" /\ StatusLineNext
       /\ UNCHANGED <<part, framingVars, byteVars, fileVars, layout, unfinishedVars, hookVars,
                      inputVars, promptVars, alistVars, aliasVars,
                      controlVars, expressionVars, arrayVars, browseVars,
                      keyVars, wordVars, patternVars, textVars,
                      displayVars, wrapVars, attributeVars, communityVars,
                      settingVars, loadVars, tabVars>>
    \/ /\ part = "loading" /\ LoadingNext
       /\ UNCHANGED <<part, framingVars, byteVars, fileVars, layout, unfinishedVars, hookVars,
                      inputVars, promptVars, alistVars, aliasVars,
                      controlVars, expressionVars, arrayVars, browseVars,
                      keyVars, wordVars, patternVars, textVars,
                      displayVars, wrapVars, attributeVars, communityVars,
                      settingVars, statusVars, tabVars>>
    \/ /\ part = "completion" /\ CompletionNext
       /\ UNCHANGED <<part, framingVars, byteVars, fileVars, layout, unfinishedVars, hookVars,
                      inputVars, promptVars, alistVars, aliasVars, controlVars,
                      expressionVars, arrayVars, browseVars, keyVars, wordVars,
                      patternVars, textVars, displayVars, wrapVars,
                      attributeVars, communityVars, settingVars, statusVars, loadVars>>

PartsSpec ==
    /\ PartsInit /\ [][PartsNext]_partsVars

PartsTypeOK ==
    /\ part = "framing" => FramingTypeOK
    /\ part = "bytes" => ByteTransferTypeOK
    /\ part = "file links" => FileLinksTypeOK
    /\ part = "windows" => WindowsTypeOK
    /\ part = "unfinished" => UnfinishedTypeOK
    /\ part = "hooks" => HooksTypeOK
    /\ part = "input line" => InputLineTypeOK
    /\ part = "prompts" => PromptsTypeOK
    /\ part = "sorted list" => AlistTypeOK
    /\ part = "aliases" => AliasesTypeOK
    /\ part = "control" => ControlTypeOK
    /\ part = "expressions" => ExpressionsTypeOK
    /\ part = "arrays" => ArraysTypeOK
    /\ part = "browses" => BrowsesTypeOK
    /\ part = "keys" => KeysTypeOK
    /\ part = "words" => WordsTypeOK
    /\ part = "patterns" => PatternsTypeOK
    /\ part = "texts" => TextsTypeOK
    /\ part = "display" => DisplayTypeOK
    /\ part = "wrap" => WrapTypeOK
    /\ part = "attributes" => AttributesTypeOK
    /\ part = "community" => CommunityTypeOK
    /\ part = "settings" => SettingsTypeOK
    /\ part = "status line" => StatusLineTypeOK
    /\ part = "loading" => LoadingTypeOK
    /\ part = "completion" => CompletionTypeOK

\* What is kept of other users' files is whole, and leads to nothing that is gone.
OthersSound ==
    /\ part = "file links" => LinksSound
    /\ part = "browses" => BrowsesSound
    /\ part = "community" => CommunitySound

\* The windows fill the terminal, and what is on it is what was written.
TerminalSound ==
    /\ part = "windows" => ScreenSound
    /\ part = "display" => DisplaySound
    /\ part = "wrap" => WrapSound
    /\ part = "attributes" => AttributesSound
    /\ part = "status line" => StatusSound

\* What the user types is shown as it is, is kept, and runs what it is bound to.
InputSound ==
    /\ part = "input line" => LineShown
    /\ part = "prompts" => LineKept
    /\ part = "keys" => KeysSound
    /\ part = "settings" => SettingsSound
    /\ part = "completion" => CompletionSound

\* What a script names is found, and what it runs ends where it began, and may
\* change the lists it is run from.
ScriptsSound ==
    /\ part = "hooks" => HooksSound
    /\ part = "sorted list" => AlistSound
    /\ part = "aliases" => AliasesSound
    /\ part = "control" => ControlSound
    /\ part = "expressions" => ExpressionsSound
    /\ part = "arrays" => ArraysSound
    /\ part = "words" => WordsSound
    /\ part = "patterns" => PatternsSound
    /\ part = "texts" => TextsSound
    /\ part = "loading" => LoadingSound
=============================================================================
