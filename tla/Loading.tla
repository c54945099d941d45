------------------------------ MODULE Loading ------------------------------
(* Files of commands (commands.c, and uzfopen() of ircaux.c): which file a    *)
(* name means, what commands its text holds, what a command's name means, and *)
(* loads within loads, within commands that wait for the server.              *)
(*                                                                            *)
(* A behaviour asks one of four questions: what a name opens, what a file     *)
(* holds, what a command's name means, or how loads and waits run.            *)
EXTENDS Integers, Sequences, FiniteSets, SequencesExt

CONSTANTS
    FileCases,       \* records [typed, disk, tools, forks]: see FileOpened
    ScriptTexts,           \* files as sequences of lines, these as sequences of symbols
    NameCases,       \* records [line, hist, command_mode, aliases, commands, nick]
    Disks,           \* functions from names to texts
    StartDisks,      \* those the program is started with
    Orders,          \* what /load may be given: sequences of names
    MaxLoadDepth,    \* MAX_LOAD_DEPTH
    TypedLines,      \* commands as sequences of symbols
    MaxRequests,     \* bound: requests for an answer
    MaxRunning,      \* bound: what is under way when a line is typed
    Unsafe         \* "mixed": /wait behind a /wait -c; "lost": the connection is lost
                     \* while a /wait -c is under way; "start": DISPLAY is set while the
                     \* files of the start are loaded

VARIABLES
    question,      \* the case that was chosen, or <<"run", disk>>
    running,       \* what is under way, the innermost last
    window_display, DISPLAY,
    load_depth,
    waiting,       \* waiting_out - waiting_in
    wait_list,     \* the /wait -c's, oldest first, by the number of their requests
    requests,      \* of this connection: how many were made, how many are answered
    early,         \* did something go on before its own answer was there?
    foreign        \* has a file been read other than it stands alone?

loadVars == <<question, running, window_display, DISPLAY, load_depth, waiting, wait_list,
              requests, early, foreign>>

-----------------------------------------------------------------------------
\* uzfopen()

\* A disk is a function from places [dir, name, suffix] to "plain", "directory",
\* "executable".  path_search(): the first directory of LOAD_PATH that has it; a name
\* with a directory is looked for there alone.
Path == <<"d1", "d2">>
PathSearch(disk, dir, name, suffix) ==
    LET At(d) == [dir |-> d, name |-> name, suffix |-> suffix]
        Found == {i \in DOMAIN Path : At(Path[i]) \in DOMAIN disk}
    IN IF dir # "" THEN (IF At(dir) \in DOMAIN disk THEN <<At(dir)>> ELSE <<>>)
       ELSE IF Found = {} THEN <<>> ELSE <<At(Path[Min(Found)])>>

\* expand_twiddle(): ~ is the user's own directory, or that of another, who may not be.
ExpandTwiddle(dir) == IF dir = "~" THEN "d1" ELSE dir

FileSuffixes == <<"", ".gz", ".Z", ".z", ".bz2">>
\* Which program undoes a suffix; gunzip before uncompress
Decompressor(suffix, tools) ==
    CASE suffix \in {".gz", ".z"} /\ "gunzip" \in tools -> "gunzip"
      [] suffix = ".Z" /\ tools \cap {"gunzip", "uncompress"} # {} ->
            IF "gunzip" \in tools THEN "gunzip" ELSE "uncompress"
      [] suffix = ".bz2" /\ "bunzip2" \in tools -> "bunzip2"
      [] OTHER -> "none"

\* open_compression(): the program's output is read, if it can be started.
NotOpened == [file |-> <<>>, by |-> "none"]
OpenCompression(program, found, forks) ==
    IF forks THEN [file |-> found, by |-> program] ELSE NotOpened
OpenedBy(found, suffix, c) ==
    IF suffix = "" THEN [file |-> found, by |-> "fopen"]
    ELSE IF Decompressor(suffix, c.tools) = "none" THEN NotOpened
    ELSE OpenCompression(Decompressor(suffix, c.tools), found, c.forks)

\* A name that ends like a compressed file is taken as it is, found or not; else it is
\* tried alone and with each suffix, and must be no directory and not executable.
FileOpened(c) ==
    LET t == c.typed
        dir == ExpandTwiddle(t.dir)
        Try(s) == PathSearch(c.disk, dir, t.name, s)
        Tries == {i \in DOMAIN FileSuffixes : Try(FileSuffixes[i]) # <<>>}
        s == FileSuffixes[Min(Tries)]
    IN IF t.dir = "~nobody" THEN NotOpened
       ELSE IF t.suffix # "" THEN OpenedBy(Try(t.suffix), t.suffix, c)
       ELSE IF Tries = {} \/ c.disk[Try(s)[1]] # "plain" THEN NotOpened
       ELSE OpenedBy(Try(s), s, c)

-----------------------------------------------------------------------------
\* load(): the commands that a text holds

\* Lines that end in one \ are joined with the next; blank lines and those that begin
\* with # are skipped, but for those that are joined.
WithoutIndent(line) ==
    LET Ink == {i \in DOMAIN line : line[i] # "_"}
    IN IF Ink = {} THEN <<>> ELSE SubSeq(line, Min(Ink), Len(line))
Continued(line) ==
    LET n == Len(line)
    IN n > 0 /\ line[n] = "\\" /\ (n = 1 \/ line[n - 1] # "\\")
JoinLine(a, line) ==
    IF a.open
    THEN LET whole == Front(Last(a.rows)) \o line
         IN [rows |-> Append(Front(a.rows), whole), open |-> Continued(whole)]
    ELSE IF WithoutIndent(line) = <<>> \/ WithoutIndent(line)[1] = "#" THEN a
    ELSE [rows |-> Append(a.rows, WithoutIndent(line)),
          open |-> Continued(WithoutIndent(line))]
LinesOfText(text) == FoldLeft(JoinLine, [rows |-> <<>>, open |-> FALSE], text).rows

\* The places of a sequence where a condition holds
Indices(s, Test(_)) == SelectSeq([i \in DOMAIN s |-> i], Test)

\* A row in chunks: some text, the mark behind it if there is one, and what follows that
ScriptMarks == {"{", "}", ";", "/"}
MarksOf(row) ==
    {i \in DOMAIN row : row[i] \in ScriptMarks /\ ~(i > 1 /\ row[i - 1] = "\\")}
Chunks(row) ==
    LET ends == Indices(row, LAMBDA i : i \in MarksOf(row))
        From(k) == IF k = 1 THEN 1 ELSE ends[k - 1] + 1
        n == Len(ends)
        Marked(k) == [text |-> SubSeq(row, From(k), ends[k] - 1), mark |-> row[ends[k]],
                      next |-> IF ends[k] = Len(row) THEN "" ELSE row[ends[k] + 1]]
        rest == SubSeq(row, From(n + 1), Len(row))
    IN [k \in 1 .. n |-> Marked(k)]
       \o (IF rest = <<>> THEN <<>> ELSE <<[text |-> rest, mark |-> "", next |-> ""]>>)

\* What load() has put together: current_row, paste_level, in_comment, no_semicolon, and
\* what it has handed to parse_line()
Add(a, text) == [a EXCEPT !.row = @ \o text, !.any = TRUE]
Handed(a) == [a EXCEPT !.out = Append(@, a.row), !.row = <<>>, !.any = FALSE]

\* Before a chunk: what was put together ends here, or in a block a ; is put behind it.
Separated(a, c) ==
    CASE a.no_semicolon -> [a EXCEPT !.no_semicolon = FALSE]
      [] ~a.any \/ (c.mark \notin {"", "/"} /\ c.text = <<>>) -> a
      [] a.paste = 0 -> Handed(a)
      [] a.comment -> a
      [] OTHER -> Add(a, <<";">>)

AddText(a, c) == IF a.comment THEN a ELSE Add(a, c.text)

\* The mark of a chunk: comments, which begin only right behind another mark, and blocks
AtMark(a, c) ==
    CASE c.mark = "" -> a
      [] a.comment ->
            IF c.mark = "/" /\ c.text # <<>> /\ Last(c.text) = "*"
            THEN [a EXCEPT !.comment = FALSE, !.no_semicolon = TRUE] ELSE a
      [] c.mark = "/" /\ c.next = "*" /\ c.text = <<>> ->
            [a EXCEPT !.comment = TRUE, !.no_semicolon = TRUE]
      [] c.mark = "/" ->
            IF c.next = "" /\ a.paste = 0
            THEN [Handed(Add(a, <<"/">>)) EXCEPT !.no_semicolon = TRUE]
            ELSE [Add(a, <<"/">>) EXCEPT !.no_semicolon = c.next # ""]
      [] c.mark = "{" ->
            [Add(a, IF c.text = <<>> THEN <<"_", "{">> ELSE <<"{">>)
                EXCEPT !.paste = @ + 1, !.no_semicolon = TRUE]
      [] c.mark = "}" ->
            IF a.paste = 0 THEN [a EXCEPT !.wrong = TRUE]
            ELSE [Add(a, <<"}">>) EXCEPT !.paste = @ - 1, !.no_semicolon = c.next # ""]
      [] c.mark = ";" ->
            IF c.next = "" /\ a.paste = 0 THEN Handed(Add(a, <<";">>))
            ELSE [Add(a, <<";">>) EXCEPT !.no_semicolon = c.next # ""]

OneChunk(a, c) == AtMark(AddText(Separated(a, c), c), c)
Row(a, row) == FoldLeft(OneChunk, a, Chunks(row))

\* The end of a file: what is there is handed over, but for a block that is open.
AtEndOfFile(a) ==
    LET b == [a EXCEPT !.wrong = @ \/ a.comment \/ (a.any /\ a.paste > 0)]
    IN IF ~a.any THEN b ELSE IF a.paste = 0 THEN Handed(b) ELSE [b EXCEPT !.row = <<>>]

\* A text is read with the paste_level and no_semicolon the one before it left.
NewReader == [paste |-> 0, no_semicolon |-> TRUE]
Read(text, carry) ==
    AtEndOfFile(FoldLeft(Row, [row |-> <<>>, any |-> FALSE, comment |-> FALSE, out |-> <<>>,
                         wrong |-> FALSE, paste |-> carry.paste,
                         no_semicolon |-> carry.no_semicolon], LinesOfText(text)))
Carry(a) == [paste |-> a.paste, no_semicolon |-> a.no_semicolon]

-----------------------------------------------------------------------------
\* parse_command(): what the name of a command means

\* The marks before a name: ^ for no output, which a line typed must have behind a /,
\* and one or two /.
AfterMark(hist, a, c) ==
    CASE a.stop -> a
      [] c = "^" /\ (~hist \/ a.used > 0) /\ a.noisy -> [a EXCEPT !.noisy = FALSE, !.n = @ + 1]
      [] c = "/" /\ a.used < 2 -> [a EXCEPT !.used = @ + 1, !.n = @ + 1]
      [] c = "/" -> [a EXCEPT !.used = @ + 1, !.stop = TRUE]
      [] OTHER -> [a EXCEPT !.stop = TRUE]
MarksBefore(hist, line) ==
    FoldLeft(LAMBDA a, c : AfterMark(hist, a, c),
             [used |-> 0, noisy |-> TRUE, n |-> 0, stop |-> FALSE], line)

Beginning(names, n) == {x \in names : IsPrefix(n, x)}
Meaning(kind, name) == [kind |-> kind, name |-> name]

\* An alias of that very name; the command; one command or alias that begins so, if no
\* alias or other command does; the user's own nick; else something is said, or is not.
NamedBy(n, aliases, commands, nick) ==
    LET as == Beginning(aliases, n)
        cs == Beginning(commands, n)
    IN CASE n \in aliases -> Meaning("alias", n)
         [] n \in commands -> Meaning("command", n)
         [] as = {} /\ Cardinality(cs) = 1 -> Meaning("command", CHOOSE x \in cs : TRUE)
         [] Cardinality(as) = 1 /\ (cs = {} \/ cs = as) ->
                Meaning("alias", CHOOSE x \in as : TRUE)
         [] n = nick -> Meaning("me", n)
         [] Cardinality(cs) # 1 -> Meaning("told", <<>>)
         [] OTHER -> Meaning("nothing", <<>>)

ParseCommand(c) ==
    LET m == MarksBefore(c.hist, c.line)
        name == SubSeq(c.line, m.n + 1, Len(c.line))
    IN IF c.hist /\ m.used = 0 /\ ~c.command_mode THEN Meaning("text", c.line)
       ELSE IF name[1] = "'" /\ c.command_mode THEN Meaning("text", Tail(name))
       ELSE NamedBy(name, IF m.used >= 2 THEN {} ELSE c.aliases, c.commands, c.nick)

-----------------------------------------------------------------------------
\* Loads, commands and waiting, each within the one before

Inmost == Last(running)
WithTop(f) == Append(Front(running), f)

StartNames == <<"f", "none", "g">>

\* Only what waits lets the program take in anything.
InIO == running # <<>> => Inmost.kind = "wait"

Command(display, old) == [kind |-> "command", display |-> display, old |-> old]
Load(names, display) ==
    [kind |-> "load", names |-> names, todo |-> <<>>, carry |-> NewReader, display |-> display]
Wait(request) == [kind |-> "wait", request |-> request]

LoadingInit ==
    /\ question = <<>> /\ running = <<>>
    /\ window_display = TRUE /\ DISPLAY = TRUE
    /\ load_depth = -1
    /\ waiting = 0 /\ wait_list = <<>>
    /\ requests = [made |-> 0, answered |-> 0]
    /\ early = FALSE /\ foreign = FALSE

\* A case is chosen, or a disk.
CasesOf(kind, cases) == {<<kind, c>> : c \in cases}
Chooses ==
    /\ question = <<>>
    /\ question' \in CasesOf("file", FileCases) \cup CasesOf("text", ScriptTexts)
                      \cup CasesOf("name", NameCases) \cup CasesOf("run", Disks)
    /\ UNCHANGED <<running, window_display, DISPLAY, load_depth, waiting, wait_list, requests,
                   early, foreign>>

DiskChosen == question # <<>> /\ question[1] = "run"
Disk == question[2]

\* load_scripts(): at the start the user's file, the program's and the saved settings are
\* loaded with nothing shown, outside of any command.
LoadScripts(disk) ==
    /\ question' = <<"run", disk>>
    /\ running' = <<[kind |-> "start", names |-> StartNames, display |-> window_display]>>
    /\ window_display' = FALSE
    /\ UNCHANGED <<DISPLAY, load_depth, waiting, wait_list, requests, early, foreign>>
StartLoad ==
    /\ running # <<>> /\ Inmost.kind = "start" /\ Inmost.names # <<>>
    /\ running' = Append(WithTop([Inmost EXCEPT !.names = Tail(@)]),
                         Load(<<Inmost.names[1]>>, window_display))
    /\ load_depth' = load_depth + 1
    /\ UNCHANGED <<question, window_display, DISPLAY, waiting, wait_list, requests, early,
                   foreign>>
StartEnds ==
    /\ running # <<>> /\ Inmost.kind = "start" /\ Inmost.names = <<>>
    /\ window_display' = Inmost.display
    /\ running' = Front(running)
    /\ UNCHANGED <<question, DISPLAY, load_depth, waiting, wait_list, requests, early, foreign>>

\* oh_my_wait() and /wait -c: a request whose answer ends the wait, or runs a command
Request == requests.made + 1
WaitCmd(frames) ==
    /\ waiting' = waiting + 1
    /\ requests' = [requests EXCEPT !.made = @ + 1]
    /\ running' = Append(frames, Wait(Request))
    /\ UNCHANGED wait_list
LaterCmd(frames) ==
    /\ wait_list' = Append(wait_list, Request)
    /\ requests' = [requests EXCEPT !.made = @ + 1]
    /\ running' = frames
    /\ UNCHANGED waiting
NoRequest(frames) == running' = frames /\ UNCHANGED <<waiting, wait_list, requests>>

\* parse_command() of a command of one symbol behind a ^ or not, or of "load" with what is
\* to be loaded.  Bound: so many requests.
Silent(c) == c # <<>> /\ c[1] = "^"
Verb(c) == IF c = <<>> THEN "text" ELSE IF Silent(c) THEN c[2] ELSE c[1]
MayAsk(c) ==
    /\ Verb(c) \in {"wait", "later"} => requests.made < MaxRequests
    /\ Verb(c) \in {"off", "on"} /\ "start" \notin Unsafe /\ running # <<>> =>
            running[1].kind # "start"
    /\ Verb(c) = "wait" /\ "mixed" \notin Unsafe => wait_list = <<>>
Loads(c) == Verb(c) = "load" /\ load_depth + 1 # MaxLoadDepth
Begin(frames, c) ==
    LET shown == ~Silent(c) /\ window_display
        inside == Append(frames, Command(window_display, DISPLAY))
    IN /\ MayAsk(c)
       /\ DISPLAY' = IF Verb(c) \in {"off", "on"} THEN Verb(c) = "on" ELSE DISPLAY
       /\ window_display' = (shown /\ ~Loads(c))
       /\ load_depth' = IF Loads(c) THEN load_depth + 1 ELSE load_depth
       /\ CASE Loads(c) -> NoRequest(Append(inside, Load(Orders[Last(c)], shown)))
            [] Verb(c) = "wait" -> WaitCmd(inside)
            [] Verb(c) = "later" -> LaterCmd(inside)
            [] OTHER -> NoRequest(inside)

\* A line is typed, or run by a hook.
MayType == DiskChosen /\ InIO /\ Len(running) < MaxRunning
TypeLine(c) ==
    /\ Begin(running, c)
    /\ UNCHANGED <<question, early, foreign>>

\* The end of a command: what is shown is as before it, or as /set DISPLAY made it.
EndCommand ==
    /\ running # <<>> /\ Inmost.kind = "command"
    /\ window_display' = IF Inmost.old # DISPLAY THEN DISPLAY ELSE Inmost.display
    /\ running' = Front(running)
    /\ UNCHANGED <<question, DISPLAY, load_depth, waiting, wait_list, requests, early, foreign>>

\* load(): the next file is opened and read, or passed over.
LoadFile ==
    /\ running # <<>> /\ Inmost.kind = "load" /\ Inmost.todo = <<>> /\ Inmost.names # <<>>
    /\ LET name == Inmost.names[1]
           a == Read(Disk[name], Inmost.carry)
       IN IF name \notin DOMAIN Disk
          THEN /\ running' = WithTop([Inmost EXCEPT !.names = Tail(@)])
               /\ UNCHANGED foreign
          ELSE /\ running' = WithTop([Inmost EXCEPT !.names = Tail(@), !.todo = a.out,
                                                 !.carry = Carry(a)])
               /\ foreign' = (foreign \/ a.out # Read(Disk[name], NewReader).out)
    /\ UNCHANGED <<question, window_display, DISPLAY, load_depth, waiting, wait_list, requests,
                   early>>

\* The next command of the file
LoadLine ==
    /\ running # <<>> /\ Inmost.kind = "load" /\ Inmost.todo # <<>>
    /\ Begin(WithTop([Inmost EXCEPT !.todo = Tail(@)]), Inmost.todo[1])
    /\ UNCHANGED <<question, early, foreign>>

LoadEnds ==
    /\ running # <<>> /\ Inmost.kind = "load" /\ Inmost.todo = <<>> /\ Inmost.names = <<>>
    /\ window_display' = IF DISPLAY THEN Inmost.display ELSE window_display
    /\ load_depth' = load_depth - 1
    /\ running' = Front(running)
    /\ UNCHANGED <<question, DISPLAY, waiting, wait_list, requests, early, foreign>>

\* check_wait_command(): an answer is for the waiting, as long as there are any, and else
\* for the oldest /wait -c, the command of which is run.
AnswerCame ==
    /\ InIO /\ requests.answered < requests.made
    /\ requests' = [requests EXCEPT !.answered = @ + 1]
    /\ IF waiting > 0
       THEN /\ waiting' = waiting - 1
            /\ UNCHANGED <<running, wait_list, early>>
       ELSE /\ wait_list # <<>>
            /\ Len(running) < MaxRunning
            /\ wait_list' = Tail(wait_list)
            /\ early' = (early \/ wait_list[1] # requests.answered + 1)
            /\ running' = Append(running, Command(window_display, DISPLAY))
            /\ UNCHANGED waiting
    /\ UNCHANGED <<question, window_display, DISPLAY, load_depth, foreign>>

WaitEnds ==
    /\ running # <<>> /\ Inmost.kind = "wait" /\ waiting = 0
    /\ early' = (early \/ Inmost.request > requests.answered)
    /\ running' = Front(running)
    /\ UNCHANGED <<question, window_display, DISPLAY, load_depth, waiting, wait_list, requests,
                   foreign>>

\* close_server(), and a new connection: waits end, but the /wait -c's stay.
CloseServer ==
    /\ InIO /\ requests.made > 0
    /\ "lost" \notin Unsafe => wait_list = <<>>
    /\ waiting' = 0
    /\ requests' = [made |-> 0, answered |-> 0]
    /\ running' = [i \in DOMAIN running |->
                     IF running[i].kind = "wait" THEN Wait(0) ELSE running[i]]
    /\ UNCHANGED <<question, window_display, DISPLAY, load_depth, wait_list, early, foreign>>

LoadingNext ==
    \/ Chooses
    \/ question = <<>> /\ \E d \in StartDisks : LoadScripts(d)
    \/ StartLoad \/ StartEnds
    \/ MayType /\ \E c \in TypedLines : TypeLine(c)
    \/ EndCommand \/ LoadFile \/ LoadLine \/ LoadEnds
    \/ AnswerCame \/ WaitEnds \/ CloseServer

LoadingTypeOK ==
    /\ window_display \in BOOLEAN /\ DISPLAY \in BOOLEAN
    /\ load_depth \in -1 .. MaxLoadDepth - 1
    /\ waiting \in 0 .. MaxRequests /\ requests.answered <= requests.made
    /\ \A i \in DOMAIN running : running[i].kind \in {"command", "load", "wait", "start"}

-----------------------------------------------------------------------------
\* What a name opens is there, is what the name means, the name itself before the same with
\* a suffix, is no directory, and goes through a program that is there and undoes the suffix.
FileFound(c) ==
    LET o == FileOpened(c)
        Meant == {p \in DOMAIN c.disk :
                    p.name = c.typed.name /\ ExpandTwiddle(c.typed.dir) \in {"", p.dir}}
        Alone == {p \in Meant : p.suffix = c.typed.suffix}
        Undoes == [gunzip |-> {".gz", ".z", ".Z"}, uncompress |-> {".Z"}, bunzip2 |-> {".bz2"},
                   fopen |-> {""}]
    IN IF o.by = "none"
       THEN c.typed.suffix = "" /\ Alone # {} => \E p \in Alone : c.disk[p] # "plain"
       ELSE /\ o.file # <<>> /\ o.file[1] \in IF Alone # {} THEN Alone ELSE Meant
            /\ o.by \in c.tools \cup {"fopen"} /\ o.file[1].suffix \in Undoes[o.by]
            /\ c.typed.suffix = "" => c.disk[o.file[1]] = "plain"

\* A text whose blocks and comments end, and whose comments begin lines, is handed over in
\* whole commands: every word that is not in a comment, in order; the words of two lines are
\* never run together, and two lines that are in no block are two commands.  (In
\* ScriptTexts each line has a word of its own.)
Letters == {"a", "b", "c", "d"}
LettersOf(t) == SelectSeq(t, LAMBDA c : c \in Letters)
Commented(t, i) ==
    LET Pair(j, x, y) == t[j] = x /\ t[j + 1] = y
    IN \E j \in 1 .. i - 1 : Pair(j, "/", "*") /\ \A m \in j + 1 .. i - 2 : ~Pair(m, "*", "/")
Uncommented(t) ==
    LET kept == Indices(t, LAMBDA i : ~Commented(t, i))
    IN [k \in DOMAIN kept |-> t[kept[k]]]
BlockDepth(c, n) ==
    LET Of(b) == Cardinality({i \in 1 .. n : c[i] = b /\ (i > 1 => c[i - 1] # "\\")})
    IN Of("{") - Of("}")
Closed(c) == BlockDepth(c, Len(c)) = 0 /\ \A n \in DOMAIN c : BlockDepth(c, n) >= 0
CommentsBegin(rows) ==
    \A r \in DOMAIN rows : \A i \in 2 .. Len(rows[r]) - 1 :
        SubSeq(rows[r], i, i + 1) # <<"/", "*">>
SameRow(rows, x, y) == \E r \in DOMAIN rows : {x, y} \subseteq Range(rows[r])
Whole(c, rows) ==
    /\ Closed(c)
    /\ \A i, j \in DOMAIN c :
        i < j /\ {c[i], c[j]} \subseteq Letters /\ ~SameRow(rows, c[i], c[j]) =>
            /\ \E k \in i .. j : BlockDepth(c, k) > 0
            /\ j > i + 1
    /\ \A r \in DOMAIN rows :       \* what is behind a } stays with it
        rows[r][1] = "}" /\ Range(rows[r]) \cap Range(c) \cap Letters # {} => "}" \in Range(c)
TextKept(t) ==
    LET rows == LinesOfText(t)
        all == FlattenSeq(rows) \o <<"end">>
        a == Read(t, NewReader)
    IN CommentsBegin(rows) /\ Closed(Uncommented(all)) /\ ~Commented(all, Len(all)) =>
        /\ ~a.wrong /\ a.paste = 0
        /\ LettersOf(FlattenSeq(a.out)) = LettersOf(Uncommented(all))
        /\ \A i \in DOMAIN a.out : Whole(a.out[i], rows)

\* A name means what is called so, or the one thing that begins so; or the user is told.
NameMeans(c) ==
    LET m == MarksBefore(c.hist, c.line)
        n == SubSeq(c.line, m.n + 1, Len(c.line))
        as == IF m.used >= 2 THEN {} ELSE c.aliases
        Fits == Beginning(as \cup c.commands, n)
        p == ParseCommand(c)
    IN CASE IF c.command_mode THEN n[1] = "'" ELSE c.hist /\ c.line[1] # "/" -> p.kind = "text"
         [] n \in as -> p = Meaning("alias", n)
         [] n \in c.commands -> p = Meaning("command", n)
         [] Cardinality(Fits) = 1 -> p.name \in Fits
         [] OTHER -> p.kind \in {"me", "told"}

\* Loads and commands leave what is shown as they found it, or as it was set; files are
\* read the same whatever was loaded before; nothing goes on before its answer.
ShownAtRest == running = <<>> => window_display = DISPLAY /\ load_depth = -1
DepthKept ==
    load_depth + 1 = Cardinality({i \in DOMAIN running : running[i].kind = "load"})

LoadingSound ==
    /\ question # <<>> =>
        CASE question[1] = "file" -> FileFound(question[2])
          [] question[1] = "text" -> TextKept(question[2])
          [] question[1] = "name" -> NameMeans(question[2])
          [] OTHER -> TRUE
    /\ ShownAtRest /\ DepthKept /\ ~early /\ ~foreign
=============================================================================
