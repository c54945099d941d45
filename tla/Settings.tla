------------------------------ MODULE Settings ------------------------------
(* The settings: /set, what a setting's change brings about (its callback),  *)
(* /stack push and pop, and the file they are saved to and loaded from       *)
(* (vars.c; status.c and lastlog.c for the callbacks).                       *)
(*                                                                           *)
(* The table has 182 settings of four types; the ones here are those whose   *)
(* callback changes more than the screen, and one of each type.  A list of   *)
(* flags (MANGLE_LOGFILES, LASTLOG_LEVEL) is the set of its flags, the empty  *)
(* set when there is none; a text is a name, "null" when there is none.       *)
EXTENDS Integers, Sequences, FiniteSets, SequencesExt

CONSTANTS
    MaxPanes,      \* as many windows
    MaxPushed,     \* as many settings on the stack
    Intervals,     \* typed for HOLD_INTERVAL
    Timeouts,      \* typed for PTEST_CONNECT_TIMEOUT
    Speeds,        \* typed for DEFAULT_SPEED: a number, or a name (its number + 100)
    Lists,         \* typed for the settings that are lists of flags: sequences of words
    StatusTexts,   \* typed for the formats of the status line
    Groups,        \* sets of settings, one of which a run is about
    Reloads        \* the saved settings are loaded while others are in effect

ASSUME SettingsAssumption ==
    /\ MaxPanes \in Nat \ {0} /\ MaxPushed \in Nat
    /\ Intervals \subseteq Nat /\ Timeouts \subseteq Nat /\ Reloads \in BOOLEAN

VARIABLES
    irc_variable,  \* each setting's number and string
    panes,         \* the windows: hold_interval, mangler, their own formats, their tables
    derived,       \* what callbacks keep: main_status, thing_ansi, lastlog_level, the
                   \* speed the servers know, old_value of set_hold_interval()
    set_stack,     \* the settings pushed, the last one first
    sav,           \* the saved settings, <<>> if none
    loading,       \* the settings still to load
    focus,         \* the group of settings the run is about
    past           \* whether the file was just loaded, and the settings popped

settingVars == <<irc_variable, panes, derived, set_stack, sav, loading, focus, past>>

\* The names in the order of the table.
Table ==
    <<"DEFAULT_SPEED", "DISPLAY_ANSI", "HOLD_INTERVAL", "LASTLOG_LEVEL",
      "MANGLE_LOGFILES", "PAD_CHAR", "PTEST_CONNECT_TIMEOUT", "REVERSE_STATUS",
      "SHOW_NUMERICS_STR", "STATUS_FORMAT1", "STATUS_FORMAT2">>
SettingNames == ToSet(Table)
Bools == {"DISPLAY_ANSI", "REVERSE_STATUS"}
Formats == {"STATUS_FORMAT1", "STATUS_FORMAT2"}

IrcVar(i, s) == [integer |-> i, string |-> s]
Preset ==
    [n \in SettingNames |->
        CASE n = "DEFAULT_SPEED" -> IrcVar(0, 0)
          [] n = "DISPLAY_ANSI" -> IrcVar(1, "null")
          [] n = "HOLD_INTERVAL" -> IrcVar(10, "null")
          [] n = "LASTLOG_LEVEL" -> IrcVar(0, {"a", "b"})
          [] n = "MANGLE_LOGFILES" -> IrcVar(0, {})
          [] n = "PTEST_CONNECT_TIMEOUT" -> IrcVar(15, "null")
          [] n \in Formats -> IrcVar(0, "default")
          [] n = "SHOW_NUMERICS_STR" -> IrcVar(0, "dots")
          [] OTHER -> IrcVar(0, "null")]

\* parse_mangle(): "a" and "b" stand for the flags, ESCAPE is not part of ALL, and
\* ALL sets bits that have no name ("rest").
MangleWord(bits, word) ==
    CASE word = "ALL" -> {"a", "b", "rest"}
      [] word \in {"NONE", "-ALL"} -> {}
      [] word \in {"-a", "-b", "-ESCAPE"} ->
            bits \ {CASE word = "-a" -> "a" [] word = "-b" -> "b" [] OTHER -> "ESCAPE"}
      [] word \in {"a", "b", "ESCAPE"} -> bits \cup {word}
      [] OTHER -> bits
\* The value set to nothing leaves no flag.
ParseMangle(bits, words) ==
    IF words = <<"null">> THEN {} ELSE FoldLeft(MangleWord, bits, words)
Flags(bits) == bits \ {"rest"}

\* parse_lastlog_level(): from nothing; an unknown word stands for all levels.
Level(bits, word) ==
    CASE word = "ALL" -> {"a", "b"}
      [] word = "NONE" -> {}
      [] word \in {"-a", "-b"} -> bits \ {IF word = "-a" THEN "a" ELSE "b"}
      [] word \in {"a", "b"} -> bits \cup {word}
      [] OTHER -> bits
ParseLevel(words) ==
    IF \E i \in DOMAIN words : words[i] \in {"ESCAPE", "-ESCAPE", "-ALL"}
    THEN {"a", "b"}
    ELSE FoldLeft(Level, {}, words)

\* set_lastlog_level(): the level, and the setting spelt out.
SetLastlogLevel(words) == ParseLevel(words)

\* set_speed(): a name of a speed that begins with what is typed, or its number.
SpeedOf(typed) ==
    CASE typed >= 100 -> typed - 100
      [] typed = 5 -> 4            \* 56k
      [] typed \in {6, 12} -> IF typed = 6 THEN 5 ELSE 6   \* 64k ISDN, 128k ISDN
      [] OTHER -> IF typed > 10 THEN 0 ELSE typed

LastPane == Max(DOMAIN panes)
MainTable(set) ==
    [k \in 0 .. 2 |-> set[IF k = 2 THEN "STATUS_FORMAT2" ELSE "STATUS_FORMAT1"].string]
\* rebuild_a_status() of a window
TableOf(own, main) ==
    [k \in 0 .. 2 |-> IF k < 2 /\ own[k] # "null" THEN own[k] ELSE main[k]]
\* build_status(): of all
Rebuilt(ps, main) == [w \in DOMAIN ps |-> [ps[w] EXCEPT !.table = TableOf(ps[w].own, main)]]

\* new_window(); it follows a HOLD_INTERVAL that is as it was last set.
NewPane(set, old) ==
    [hold_interval |-> set["HOLD_INTERVAL"].integer,
     follows |-> set["HOLD_INTERVAL"].integer = old, mangler |-> {},
     own |-> [k \in 0 .. 1 |-> "null"], table |-> MainTable(set)]

StartDerived ==
    [main |-> MainTable(Preset), ansi |-> "dots", level |-> {"a", "b"}, told |-> 0,
     old |-> -1]

SettingsInit ==
    /\ irc_variable = Preset
    /\ panes = 1 :> NewPane(Preset, -1)
    /\ derived = StartDerived
    /\ set_stack = <<>> /\ sav = <<>> /\ loading = <<>>
    /\ focus = {}
    /\ past = [restored |-> FALSE, popped |-> {}]

-----------------------------------------------------------------------------
\* The callbacks
SetPtestConnect(value) == Max({1, Min({value, 30})})
\* The flags of each window are changed; the setting names those of the last window.
SetMangleLogfiles(ps, words) ==
    [w \in DOMAIN ps |-> [ps[w] EXCEPT !.mangler = ParseMangle(@, words)]]

\* What a value typed for a setting makes of it, with the setting's own callback:
\* a word for a switch; a number; a character, or nothing, which is the blank (0); a
\* speed; words; a text.
NewValue(n, typed) ==
    LET var == irc_variable[n]
    IN CASE n \in Bools ->
              [var EXCEPT !.integer =
                  CASE typed = "ON" -> 1 [] typed = "OFF" -> 0 [] OTHER -> 1 - @]
         [] n = "PTEST_CONNECT_TIMEOUT" -> [var EXCEPT !.integer = SetPtestConnect(typed)]
         [] n \in {"HOLD_INTERVAL", "PAD_CHAR"} -> [var EXCEPT !.integer = typed]
         [] n = "DEFAULT_SPEED" -> IrcVar(SpeedOf(typed), SpeedOf(typed))
         [] n = "LASTLOG_LEVEL" -> [var EXCEPT !.string = SetLastlogLevel(typed)]
         [] n = "MANGLE_LOGFILES" ->
              [var EXCEPT !.string = Flags(ParseMangle(panes[LastPane].mangler, typed))]
         [] OTHER -> [var EXCEPT !.string = typed]

\* toggle_reverse_status(), the callback of DISPLAY_ANSI, sets two other settings.
Reversing(set, on) ==
    [set EXCEPT !["REVERSE_STATUS"].integer = 1 - on,
                !["SHOW_NUMERICS_STR"].string = IF on = 1 THEN "bright" ELSE "plain"]
WithOthers(n, new) ==
    LET set == [irc_variable EXCEPT ![n] = new]
    IN IF n = "DISPLAY_ANSI" THEN Reversing(set, new.integer) ELSE set

\* set_hold_interval(): the windows that have the last value set follow.
Held(ps, value) ==
    [w \in DOMAIN ps |->
        IF value # derived.old /\ ps[w].hold_interval = derived.old
        THEN [ps[w] EXCEPT !.hold_interval = value]
        ELSE ps[w]]

\* What stands before messages: a copy of the setting.
SetNumericString(set) == set["SHOW_NUMERICS_STR"].string

\* The settings whose callbacks build the status lines anew.
Rebuilds == Formats \cup Bools

SetVarValue(n, typed) ==
    LET new == NewValue(n, typed)
        set == WithOthers(n, new)
        main == IF n \in Rebuilds THEN MainTable(set) ELSE derived.main
    IN /\ irc_variable' = set
       /\ derived' = [main |-> main,
                      ansi |-> SetNumericString(set),
                      level |-> IF n = "LASTLOG_LEVEL" THEN new.string ELSE derived.level,
                      told |-> IF n = "DEFAULT_SPEED" THEN new.integer ELSE derived.told,
                      old |-> IF n = "HOLD_INTERVAL" THEN new.integer ELSE derived.old]
       /\ panes' = CASE n \in Rebuilds -> Rebuilt(panes, main)
                     [] n = "HOLD_INTERVAL" -> Held(panes, new.integer)
                     [] n = "MANGLE_LOGFILES" -> SetMangleLogfiles(panes, typed)
                     [] OTHER -> panes

TypedFor(n) ==
    CASE n \in Bools -> {"ON", "OFF", "TOGGLE"}
      [] n = "HOLD_INTERVAL" -> Intervals
      [] n = "PTEST_CONNECT_TIMEOUT" -> Timeouts
      [] n = "PAD_CHAR" -> {0, 1}
      [] n = "DEFAULT_SPEED" -> Speeds
      [] n \in {"LASTLOG_LEVEL", "MANGLE_LOGFILES"} -> Lists
      [] OTHER -> StatusTexts

\* Nothing is typed before the saved settings are loaded.
Ready == loading = <<>> /\ focus # {}

\* What the run is about.
Choose(g) ==
    /\ focus = {} /\ focus' = g
    /\ UNCHANGED <<irc_variable, panes, derived, set_stack, sav, loading, past>>

\* /set NAME value and /set -NAME.  A name that stands for several settings, or for
\* none, sets nothing, as does one without a value.
SetCmd(n, typed) ==
    /\ Ready
    /\ SetVarValue(n, typed)
    /\ past' = [restored |-> FALSE, popped |-> past.popped \ {n}]
    /\ UNCHANGED <<set_stack, sav, loading, focus>>

\* /stack push set: the setting as it is.
StackPushSet(n) ==
    /\ Ready /\ Len(set_stack) < MaxPushed
    /\ set_stack' = <<[name |-> n, set |-> irc_variable[n]]>> \o set_stack
    /\ UNCHANGED <<irc_variable, panes, derived, sav, loading, focus, past>>

\* /stack pop set: the last one pushed of that name is the setting again; its callback
\* is not called.
StackPopSet(n) ==
    LET Pushed == {i \in DOMAIN set_stack : set_stack[i].name = n}
        last == CHOOSE i \in Pushed : \A j \in Pushed : i <= j
    IN /\ Ready /\ Pushed # {}
       /\ irc_variable' = [irc_variable EXCEPT ![n] = set_stack[last].set]
       /\ set_stack' = RemoveAt(set_stack, last)
       /\ past' = [restored |-> FALSE, popped |-> past.popped \cup {n}]
       /\ UNCHANGED <<panes, derived, sav, loading, focus>>

-----------------------------------------------------------------------------
\* Windows

\* A new one; every status line is built anew.
CreateWindow ==
    LET w == LastPane + 1
        main == MainTable(irc_variable)
    IN /\ Ready /\ w <= MaxPanes
       /\ derived' = [derived EXCEPT !.main = main]
       /\ panes' = Rebuilt(panes @@ (w :> NewPane(irc_variable, derived.old)), main)
       /\ past' = [past EXCEPT !.restored = FALSE]
       /\ UNCHANGED <<irc_variable, set_stack, sav, loading, focus>>

\* /window hold_interval
WindowHoldInterval(w, i) ==
    /\ Ready /\ "HOLD_INTERVAL" \in focus /\ i > 0
    /\ panes' = [panes EXCEPT ![w].hold_interval = i, ![w].follows = FALSE]
    /\ UNCHANGED <<irc_variable, derived, set_stack, sav, loading, focus, past>>

\* /window status_format1 and 2: the window's own, or none.
WindowStatusFormat(w, k, text) ==
    /\ Ready /\ "STATUS_FORMAT1" \in focus
    /\ LET own == [panes[w].own EXCEPT ![k] = text]
       IN panes' = [panes EXCEPT ![w].own = own, ![w].table = TableOf(own, derived.main)]
    /\ UNCHANGED <<irc_variable, derived, set_stack, sav, loading, focus, past>>

-----------------------------------------------------------------------------
\* The file of saved settings

\* /save: a line for each setting, in the order of the table.
Savenap ==
    /\ Ready
    /\ sav' = <<irc_variable>>
    /\ past' = [past EXCEPT !.restored = FALSE]
    /\ UNCHANGED <<irc_variable, panes, derived, set_stack, loading, focus>>

\* The program is started again, and loads the file.
Restart ==
    /\ Ready /\ sav # <<>>
    /\ irc_variable' = Preset
    /\ panes' = 1 :> NewPane(Preset, -1)
    /\ derived' = StartDerived
    /\ set_stack' = <<>>
    /\ loading' = Table
    /\ past' = [restored |-> TRUE, popped |-> {}]
    /\ UNCHANGED <<sav, focus>>

\* The file is loaded in the middle of a session.
ReloadSave ==
    /\ Reloads /\ Ready /\ sav # <<>>
    /\ loading' = Table
    /\ past' = [restored |-> TRUE, popped |-> {}]
    /\ UNCHANGED <<irc_variable, panes, derived, set_stack, sav, focus>>

\* The line that save_variables() wrote for the setting, as it is typed.
SavedLine(n) ==
    LET var == sav[1][n]
    IN CASE n \in Bools -> IF var.integer = 1 THEN "ON" ELSE "OFF"
         [] n = "DEFAULT_SPEED" -> var.string + 100
         [] n = "MANGLE_LOGFILES" ->
              IF var.string = {} THEN <<"null">> ELSE SetToSeq(var.string)
         [] n = "LASTLOG_LEVEL" -> SetToSeq(var.string)
         [] n \in Formats \cup {"SHOW_NUMERICS_STR"} -> var.string
         [] OTHER -> var.integer

\* One line is loaded.  A blank is not read as a value: the line then shows the setting.
LoadSetting ==
    LET n == Head(loading)
    IN /\ loading # <<>>
       /\ IF n = "PAD_CHAR" /\ SavedLine(n) = 0
          THEN UNCHANGED <<irc_variable, panes, derived>>
          ELSE SetVarValue(n, SavedLine(n))
       /\ loading' = Tail(loading)
       /\ UNCHANGED <<set_stack, sav, focus, past>>

-----------------------------------------------------------------------------
SettingsNext ==
    \/ \E g \in Groups : Choose(g)
    \/ \E n \in focus : \E typed \in TypedFor(n) : SetCmd(n, typed)
    \/ \E n \in focus : StackPushSet(n) \/ StackPopSet(n)
    \/ CreateWindow
    \/ \E w \in DOMAIN panes : \E i \in Intervals : WindowHoldInterval(w, i)
    \/ \E w \in DOMAIN panes, k \in 0 .. 1, text \in StatusTexts :
            WindowStatusFormat(w, k, text)
    \/ Savenap \/ Restart \/ ReloadSave \/ LoadSetting

SettingsSpec == SettingsInit /\ [][SettingsNext]_settingVars

SettingsTypeOK ==
    /\ DOMAIN irc_variable = SettingNames
    /\ Len(set_stack) <= MaxPushed
    /\ DOMAIN panes \subseteq 1 .. MaxPanes
    /\ focus \in Groups \cup {{}}
    /\ past.popped \subseteq SettingNames

\* After a restart the settings are those that were saved, although one of them sets
\* others that are in the file too (vars.c 758-769).
SavedRestored == past.restored /\ loading = <<>> => irc_variable = sav[1]

\* A setting that was not popped is in effect: what its callback keeps agrees with it.
InEffect ==
    LET Set(n) == irc_variable[n].string
        Counts(n) == n \notin past.popped
    IN /\ Counts("DEFAULT_SPEED") =>
            /\ irc_variable["DEFAULT_SPEED"].integer = Set("DEFAULT_SPEED")
            /\ derived.told = Set("DEFAULT_SPEED")
       /\ Counts("SHOW_NUMERICS_STR") => derived.ansi = Set("SHOW_NUMERICS_STR")
       /\ Counts("LASTLOG_LEVEL") => derived.level = Set("LASTLOG_LEVEL")
       /\ irc_variable["PTEST_CONNECT_TIMEOUT"].integer \in 1 .. 30
       \* Windows created later begin without flags (vars.c 1159).
       /\ Counts("MANGLE_LOGFILES")
            /\ (\A w, v \in DOMAIN panes : panes[w].mangler = panes[v].mangler) =>
            \A w \in DOMAIN panes : Flags(panes[w].mangler) = Set("MANGLE_LOGFILES")
       \* Windows there when the interval is first set do not follow it (vars.c 1046).
       /\ Counts("HOLD_INTERVAL") =>
            \A w \in DOMAIN panes : panes[w].follows =>
                panes[w].hold_interval = irc_variable["HOLD_INTERVAL"].integer
       /\ (\A n \in Formats : Counts(n)) => derived.main = MainTable(irc_variable)
       /\ \A w \in DOMAIN panes : panes[w].table = TableOf(panes[w].own, derived.main)

\* The settings come back as they were saved, and what depends on one agrees with it.
SettingsSound == SavedRestored /\ InEffect
=============================================================================
