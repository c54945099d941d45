------------------------------ MODULE Unfinished ------------------------------
(***************************************************************************)
(* The list of unfinished downloads, from which /resume takes: a list in   *)
(* memory, read at startup and written when the program ends in order, and *)
(* a file to which a download that ends early is appended (files.c).  A    *)
(* download is its checksum.                                               *)
(***************************************************************************)
EXTENDS Naturals, Sequences, Functions

CONSTANTS
    Checksums,
    MaxAppends,  \* bound: lines appended to the file
    MaxSessions  \* bound: times the program is started

ASSUME UnfinishedAssumption == MaxAppends \in Nat /\ MaxSessions \in Nat

VARIABLES
    resume_struct, \* the list in memory
    unfinished,    \* the lines of the file
    session,       \* what the program is doing
    appends, sessions,
    broken_off,    \* history: every download that ended early
    added,         \* history: those of this run of the program
    overwritten    \* history: those a later write was made without

unfinishedVars == <<resume_struct, unfinished, session, appends, sessions, broken_off, added,
                    overwritten>>

UnfinishedTypeOK ==
    /\ resume_struct \in Seq(Checksums) /\ unfinished \in Seq(Checksums)
    /\ session \in {"off", "on", "writing"}
    /\ appends \in 0 .. MaxAppends /\ sessions \in 0 .. MaxSessions
    /\ broken_off \subseteq Checksums /\ added \subseteq broken_off
    /\ overwritten \subseteq broken_off

UnfinishedInit ==
    /\ resume_struct = <<>> /\ unfinished = <<>> /\ session = "off"
    /\ appends = 0 /\ sessions = 0
    /\ broken_off = {} /\ added = {} /\ overwritten = {}

Lines(q) == {q[i] : i \in DOMAIN q}

\* Mutant: a line is taken whether its checksum is on the list or not.
AddLine(q, c) == <<c>> \o q

\* A checksum that is on the list is not added again.
AddOnce(q, c) == IF c \in Lines(q) THEN q ELSE AddLine(q, c)

\* The list made of the lines of a file, from the first to the last.
ListOf(q) ==
    LET list[n \in 0 .. Len(q)] == IF n = 0 THEN <<>> ELSE AddOnce(list[n - 1], q[n])
    IN  list[Len(q)]

\* read_unfinished_list(), at startup
ReadUnfinishedList ==
    /\ session = "off" /\ sessions < MaxSessions
    /\ sessions' = sessions + 1
    /\ session' = "on"
    /\ resume_struct' = ListOf(unfinished)
    /\ added' = {}
    /\ UNCHANGED <<unfinished, appends, broken_off, overwritten>>

\* move_file_to_unfinished(): a line for a download that is not on the list in
\* memory, to which it is not added.
MoveFileToUnfinished(c) ==
    /\ session = "on" /\ appends < MaxAppends
    /\ IF c \in Lines(resume_struct)
         THEN UNCHANGED <<unfinished, appends>>
         ELSE unfinished' = Append(unfinished, c) /\ appends' = appends + 1
    /\ broken_off' = broken_off \cup {c} /\ added' = added \cup {c}
    /\ UNCHANGED <<resume_struct, session, sessions, overwritten>>

\* write_unfinished_list(), when the program ends in order: opened for writing
\* the file is empty, and the list in memory follows.  Nothing is written for an
\* empty list.
OpensUnfinished ==
    /\ session = "on"
    /\ IF resume_struct = <<>>
         THEN session' = "off" /\ UNCHANGED <<unfinished, overwritten>>
         ELSE /\ session' = "writing" /\ unfinished' = <<>>
              /\ overwritten' = (overwritten \cup added) \ Lines(resume_struct)
    /\ UNCHANGED <<resume_struct, appends, sessions, broken_off, added>>

WritesUnfinished ==
    /\ session = "writing"
    /\ session' = "off" /\ unfinished' = resume_struct
    /\ UNCHANGED <<resume_struct, appends, sessions, broken_off, added, overwritten>>

\* The program is killed; if it was writing the list, what the file lacks of it
\* is lost.
Killed ==
    /\ session # "off"
    /\ session' = "off"
    /\ \E n \in 0 .. Len(resume_struct) :
         /\ session = "on" => n = 0
         /\ IF session = "on"
              THEN UNCHANGED <<unfinished, overwritten>>
              ELSE /\ unfinished' = SubSeq(resume_struct, 1, n)
                   /\ overwritten' = overwritten
                        \cup Lines(SubSeq(resume_struct, n + 1, Len(resume_struct)))
    /\ UNCHANGED <<resume_struct, appends, sessions, broken_off, added>>

UnfinishedNext ==
    \/ ReadUnfinishedList \/ OpensUnfinished \/ WritesUnfinished \/ Killed
    \/ \E c \in Checksums : MoveFileToUnfinished(c)

UnfinishedSpec == UnfinishedInit /\ [][UnfinishedNext]_unfinishedVars

----------------------------------------------------------------------------
(* Property *)

\* While the program runs each download it can resume is in its file, and so is
\* each one that ended early since it was started; the list has none twice.  A
\* download that once ended early is in the file, but for those that ended in a
\* run of the program that had a list when it ended in order, or whose line was
\* being written when the program was killed.
ResumeKept ==
    /\ IsInjective(resume_struct)
    /\ session = "on" => Lines(resume_struct) \cup added \subseteq Lines(unfinished)
    /\ session # "writing" => broken_off \subseteq Lines(unfinished) \cup overwritten
=============================================================================
