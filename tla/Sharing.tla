------------------------------- MODULE Sharing -------------------------------
(***************************************************************************)
(* The shared files of source/share.c: the list fserv_files with its       *)
(* counters, the command /share that works on it, and the two threads that *)
(* fill it, one from directories (scan_mp3_dir) and one from a saved list  *)
(* (load_file).  The threads take the mutex fserv_struct_mutex; the main   *)
(* loop never does.  Its commands test in_load and in_sharing; a server    *)
(* that is lost tests nothing, and walks the list under a thread.  To      *)
(* share sends packet after packet and turns the main loop in between.     *)
(*                                                                         *)
(* Files are numbered in the order of the list (add_list_dir).             *)
(***************************************************************************)
EXTENDS Integers, Sequences, FiniteSets, FiniteSetsExt

CONSTANTS
    NFiles,    \* the number of files there can be
    Folder,    \* the directory of each
    Requested, \* what one /share asks for: directories, lists to load
    MaxShares, \* bound: commands that start a thread or share
    WalkApart  \* no thread frees the very file close_server() stands on

Shareable == 1 .. NFiles

\* What is asked of a directory: its new files, those and the missing ones, or
\* only the missing ones of the whole list.
ScanKinds == {"scan", "reload", "update"}

ASSUME SharingAssumption ==
    /\ NFiles \in Nat /\ MaxShares \in Nat /\ WalkApart \in BOOLEAN
    /\ DOMAIN Folder = Shareable
    /\ \A r \in Requested : r.dirs \in Seq(ScanKinds) /\ r.loads \in {0, 1}

VARIABLES
    listed,       \* fserv_files
    flagged,      \* those of them with shared set
    total,        \* shared_stats.total_files
    shared,       \* shared_stats.shared_files
    short,        \* history: a server was lost with a file in the thread's hand, and
                  \* shared_files was not reset since
    disk,         \* the files on the disk
    saved,        \* the files of the saved list
    share_files,  \* the directories asked for
    load_files,   \* load_share_files: lists to load, by number
    in_load, in_sharing, scan_done,
    owner,        \* who holds fserv_struct_mutex: "scan", "load" or "none"
    scanner,      \* where the scanning thread is
    loader,       \* where the loading thread is
    todo,         \* the files of a directory that remain to be looked at
    inhand,       \* the file the scanning thread took off the list, or 0
    held,         \* the value of shared_files it read
    sharer,       \* where the main loop is
    cursor,       \* the next file do_share() looks at, 0 when it does not run
    walk,         \* the file close_server() looks at, Past after the last one, 0 when
                  \* it does not run
    shares        \* commands given

lists == <<listed, flagged, total, shared, short>>
threadState == <<owner, scanner, loader, todo, inhand, held>>
mainState == <<sharer, cursor, walk>>
sharingVars == <<lists, disk, saved, share_files, load_files, in_load, in_sharing,
                 scan_done, threadState, mainState, shares>>

Past == NFiles + 1

\* The file in the thread's hand, as a set.
Carried == {inhand} \ {0}

SharingTypeOK ==
    /\ listed \subseteq Shareable /\ flagged \subseteq listed \cup Carried
    /\ disk \subseteq Shareable /\ saved \subseteq Shareable
    /\ total \in Int /\ shared \in Int /\ in_load \in Int /\ in_sharing \in Int
    /\ short \in BOOLEAN
    /\ share_files \in Seq(ScanKinds) /\ load_files \in {0, 1}
    /\ scan_done \in BOOLEAN
    /\ owner \in {"scan", "load", "none"}
    /\ scanner \in {"none", "born", "lock", "entry", "files", "taken", "load", "store",
                    "free", "relock", "unlock", "leave", "ended"}
    /\ loader \in {"none", "born", "count", "leave"}
    /\ todo \subseteq Shareable
    /\ inhand \in {0} \cup Shareable /\ held \in Int
    /\ sharer \in {"idle", "sharing", "joining"}
    /\ cursor \in {0} \cup Shareable
    /\ walk \in 0 .. Past
    /\ shares \in 0 .. MaxShares

SharingInit ==
    /\ listed = {} /\ flagged = {} /\ total = 0 /\ shared = 0 /\ short = FALSE
    /\ disk = Shareable /\ saved = {}
    /\ share_files = <<>> /\ load_files = 0
    /\ in_load = 0 /\ in_sharing = 0 /\ scan_done = FALSE
    /\ owner = "none" /\ scanner = "none" /\ loader = "none" /\ todo = {}
    /\ inhand = 0 /\ held = 0
    /\ sharer = "idle" /\ cursor = 0 /\ walk = 0 /\ shares = 0

----------------------------------------------------------------------------
(* The list *)

\* Mutant: a file that goes is taken off the list only.
DropUncounted(files) ==
    /\ listed' = listed \ files
    /\ flagged' = flagged \ files
    /\ UNCHANGED <<total, shared, short>>

\* A file that goes is counted out, as shared too when it was: the loop of
\* remove_nap().
DropFiles(files) ==
    /\ listed' = listed \ files
    /\ flagged' = flagged \ files
    /\ total' = total - Cardinality(files)
    /\ shared' = shared - Cardinality(flagged \cap files)
    /\ UNCHANGED short

AddFiles(files) ==
    /\ listed' = listed \cup files
    /\ total' = total + Cardinality(files \ listed)
    /\ UNCHANGED <<flagged, shared, short>>

\* Mutant: the count is reset and the flags stay, also those of files that go.
ForgetCount == shared' = 0 /\ short' = FALSE /\ UNCHANGED flagged

\* clear_shared() and the counters, in unshare_nap().
ForgetShared == flagged' = {} /\ shared' = 0 /\ short' = FALSE

\* The next file on the list, 0 at its end.
NextListed(f) == IF \E g \in listed : g > f THEN Min({g \in listed : g > f}) ELSE 0

----------------------------------------------------------------------------
(* The command /share *)

\* Mutant: only loading is waited for.
NotLoading == in_load = 0

\* The test at the head of share_napster().  A thread that was created and has
\* not begun yet does not show in it.
MayShare == in_load = 0 /\ in_sharing = 0

\* Commands are read by the main loop, and by the turns of it within do_share().
Reads == walk = 0 /\ sharer \in {"idle", "sharing"}

\* Bound: one thread of a kind at a time.
OneOfAKind == /\ share_files' # <<>> => scanner \in {"none", "ended"}
              /\ load_files' > 0 => loader = "none"

\* /share with directories, -load or both.
ShareCommand(r) ==
    /\ Reads /\ MayShare /\ shares < MaxShares
    /\ shares' = shares + 1
    /\ share_files' = r.dirs \o share_files
    /\ load_files' = IF r.loads > 0 THEN r.loads ELSE load_files
    /\ OneOfAKind
    /\ scanner' = IF share_files' # <<>> THEN "born" ELSE scanner
    /\ loader' = IF load_files' > 0 THEN "born" ELSE loader
    /\ UNCHANGED <<lists, disk, saved, in_load, in_sharing, scan_done, owner, todo, inhand,
                   held, mainState>>

\* -unshare, when something is shared
UnshareNap ==
    /\ Reads /\ MayShare /\ shared # 0
    /\ ForgetShared
    /\ UNCHANGED <<listed, total, disk, saved, share_files, load_files, in_load, in_sharing,
                   scan_done, threadState, mainState, shares>>

\* -clear
ClearNap ==
    /\ Reads /\ MayShare
    /\ listed' = {} /\ total' = 0 /\ ForgetShared
    /\ UNCHANGED <<disk, saved, share_files, load_files, in_load, in_sharing, scan_done,
                   threadState, mainState, shares>>

\* -remove with a pattern that matches a file
RemoveNap ==
    /\ Reads /\ MayShare
    /\ \E f \in listed : DropFiles({f})
    /\ UNCHANGED <<disk, saved, share_files, load_files, in_load, in_sharing, scan_done,
                   threadState, mainState, shares>>

\* -save
SaveShared ==
    /\ Reads /\ MayShare
    /\ saved' = listed
    /\ UNCHANGED <<lists, disk, share_files, load_files, in_load, in_sharing, scan_done,
                   threadState, mainState, shares>>

----------------------------------------------------------------------------
(* do_share(): one packet after another *)

\* -share.  It is refused while directories wait to be read.
StartShare ==
    /\ Reads /\ sharer = "idle" /\ MayShare /\ share_files = <<>> /\ listed # {}
    /\ shares < MaxShares
    /\ shares' = shares + 1
    /\ in_sharing' = in_sharing + 1
    /\ cursor' = Min(listed)
    /\ sharer' = "sharing"
    /\ UNCHANGED <<lists, disk, saved, share_files, load_files, in_load, scan_done,
                   threadState, walk>>

Unflagged == {f \in listed \ flagged : f >= cursor}

\* The files from f to g, all listed ones of one directory.
Run(f, g) == {h \in listed : f <= h /\ h <= g}

SharingEnds == in_sharing' = in_sharing - 1 /\ cursor' = 0 /\ sharer' = "idle"

\* do_share() itself is at work.
InDoShare == sharer = "sharing" /\ walk = 0

\* One packet: from the first file not shared on, files of its directory as far
\* as the packet reaches, shared before or not.  When one file is left it is
\* not looked at.
SharePacket ==
    /\ InDoShare /\ Unflagged # {}
    /\ LET f == Min(Unflagged) IN
       \E g \in listed :
          /\ g >= f /\ \A h \in Run(f, g) : Folder[h] = Folder[f]
          /\ flagged' = flagged \cup Run(f, g)
          /\ shared' = shared + Cardinality(Run(f, g))
          /\ IF NextListed(g) = 0 \/ NextListed(NextListed(g)) = 0
               THEN SharingEnds
               ELSE cursor' = NextListed(g) /\ UNCHANGED <<in_sharing, sharer>>
    /\ UNCHANGED <<listed, total, short, disk, saved, share_files, load_files, in_load,
                   scan_done, threadState, walk, shares>>

NothingToShare ==
    /\ InDoShare /\ Unflagged = {}
    /\ SharingEnds
    /\ UNCHANGED <<lists, disk, saved, share_files, load_files, in_load, scan_done,
                   threadState, walk, shares>>

\* The packet cannot be sent.  The flags are cleared, and the counter is not.
SendFails ==
    /\ InDoShare /\ Unflagged # {}
    /\ LET f == Min(Unflagged) IN
       \E g \in listed : /\ g >= f /\ \A h \in Run(f, g) : Folder[h] = Folder[f]
                         /\ shared' = shared + Cardinality(Run(f, g))
    /\ in_sharing' = 0 /\ flagged' = {}
    /\ cursor' = 0 /\ sharer' = "idle"
    /\ UNCHANGED <<listed, total, short, disk, saved, share_files, load_files, in_load,
                   scan_done, threadState, walk, shares>>

----------------------------------------------------------------------------
(* A lost server: close_server(), also in a turn of the main loop within     *)
(* do_share() and while a thread is at work.  It clears the flags one file   *)
(* after another, then zeroes the counter.  (When no other server is left it *)
(* clears them once more, which changes nothing.)                            *)

\* Where a walk of the list stands when it goes on from f.
Onward(f) == IF NextListed(f) = 0 THEN Past ELSE NextListed(f)

ServerLost ==
    /\ Reads
    /\ walk' = Onward(0)
    /\ UNCHANGED <<lists, disk, saved, share_files, load_files, in_load, in_sharing,
                   scan_done, threadState, sharer, cursor, shares>>

ClearFlag ==
    /\ walk \in Shareable
    /\ flagged' = flagged \ {walk} /\ walk' = Onward(walk)
    /\ UNCHANGED <<listed, total, shared, short, disk, saved, share_files, load_files,
                   in_load, in_sharing, scan_done, threadState, sharer, cursor, shares>>

ResetShared ==
    /\ walk = Past
    /\ shared' = 0 /\ walk' = 0
    /\ short' = (inhand # 0)
    /\ UNCHANGED <<listed, flagged, total, disk, saved, share_files, load_files, in_load,
                   in_sharing, scan_done, threadState, sharer, cursor, shares>>

----------------------------------------------------------------------------
(* The scanning thread *)

ScanBegins ==
    /\ scanner = "born"
    /\ in_load' = in_load + 1
    /\ scanner' = "lock"
    /\ UNCHANGED <<lists, disk, saved, share_files, load_files, in_sharing, scan_done,
                   owner, loader, todo, inhand, held, mainState, shares>>

ScanLocks ==
    /\ scanner = "lock" /\ owner = "none"
    /\ owner' = "scan" /\ scanner' = "entry"
    /\ UNCHANGED <<lists, disk, saved, share_files, load_files, in_load, in_sharing,
                   scan_done, loader, todo, inhand, held, mainState, shares>>

\* The next directory is read.  To update, do_update() is called: it counts
\* itself and then locks the mutex, which this thread, its only caller, holds.
\* The mutex is not a recursive one, and no step leaves "relock".
ScanEntry ==
    /\ scanner = "entry" /\ share_files # <<>>
    /\ IF Head(share_files) = "update"
         THEN in_load' = in_load + 1 /\ scanner' = "relock" /\ UNCHANGED todo
         ELSE todo' = disk /\ scanner' = "files" /\ UNCHANGED in_load
    /\ UNCHANGED <<lists, disk, saved, share_files, load_files, in_sharing, scan_done,
                   owner, loader, inhand, held, mainState, shares>>

\* One file of the directory.  One on the list that was to be reloaded and is gone
\* by now is taken off; another is added unless it is of another type or cannot be
\* opened.  A number of files may have been asked for.
ScanFile ==
    /\ scanner = "files"
    /\ \E f \in todo :
         \/ /\ f \in listed /\ Head(share_files) = "reload" /\ f \notin disk
            /\ listed' = listed \ {f} /\ inhand' = f /\ scanner' = "taken"
            /\ todo' = todo \ {f}
            /\ UNCHANGED <<flagged, total, shared, short>>
         \/ /\ f \notin listed \/ Head(share_files) = "scan" \/ f \in disk
            /\ todo' = todo \ {f}
            /\ UNCHANGED <<lists, inhand, scanner>>
         \/ /\ f \notin listed /\ f \in disk /\ AddFiles({f})
            /\ todo' \in {todo \ {f}, {}}
            /\ UNCHANGED <<inhand, scanner>>
    /\ UNCHANGED <<disk, saved, share_files, load_files, in_load, in_sharing, scan_done,
                   owner, loader, held, mainState, shares>>

\* The file in the hand is counted out of shared_files when it is shared, which
\* reads the counter and then writes it, then out of total_files, and freed.
LookShared ==
    /\ scanner = "taken"
    /\ scanner' = IF inhand \in flagged THEN "load" ELSE "free"
    /\ UNCHANGED <<lists, disk, saved, share_files, load_files, in_load, in_sharing,
                   scan_done, owner, loader, todo, inhand, held, mainState, shares>>

LoadCount ==
    /\ scanner = "load"
    /\ held' = shared /\ scanner' = "store"
    /\ UNCHANGED <<lists, disk, saved, share_files, load_files, in_load, in_sharing,
                   scan_done, owner, loader, todo, inhand, mainState, shares>>

StoreCount ==
    /\ scanner = "store"
    /\ shared' = held - 1 /\ held' = 0 /\ scanner' = "free"
    /\ UNCHANGED <<listed, flagged, total, short, disk, saved, share_files, load_files,
                   in_load, in_sharing, scan_done, owner, loader, todo, inhand, mainState,
                   shares>>

FreeFile ==
    /\ scanner = "free"
    /\ WalkApart => walk # inhand
    /\ total' = total - 1 /\ flagged' = flagged \ {inhand}
    /\ inhand' = 0 /\ scanner' = "files"
    /\ UNCHANGED <<listed, shared, short, disk, saved, share_files, load_files, in_load,
                   in_sharing, scan_done, owner, loader, todo, held, mainState, shares>>

ScanNext ==
    /\ scanner = "files" /\ todo = {}
    /\ share_files' = Tail(share_files) /\ scanner' = "entry"
    /\ UNCHANGED <<lists, disk, saved, load_files, in_load, in_sharing, scan_done, owner,
                   loader, todo, inhand, held, mainState, shares>>

ScanDone ==
    /\ scanner = "entry" /\ share_files = <<>>
    /\ scan_done' = TRUE /\ scanner' = "unlock"
    /\ UNCHANGED <<lists, disk, saved, share_files, load_files, in_load, in_sharing, owner,
                   loader, todo, inhand, held, mainState, shares>>

ScanUnlocks ==
    /\ scanner = "unlock"
    /\ owner' = "none" /\ scanner' = "leave"
    /\ UNCHANGED <<lists, disk, saved, share_files, load_files, in_load, in_sharing,
                   scan_done, loader, todo, inhand, held, mainState, shares>>

ScanLeaves ==
    /\ scanner = "leave"
    /\ in_load' = in_load - 1 /\ scanner' = "ended"
    /\ UNCHANGED <<lists, disk, saved, share_files, load_files, in_sharing, scan_done,
                   owner, loader, todo, inhand, held, mainState, shares>>

\* scan_is_done(), at the end of a turn: the main loop waits for the thread.
JoinScan ==
    /\ Reads /\ sharer = "idle" /\ scan_done
    /\ sharer' = "joining"
    /\ UNCHANGED <<lists, disk, saved, share_files, load_files, in_load, in_sharing,
                   scan_done, threadState, cursor, walk, shares>>

ScanJoined ==
    /\ sharer = "joining" /\ scanner = "ended"
    /\ sharer' = "idle" /\ scan_done' = FALSE /\ scanner' = "none"
    /\ UNCHANGED <<lists, disk, saved, share_files, load_files, in_load, in_sharing, owner,
                   loader, todo, inhand, held, cursor, walk, shares>>

----------------------------------------------------------------------------
(* The loading thread *)

LoadLocks ==
    /\ loader = "born" /\ owner = "none"
    /\ owner' = "load" /\ loader' = "count"
    /\ in_load' = in_load + 1
    /\ UNCHANGED <<lists, disk, saved, share_files, load_files, in_sharing, scan_done,
                   scanner, todo, inhand, held, mainState, shares>>

\* load_shared(), for the files that are not on the list
LoadShared ==
    /\ loader = "count"
    /\ AddFiles(saved) /\ load_files' = 0 /\ loader' = "leave"
    /\ UNCHANGED <<disk, saved, share_files, in_load, in_sharing, scan_done, owner,
                   scanner, todo, inhand, held, mainState, shares>>

\* Mutant: the mutex is not released.
LoadLeavesLocked ==
    /\ loader = "leave"
    /\ in_load' = in_load - 1 /\ loader' = "none"
    /\ UNCHANGED <<lists, disk, saved, share_files, load_files, in_sharing, scan_done,
                   owner, scanner, todo, inhand, held, mainState, shares>>

LoadLeaves ==
    /\ loader = "leave"
    /\ in_load' = in_load - 1
    /\ owner' = "none" /\ loader' = "none"
    /\ UNCHANGED <<lists, disk, saved, share_files, load_files, in_sharing, scan_done,
                   scanner, todo, inhand, held, mainState, shares>>

\* The user deletes a file.
FileVanishes ==
    /\ \E f \in disk : disk' = disk \ {f}
    /\ UNCHANGED <<lists, saved, share_files, load_files, in_load, in_sharing, scan_done,
                   threadState, mainState, shares>>

----------------------------------------------------------------------------

ScanSteps == \/ ScanBegins \/ ScanLocks \/ ScanEntry \/ ScanFile
             \/ LookShared \/ LoadCount \/ StoreCount \/ FreeFile
             \/ ScanNext \/ ScanDone \/ ScanUnlocks \/ ScanLeaves

LoadSteps == LoadLocks \/ LoadShared \/ LoadLeaves

ShareSteps == \/ ClearFlag \/ ResetShared
              \/ SharePacket \/ NothingToShare \/ SendFails \/ JoinScan \/ ScanJoined

ShareCommands == \/ \E r \in Requested : ShareCommand(r)
                 \/ UnshareNap \/ ClearNap \/ RemoveNap \/ SaveShared \/ StartShare

SharingNext == \/ ScanSteps \/ LoadSteps \/ ShareSteps \/ ShareCommands
               \/ ServerLost \/ FileVanishes

\* Threads are scheduled, a mutex that is free is got, and do_share() goes on.
SharingFairness ==
    WF_sharingVars(ScanSteps) /\ WF_sharingVars(LoadSteps) /\ WF_sharingVars(ShareSteps)

SharingSpec == SharingInit /\ [][SharingNext]_sharingVars /\ SharingFairness

----------------------------------------------------------------------------
(* Properties *)

\* do_share() keeps a pointer into the list across turns of the main loop and
\* the other commands can free what it points to; what keeps them off is
\* in_sharing.
CursorStays == cursor # 0 => cursor \in listed

\* Nothing keeps a thread off while close_server() walks the list: a thread may take
\* away the file under it, and must not free it (this is what WalkApart assumes).
WalkStays == walk \in Shareable => walk \in listed \cup Carried

\* The list and its counters: total_files is the length of the list, and
\* shared_files, an unsigned number from which each shared file that goes is
\* taken, never falls below the number of those.  (It may be more: a file can be
\* sent twice, or not at all.)  What a server that is lost while the thread has a
\* file in its hand costs is one: the counter may then be one short, below 0 even.
CountsHold ==
    /\ total = Cardinality(listed) + Cardinality(Carried)
    /\ shared >= Cardinality(flagged \cap listed) - (IF short THEN 1 ELSE 0)

\* Neither a turn of the main loop nor a thread pulls the list from under do_share()
\* or a walk, and the counters go with the list.
ShareListSound == CursorStays /\ WalkStays /\ CountsHold

\* Loading ends: until it does, /share answers "Please wait while we finish
\* loading files".
LoadingEnds == in_load # 0 ~> in_load = 0
=============================================================================
