------------------------------ MODULE FileLinks ------------------------------
(***************************************************************************)
(* Files that other clients offer, and the downloads made of them.  A      *)
(* FileStruct is on a server's list of search results, on the list of what *)
(* a user was browsed for, or on a list of offers to resume a file; the    *)
(* GetFile made of one points back at it, so that each has to clear the    *)
(* other's pointer before it goes (files.c, napster.c, browse.c).          *)
(***************************************************************************)
EXTENDS Naturals, FiniteSets

CONSTANTS
    NEntries, \* bound: FileStructs made
    NGets     \* bound: GetFiles made

ASSUME FileLinksAssumption == NEntries \in Nat /\ NGets \in Nat

Entries == 1 .. NEntries
Gets == 1 .. NGets

VARIABLES
    shelf,      \* the list each FileStruct is on, or that it is freed
    getfile,    \* its pointer to a GetFile, 0 for NULL
    place,      \* where each GetFile is
    filestruct, \* its pointer to a FileStruct, 0 for NULL
    strayed     \* history: asked for again while it was fetched, or resumed

fileVars == <<shelf, getfile, place, filestruct, strayed>>

Shelves == {"results", "browsed", "offers"}

\* transfer_struct without and with a socket, a user's Queued, no list at all,
\* finished_struct
Pending == {"listed", "active", "queued", "lost"}
Standings == Pending \cup {"unmade", "finished", "freed"}

FileLinksTypeOK ==
    /\ shelf \in [Entries -> Shelves \cup {"unmade", "freed"}]
    /\ getfile \in [Entries -> 0 .. NGets]
    /\ place \in [Gets -> Standings]
    /\ filestruct \in [Gets -> 0 .. NEntries]
    /\ strayed \subseteq Entries

FileLinksInit ==
    /\ shelf = [e \in Entries |-> "unmade"] /\ getfile = [e \in Entries |-> 0]
    /\ place = [g \in Gets |-> "unmade"] /\ filestruct = [g \in Gets |-> 0]
    /\ strayed = {}

OnShelf(s) == {e \in Entries : shelf[e] = s}
At(p) == {g \in Gets : place[g] = p}

----------------------------------------------------------------------------
(* The lists of files *)

\* A search result, a browsed file or an offer comes: the lists grow in the
\* order in which the FileStructs are numbered.
EntryComes(s) ==
    /\ \E e \in Entries :
         /\ shelf[e] = "unmade" /\ \A d \in 1 .. e - 1 : shelf[d] # "unmade"
         /\ shelf' = [shelf EXCEPT ![e] = s]
    /\ UNCHANGED <<getfile, place, filestruct, strayed>>

\* clear_filelist(): the downloads made of the files lose their pointers.
ClearFilelist(s, links) ==
    /\ shelf' = [e \in Entries |-> IF shelf[e] = s THEN "freed" ELSE shelf[e]]
    /\ filestruct' = [g \in Gets |->
                        IF \E e \in OnShelf(s) : getfile[e] = g THEN 0 ELSE links[g]]

\* /search begins with this, and a server that is lost takes its results along.
Search ==
    /\ OnShelf("results") # {}
    /\ ClearFilelist("results", filestruct)
    /\ UNCHANGED <<getfile, place, strayed>>

\* free_nickstruct(), for a user who is gone or whose server is lost: what is
\* queued for him goes with the files he was browsed for.
FreeNickstruct ==
    /\ OnShelf("browsed") \cup At("queued") # {}
    /\ place' = [g \in Gets |-> IF g \in At("queued") THEN "freed" ELSE place[g]]
    /\ ClearFilelist("browsed", filestruct)
    /\ getfile' = [e \in Entries |->
                     IF \E g \in At("queued") : filestruct[g] = e THEN 0 ELSE getfile[e]]
    /\ UNCHANGED strayed

\* /browse -clear frees the user and not what is queued for him.
BrowseClear ==
    /\ OnShelf("browsed") \cup At("queued") # {}
    /\ ClearFilelist("browsed", filestruct)
    /\ place' = [g \in Gets |-> IF g \in At("queued") THEN "lost" ELSE place[g]]
    /\ UNCHANGED <<getfile, strayed>>

----------------------------------------------------------------------------
(* Downloads *)

\* create_and_do_get(): the file is asked for, which may be done again.
CreateAndDoGet(e, g) ==
    /\ place[g] = "unmade" /\ \A h \in 1 .. g - 1 : place[h] # "unmade"
    /\ place' = [place EXCEPT ![g] = "listed"]
    /\ getfile' = [getfile EXCEPT ![e] = g]
    /\ filestruct' = [filestruct EXCEPT ![g] = e]

\* /get
Get(e, g) ==
    /\ shelf[e] \in {"results", "browsed"}
    /\ CreateAndDoGet(e, g)
    /\ strayed' = IF getfile[e] = 0 THEN strayed ELSE strayed \cup {e}
    /\ UNCHANGED shelf

\* /resume takes the file off its list and frees it when it has asked for it.
Resume(e, g) ==
    /\ shelf[e] = "offers"
    /\ CreateAndDoGet(e, g)
    /\ strayed' = strayed \cup {e}
    /\ shelf' = [shelf EXCEPT ![e] = "freed"]

\* cmd_toomanyfiles(): the server has the user wait.
Toomanyfiles(g) ==
    /\ place[g] = "listed"
    /\ place' = [place EXCEPT ![g] = "queued"]
    /\ UNCHANGED <<shelf, getfile, filestruct, strayed>>

\* clean_queue() asks for it again.
AskAgain(g) ==
    /\ place[g] = "queued"
    /\ place' = [place EXCEPT ![g] = "listed"]
    /\ UNCHANGED <<shelf, getfile, filestruct, strayed>>

\* create_and_get() or nap_firewall_get(): there is a connection.
Connects(g) ==
    /\ place[g] \in {"listed", "queued"}
    /\ place' = [place EXCEPT ![g] = "active"]
    /\ UNCHANGED <<shelf, getfile, filestruct, strayed>>

\* nap_firewall_get() cannot open the file: the download is taken off the list
\* before the socket knows it, and is on no list any more.
Loses(g) ==
    /\ place[g] = "listed"
    /\ place' = [place EXCEPT ![g] = "lost"]
    /\ UNCHANGED <<shelf, getfile, filestruct, strayed>>

\* Mutant: a download that has not begun is put among the finished as it is.
FinishedAsItIs(g) ==
    /\ place' = [place EXCEPT ![g] = "finished"]
    /\ UNCHANGED getfile

\* nap_finished_file(), and nap_del() and clean_queue() for one without a
\* socket.  The pointer back is kept and not used again.
Finished(g) ==
    /\ place' = [place EXCEPT ![g] = "finished"]
    /\ getfile' = IF filestruct[g] = 0 THEN getfile ELSE [getfile EXCEPT ![filestruct[g]] = 0]

\* A transfer ends, or one on the list is deleted or is cleaned away.
Ends(g) ==
    /\ place[g] \in {"listed", "active"}
    /\ Finished(g)
    /\ UNCHANGED <<shelf, filestruct, strayed>>

\* clean_sockets(), in the main loop
CleanSockets ==
    /\ At("finished") # {}
    /\ place' = [g \in Gets |-> IF place[g] = "finished" THEN "freed" ELSE place[g]]
    /\ UNCHANGED <<shelf, getfile, filestruct, strayed>>

----------------------------------------------------------------------------

FileLinksNext ==
    \/ \E s \in Shelves : EntryComes(s)
    \/ \E e \in Entries, g \in Gets : Get(e, g) \/ Resume(e, g)
    \/ \E g \in Gets : Toomanyfiles(g) \/ AskAgain(g) \/ Connects(g) \/ Loses(g) \/ Ends(g)
    \/ Search \/ FreeNickstruct \/ BrowseClear \/ CleanSockets

FileLinksSpec == FileLinksInit /\ [][FileLinksNext]_fileVars

----------------------------------------------------------------------------
(* Property *)

\* A file that is on a list points at no download that is over.  A download that
\* is not over points at a file on a list, but for files fetched twice at a time,
\* of which only the last download is remembered, and for resumed ones.
LinksSound ==
    /\ \A e \in Entries :
          shelf[e] \in Shelves /\ getfile[e] # 0 => place[getfile[e]] \in Pending
    /\ \A g \in Gets :
          place[g] \in Pending /\ filestruct[g] # 0 =>
              shelf[filestruct[g]] \in Shelves \/ filestruct[g] \in strayed
=============================================================================
