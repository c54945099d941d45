# TekNap: specifications, model checking and proofs

TekNap is a console client for the Napster protocol.  It is one C program of
some sixty source files (`src/source`, headers in `src/include`) that grew out
of the IRC clients ircII and BitchX.  It keeps a connection to one or more
Napster servers, searches and browses through them, and exchanges files and
chat directly with other clients.

This directory holds TLA+ modules translated from that source, configurations
with which TLC checks them on small instances, and proofs that TLAPS checks for
instances of every size.  Every definition that stands for code names the
function it stands for, in a comment and, with its lines, in `PROJECT.json`.

Contents: 1 the program; 2 what is hard in it; 3 the modules; 4 the runs;
5 fairness; 6 what the violations show; 7 what is proved; 8 what is only
model-checked; 9 what is not modelled; 10 the plan; 11 how to run it.

## 1. The program

TekNap is event driven.  `main()` ends in a loop around `io()`
(`main.c` 780-976), and one turn of that loop

1. computes the sets of descriptors to wait for: the terminal, the servers, the
   pipes of child processes and worker threads, and every socket registered
   with the socket manager;
2. selects, with a timeout taken from the first timer (`TimerTimeout`);
3. runs the handlers of the terminal, the servers, the processes and the
   threads, then walks the socket table once and runs read and write handlers
   and timeouts (`scan_sockets`);
4. if a descriptor was ready, frees the transfers that have ended
   (`clean_sockets`);
5. runs the timers that have come due (`ExecuteTimers`);
6. when the minute has changed, sweeps the list of transfers and the queues of
   downloads (`clean_queue`).

With three exceptions everything happens in this one thread, and a handler
runs to its end before the next begins.  What makes the program hard is not
data races but re-entry, pointers kept across turns, and the order in which
answers arrive.

### 1.1 Components

Each with its state, its operations, what it exchanges with the others, and what
makes it correct.  `PROJECT.json` says of each which modules model it and what of
it is left out.

**Socket manager** (`server.c` 54-411, `newio.c` 540-671, `main.c` 780-968).
State: a table with one slot per descriptor (`is_read`, `is_write`, a pointer
`info`, two handlers, a timeout), the number of slots in use, the highest one;
under it the descriptor sets and `global_max_fd` of `newio.c`.
Operations: `add_socketread`, `close_socketread`, `set_socketinfo`,
`add_sockettimeout`, `set_socket_read`, `scan_sockets`, `close_all_sockets`.
Every other part that owns a connection registers it here, is called back from
here, and calls back into it from within the walk.
Correct when: count and bounds are exact; a closed slot cannot act; the walk
misses nobody who is ready; nothing is left open at exit.

**Transfers** (`files.c`, `send.c`, `list.c`, parts of `napster.c` and
`commands.c`).  State: `GetFile` records on three kinds of list (the list of
transfers `transfer_struct`, the list of those that have ended
`finished_struct`, and a queue per user of downloads put off), each record with
a descriptor, a file, a start time and several flags; the limit a user has told.
Operations: `/get`, `/request`, `/dccget`, `/delete`, `/queue`; messages 203,
204, 500, 501, 607, 620, 626 and 404; the handlers of the listening socket and
of the connections in each of their stages; `clean_queue` and `clean_sockets`.
A slot of the socket table points to a record and the record names the slot's
descriptor; a record and the search result it was made from point to each other;
the server is told of the beginning and the end of each transfer (218-221).
Correct when: lists and pointers are sound, a record is on one list and is
freed once, none is lost, descriptor and record find each other, the counts the
server keeps agree, each byte comes to its place in the file, a transfer that
does not begin is removed and a download put off is asked for again.

**Resume list** (`files.c` 1110-1335).  State: the unfinished downloads, in memory
and in a file.  A download that ends early is added, `/resume` takes entries off,
the list is read at start and saved.  Correct when: what was unfinished before a
restart can be resumed after it.

**Direct client connections** (`send.c` 483-770, `files.c` 1340-1452, `browse.c`).
State: chats and browses over the data port, in stages, with timers.
Correct when: a browse shows every file once, whichever side ends it.

**Timers** (`timer.c`).  State: the ordered list `PendingTimers`; the timer that
runs is off it.  A timer runs commands, which change the list and may turn the
main loop again.  Correct when: the list is in order, timers run in order, a
pass ends, no timer stays overdue, reference numbers tell timers apart.

**Server connection** (`server.c`, `napster.c`, `newio.c`).  State: the array of
servers with their descriptors, the stages of login, receive buffers, and the
channels of the windows.  Correct when: messages are cut at their lengths
whatever the packets, a lost connection leads back to a login, and the windows
are in the channels that the server has the user in.

**Sharing** (`share.c`).  State: the list of shared files and its counters, built
by threads that share two mutexes with the main loop, and told to the server a
few files at a time.  Correct when: no deadlock, nobody reads the list while it
is replaced, every file is told once.

**Name lookups and port tests** (`cdns.c`, `ptest.c`).  State: two worker threads,
each with a queue of requests and a queue of answers and a condition variable.
Correct when: every request is answered once, and a thread can be stopped.

**Flood protection and ignores, channels and users** (`napster.c`, `flood.c`,
`commands.c`).  State: channels with the users in them, the hotlist, who is
ignored, counters of floods.  Correct when: they agree with the server's, and
nobody is ignored unjustly.

**Processes** (`exec.c`).  State: the child processes of `/exec` and their pipes.
Correct when: exits are collected once, and pipes are drained before an entry goes.

**Script interpreter, hooks, arrays** (`alias.c`, `expr.c`, `expr2.c`,
`functions.c`, `words.c`, `reg.c`, `alist.c`, `array.c`, `hook.c`, `commands.c`,
`if.c`).  State: aliases and variables with their stacks and caches, frames of
local variables, sorted arrays, the user's hooks, files of commands being loaded.
Correct when: what is named is found, what is run ends where it began, and the
lists may be changed from within.

**User interface** (`window.c`, `screen.c`, `status.c`, `input.c`, `keys.c`,
`history.c`).  State: the windows of a screen and their lines, the input line,
questions, bindings of keys, the history.
Correct when: the windows fill the terminal, what is on it is what was written,
and the line typed is shown as it is.

**Settings** (`vars.c`).  State: the table of settings and what their callbacks
put into effect.  Correct when: what is saved comes back.

**Players and shells** (`mp3*.c`, `tgtk.c`, ...), **portability and utilities**
(`compat.c`, `md5.c`, ...): see section 9.

## 2. What is hard in it

`PROJECT.json` lists the hazards one by one, each at the line where it bites and
with the properties that watch it.  They fall into these groups.

* *The table under the walk.*  `scan_sockets` walks the table while the handlers
  it calls register, close and time out sockets, its own and others.  A
  descriptor that is closed may be opened again, and registered, before the
  walk reaches it.
* *Stale descriptors.*  `close_socketread` is called with descriptors that are
  -1, or closed long ago, or never registered.
* *Two ways to a record.*  A record is reached through a list and through the
  `info` of a slot.  Functions that end a transfer take the descriptor, not the
  record, and act on whatever the slot leads to.
* *Lists linked by hand.*  `break_from_list` trusts the record's own `prev` and
  `next`.  `/request` and a push (501) link a record at the head, and the first
  does not tell its successor.
* *Answers after the fact.*  A 204 for a download already connected, deleted or
  timed out; a connection for an upload already served; a 620 for a download
  that is gone.
* *Counts.*  What the server is told of transfers must pair on every path.
* *Limits.*  The number of uploads is compared with the length of a list on which
  waiting and sending records lie; a limit reported as 0 stands for `not told'.
* *Lists changed from within.*  Timers, hooks, processes, aliases and loads run
  commands that change the very list they were taken from.
* *Threads.*  Sharing and the two workers exchange queues, flags and mutexes with
  the main loop, which does not always ask them first.
* *Restarts.*  The resume list and the settings outlive the program.
* *Two pictures of one thing.*  The server's channels and the windows', the row of
  the terminal and the line typed, the stored lines and what is scrolled back.
* *Boundaries.*  Parts of a header, a size that comes in two packets, tables that
  grow and shrink, words in quotes, separators at the end.

## 3. The modules

One module per component.  A machine has its state as variables, `Init`, one
action per operation, handler or command, and a `Next`; a function of the program
that is called by several is an operator.  Where a module leaves out what breaks
its properties, it does so with a constant (`Careful`, `Unsafe`, `Faulty`, ...)
named and explained at its declaration: set the other way, TLC finds the property
violated (section 4.6).

| module | models | source |
|---|---|---|
| `SocketTable` | the table of sockets and its operations, as operators on a record | `server.c` |
| `SocketManager` | the table driven by `io()`, with arbitrary handlers | `server.c`, `newio.c`, `main.c` |
| `Downloads` | the records, lists and descriptors of transfers; the actions that fetch | `files.c`, `list.c`, `server.c` |
| `Uploads` | the actions that send, and the listening socket | `send.c`, `files.c` |
| `Transfers` | the user's commands, the sweeps, the queue; the properties | `files.c`, `main.c`, `napster.c`, `commands.c` |
| `TransferLife` | the abstract life of a transfer | |
| `ByteTransfer` | the bytes of one transfer, sizes and offsets, resuming | `files.c`, `send.c` |
| `FileLinks` | search results and transfers with their pointers to each other | `files.c`, `napster.c` |
| `Unfinished` | the resume list in memory and in its file, over restarts | `files.c`, `main.c` |
| `Browses` | direct browses from either side | `browse.c`, `napster.c` |
| `Timers` | the list of timers and `ExecuteTimers` | `timer.c` |
| `Framing` | messages out of packets cut anywhere | `newio.c`, `server.c` |
| `ServerLink` | connections to servers and the channels of the windows | `server.c`, `window.c`, `napster.c` |
| `Community` | channels, names, the hotlist, ignores and floods | `napster.c`, `flood.c`, `list.c`, `commands.c` |
| `Sharing` | the shared files and the two threads that find them | `share.c`, `main.c` |
| `Workers` | the lookup and port-test threads | `cdns.c`, `ptest.c` |
| `Exec` | child processes | `exec.c`, `main.c` |
| `Hooks` | the hooks of an event, run and changed | `hook.c` |
| `Aliases` | aliases and variables, stubs, caches, `/stack` | `alias.c` |
| `Alist` | sorted arrays with hashes | `alist.c` |
| `Control` | loops, blocks, frames and exceptions of scripts | `commands.c`, `if.c`, `alias.c` |
| `Expressions` | both evaluators | `expr.c`, `expr2.c` |
| `Texts` | functions on words, and on characters | `words.c`, `ircaux.c`, `functions.c` |
| `Patterns` | matching with wildcards | `reg.c` |
| `Arrays` | the arrays of scripts | `array.c` |
| `Loading` | files of commands, what a name means, waits | `commands.c`, `ircaux.c` |
| `Windows` | the windows of a screen | `window.c` |
| `Display` | the lines of a window, scrolled back and held | `window.c`, `screen.c` |
| `Wrap`, `Attributes` | the breaking of lines; attributes and colours | `screen.c` |
| `StatusLine` | status lines and their expandos | `status.c` |
| `InputLine` | the editing of the line and its row | `input.c` |
| `Completion` | the key that completes what is typed | `input.c`, `commands.c`, `server.c` |
| `Prompts` | questions, drafts, the history | `input.c`, `screen.c`, `history.c` |
| `Keys` | bindings of keys and what typed keys run | `keys.c`, `input.c` |
| `Settings` | the table of settings and its callbacks | `vars.c` and others |
| `MCTransfers`, `MCLive`, `MCParts` | instances for TLC | |
| `*_proofs` | lemmas and theorems (section 7) | |

`Transfers` composes the socket table and the transfers: the handlers of the
transfers work on the same table as `SocketManager`, through the same operators.
`SocketManager` in turn leaves the handlers open, so that what it shows holds for
the handlers of every part of the program.  The other machines share no state:
`MCLive` and `MCParts` put them side by side, and a behaviour is one of the
machine that the variable `part` names.  This is a way of checking them in two
runs, and claims nothing of how they interact.

### 3.1 SocketTable and SocketManager

A table is a record `[slot, count, max_fd]`; a slot has the fields of
`struct _sock_manager`.  `Registered(m)` are the descriptors `s` with
`slot[s].is_read = s`.  The C table is allocated when first used, with zeros;
`ZeroSlot` is such a slot and `ClosedSlot` one that was closed, and the two
differ (`is_read` is 0 in one and -1 in the other).  `CheckSocket` is
`check_socket()`: it looks at the count first.  `CloseSocketRead` wipes every
slot that passes that test, a closed one again, but counts down only for one in
use (`Releases`).

`SocketManager` adds the descriptors open in the kernel, the sets of `newio.c`,
a clock and the program counter of one turn of `io()`: `Select`, `StartScan`,
`ScanRead`, `ScanWrite`, `ScanTimeout`, `ScanEnds`.  While a handler runs
(`pc \in Running`) any number of `Open`, `Close`, `StartWriting`, `SetTimeout`,
`OpenUnregistered`, `CloseUnregistered` happen, then `HandlerReturns`.  A fresh
descriptor is the lowest free one, as POSIX has it, which is what makes reuse
under the walk common.  The history variable `owed` holds the sockets that
select reported, that the walk has not served and that nobody has closed.

### 3.2 Downloads, Uploads, Transfers

A *world* `w` is a record with the cells of memory, the three heads, the table,
the open descriptors and the counts told to the server.  A C function is an
operator from a world to a world, or to the set of worlds it may return.  Cells
are used again after they are freed and keep their contents until then, so that
a stale pointer leads where it leads in the program.  `Unlink` is
`break_from_list`, statement by statement, since its outcome on a list that is
*not* sound matters.  The walks (`At`, `On`) follow `next`.

The variables are `mem`, the world; `asked`, for each file the requests (203)
the server has yet to answer; and `limit`, the other user's limit as told.  One
other user is modelled, with several files; every action is one run of a
handler or command.  `Reading(f)` are the sockets whose next read goes to `f`, so
the stages of a connection are the values of `func_read`, as in the code.

| action | code |
|---|---|
| `GetFile_`, `Request` | `/get` through `create_and_do_get`; `/request` |
| `CmdGetFile` | 204, `cmd_getfile` and `create_and_get` |
| `NotAnswered` | an answer to a 203 with no address |
| `DccOffer`, `DccGet` | a file offered in a message, taken at once or (`ALLOW_DCC` off) put on the list; `/dccget` |
| `NapGetfilestart`, `NapGetfile`, `NapFirewallGet` | the reads of a download |
| `CmdFilerequest`, `CmdAccepterror`, `CmdFirewallRequest` | 607, 626, 501 |
| `NaplinkHandlelink`, `NaplinkHandleconnect` | the data port, whose greeting may fail (`Ungreeted`), and its first bytes |
| `NapfileRead`, `NapfileSendfile`, `NapFirewallStart1` | the reads and writes of an upload |
| `NapDel` | `/delete`, of some entries or of all |
| `CleanQueue`, `RunCleanSockets` | the two sweeps |
| `CmdToomanyfiles`, `QueueRemove`, `CmdNosuchnick` | 620; `/queue -remove`, `-clear`; 404 |

Loops over a list that the body changes (`nap_del`, `clean_queue`,
`clean_sockets`, `/queue -remove`) are recursive functions that carry the record
the loop stands on, with `next` read where the code reads it (`DropEach`,
`ExpireThose`, `DequeueThose`, `Walk`).

Data are abstracted to what decides control: of the size only whether it has
come (`count`), of the data only the last of them, of an offset whether it is in
the file.  `Tell` counts the messages 218/219 and 220/221, clipped at
`SentBound`.

The constant `Happens` names the choices outside the ordinary course that a run
includes; without any, the other client and the server behave and nothing
fails.  This is how the runs and the theorems separate what the code guarantees
always from what it guarantees only in ordinary circumstances (section 4.3).

`TransferLife` has no list and no pointer: a transfer is wanted, perhaps put
off, gets a connection of its own, moves data, and ends once.  `Transfers`
instantiates it with `Phases`, a function of the world, and states
`LifeKept == Life!Spec`, checked by TLC on an instance and proved for all (7.2).

### 3.3 Other connections and files

*ByteTransfer.*  The size and the offset travel as digits, the data in chunks;
`count`, `fseek` and the length of the file on disk decide where a byte goes.
`Seekers` says which senders seek to the offset asked for: this program as a
sender does not (`send.c` 337), and a file resumed from it has the beginning
twice.  `SizeSplit` lets the size come in two packets, of which the code reads
only the first (`files.c` 495).  With either, `BytesInPlace` is violated.

*FileLinks.*  `FileStruct` and `GetFile` with their pointers to each other.  The
property covers what one list of results can do.  Not kept by the code, and left
out of the actions: a file fetched twice leaves the older `GetFile` with a
pointer back; `/resume` frees a `FileStruct` that is pointed to, against the
comment at `files.c` 446-448; `/browse -clear` loses downloads put off.

*Unfinished.*  Lines of the file are appended and, at an orderly end, the file is
written anew in place, which overwrites what this run has added when the list
read at start was not empty; `ResumeKept` allows exactly that loss.
`remove_from_resume` is never called.

*Browses.*  The lists are sent `PerTurn` files a turn into a socket buffer that
may be full, with the 180 s timer on the receiver.  `Crowded`, `Rescans`,
`Forgets`: more than one browse of a user at once, a rescan while a list is sent,
a connection forgotten; each violates `BrowsesSound`.

*Framing.*  Header and body of a message over packets cut anywhere, by two readers:
`HeaderPieces` (a header in three packets is lost), `BigBuffer` (a message longer
than the buffer), and `HandlersTurn` (a handler that turns the main loop reads
into the buffer it was called with) are the limits within which `Framed` holds.
`new_dgets`, which reads lines, is in `Exec`.

*ServerLink.*  Windows with their servers and channels, `waiting_channels`, joins
that are answered later, losses, `/server`, the timer that reconnects.  Whether a
server accepts a connection (`accepting`) is the server's affair and changes at any
time (`ChangeReach`); the timer comes back for as long as it does not, and also when
no window lacks the server any more, as in the code.  `lost` remembers the windows
whose connection was lost and not made again.
`LossAnytime = FALSE` keeps a connection up while a join is unanswered: a join
that is unanswered at a loss is forgotten by the code.  `ConnectsTwice = FALSE` keeps
the user from `/server` to a server that is connected: nothing in `window_server()` or
`connect_to_server_by_refnum()` asks whether it is, the second connection takes the
place of the first in `server_list` without closing it, and the windows keep channels
the new connection is not in.  Found, and not in the
properties: with two servers a reconnect takes over windows of the other
(comment at `window.c` 1833-1840); `cmd_joined` reads `new` uninitialised if no
window has the server; the reconnection timer of a server without a window is
made again for ever.

*Community.*  The server's channels, hotlist and users against the client's, with
messages on the way, listings among joins, floods by time.  `PartsEarly` (a part
acknowledged before names arrive) and a flood size of 0 violate it.  Noted in the
code: `floods` of a slot taken over is not reset; the comment on the values that
`check_flooding` returns is reversed; a friend who is absent is shown with the
speed of somebody else; a channel parted in another window stays that window's
current channel; `cmd_topic` leaks the old topic.

### 3.4 What runs by itself

*Timers.*  `PendingTimers` is a sequence, since the code only ever inserts in order,
removes one and takes the head.  `current` holds the timer that runs, off the list
as in the code.  Times are ticks, `Second` of them to a second, for the sake of one
detail: rescheduling computes the new second and then puts the *address of the
timer* modulo a million in place of the microseconds (`timer.c` 235-237).
`fraction` is that address, chosen when the timer is made.  `Nested` names what a
timer that runs may do.  `waiting` stands for a `/wait` under way.

*Workers.*  Requests, the mutex, the condition, the answers and the byte in the
pipe that wakes the main loop, stop and start.  `thread_dead` is never reset;
stopping throws queued requests away; `/set PTEST ON` while it is on starts a
second thread on the same queues (not modelled).

*Sharing.*  The threads' loops, the mutex, `in_load` and `in_sharing` (plain
integers read without a mutex), and `do_share`, which turns the main loop between
packets.  Two things go by without regard to the threads, and the model has both:

* the test at the head of `/share` (`share.c` 1489, `MayShare`) does not see a thread
  that was created and has not begun: `/share -clear` or `-share` may come between
  (`scanner` or `loader` is "born", and the counters are still 0);
* a server that is lost (`close_server`, `server.c` 760 and 773) clears the flags file
  by file (`ClearFlag`) and then zeroes `shared_files` (`ResetShared`), in the middle of
  whatever a thread does.  So the thread's taking a missing file off the list is
  in the steps in which it reads and writes what the main loop writes too: off the
  list (`ScanFile`), `if (r->shared)` (`LookShared`), `shared_files--` in two
  (`LoadCount`, `StoreCount`), the rest and `remove_file()` (`FreeFile`).

What comes of the second: when the server is lost with a shared file in the thread's
hand, that file is still counted out afterwards, and `shared_files`, an unsigned long,
may end one below 0 until it is next reset (`short` marks that time, and `CountsHold`
allows for one).  And the thread may free the very file the walk of `clear_shared()`
stands on, whose `next` is then read from freed memory: with `WalkApart = FALSE` TLC
shows it (`WalkStays`); `WalkApart = TRUE` leaves it out.

One step each, though not atomic in C: `in_load++` and `in_load--`, the loop of a
command over the list, `load_shared()`, and of a file that is added the linking and
counting.  Not modelled: `do_share(NULL)` at login with `AUTO_SHARE`
(`napster.c` 258), which tests neither counter.  `-share` is refused while directories
wait to be read (`share.c` 1538).  `OneOfAKind` is a bound: the code would create a second
thread of a kind while the first has not begun.  The second `clear_shared()` for the
last server (`server.c` 801) changes nothing.  Noted: `do_share` skips the last file
when it is alone in its directory, and counts again what was shared before; `-load`
twice drops the first list.

*Exec.*  A process with its two pipes, exits collected by signal, hooks that run in
the middle.  Lines come through `new_dgets()` with its buffer per descriptor: `unread`
is what is in the pipe, `io` what is in the buffer, both as a number of whole lines
and perhaps a part of one behind them.  A buffered line makes the descriptor ready and
keeps `select()` from being called at all (`new_select`).  A call reads all there is in
the pipe and hands out one line.  With no whole line it returns 0, leaves the part in
the buffer and its `str` unset, and `handle_filedesc()` runs the hook all the same, with
whatever is in `exec_buffer` (`HandlePart`; whether that begins with the end of a line,
and so counts as one, is left open).  The comment above `new_dgets()` (`newio.c`
161-162: if "buffer" is 0, what is available "will be returned in str") says otherwise,
and the argument `buffer` is used nowhere.  A part is dropped at the end of the output
(`HandleEnd`) and when it fills the buffer or came in more than `MAX_SEGMENTS` reads
(`GiveUpOutput`); both close the output.  `Merged = TRUE` (two deaths before one signal
is handled) with three processes violates `ProcessesGo` (comment at `exec.c` 859-867);
hooks that close processes violate `ExecSound`.  A descriptor that is closed and given
to a new process in the same turn is still marked ready, and the new output is then
taken to be at its end: `forgotten` notes it.  Not modelled: buffered lines of other
descriptors, and descriptors of other parts used again; the branch of `new_dgets()` for
a descriptor that is not ready (`newio.c` 279-293) is out of reach here, since processes
are only asked what `select()` or the buffer has.

### 3.5 Scripts

*Hooks* are run from the list they may change; with `Recursive`, with code that
drops other hooks than its own, or with two serial numbers at once (comment near
`hook.c` 790) a hook is used after it is freed.  *Aliases* includes stubs whose file
is loaded when the alias is used: a file that deletes the alias, defines nothing or
replaces it violates the property (`alias.c` 1180-1184), as does `/stack push` of a
name pushed before (`alias.c` 2283, against its help).  *Alist* keeps names sorted by
hash and text; letters must be apart by less than half the range of the hash.
*Control* shows that every construct leaves frames and exceptions as it found them,
except for `do` (`if.c` 187-216), exceptions where none are expected, and braces
that do not balance (`commands.c` 1439).  *Expressions* compares the two evaluators
with a grammar: `UnitsParens`, `BareMiddle` and `post--` name where they misread;
`&&=` does not short-circuit, and the old evaluator works from the right
(against `teknap-help/7_Docs/Expressions` 32).  *Arrays*, *Texts* and *Patterns*
compare functions with what they are documented to return, over all inputs up to
a length: `KeepsFirst`, `MixesQuotes`, `Doubles`, `EmptySearch`, `Flawed` name the
inputs that come out wrong.  *Loading* chooses a file name with a disk, a text, a
name of a command, or a disk with files that load each other and wait; `Unsafe`
adds what the code gets wrong: a wait in a file loaded while another waits
("mixed"), a load that is lost when the outer one ends ("lost"), files loaded at
start ("start").  Also found: a file with an open block loaded before another;
a comment right behind a brace joins the next line; a compressed name typed in
full that does not exist makes `gunzip` read the terminal.

### 3.6 The terminal

*Windows* keeps the two lists of windows, their sizes and the current one;
`Careful = FALSE` allows the sizes that end in `nappanic`.  `resize_window` keeps
negative sizes, fixed windows can grow beyond the terminal, and `/window grow`
does other than its comment says (`window.c` 3028-3032).  *Display* holds the stored
lines, the place scrolled to and the hold mode; `Careless` names "clear", "resize",
"write" and others that leave the place beyond the lines.  *Wrap* and *Attributes* are
compared with a reference drawing; a text with a colour behind attributes
(`Mixed`), a comma behind a colour number, and `ESC[0m` with the alternative
charset come out wrong.  *StatusLine* compares the row with the format: two %S in
different widths share a static buffer, more than `MaxExpandos` are dropped.
*InputLine* compares the row of the terminal with the buffer after every key;
`FullInserts`, characters put into a full line, are shown wrong.  *Completion*
compares what the key puts in with the names that can be meant.  *Prompts* has
questions answered in order without the draft lost; *Keys* the graph of states that
bound sequences make; *Settings* the values that come back after a save, with the
callbacks of the settings in the order of the table.

Of *Completion* not in the property, since the code gets it wrong: `#` in front of a
channel's name is lost, as is one slash of `//wh` and the `$` of `/$wh`; a text whose
first word begins with m is taken for `/msg`; `""` as the last word replaces the
line; an unterminated quote loses its last letter; a nick that begins another
stalls the ring; with `MAX_RELM` 1 the ring grows without limit, and with 0 it
is used after it is freed.

## 4. The runs

| run | states | what it checks |
|---|---|---|
| `socket_manager` | 2,500,000 | the table and the walk, for any handlers |
| `transfers_ordinary` | 198,000 | everything, when all goes well |
| `transfers_faults` | 875,000 | lists and descriptors under failures |
| `transfers_unexpected` | 1,353,000 | descriptors, when the other side does the unexpected |
| `transfers_live` | 128,000 | what must happen in the end |
| `background` | 379,000 | timers, threads, connections and processes, with what they must come to |
| `parts` | 459,000 | the other machines side by side |
| `transfers_listing`, `transfers_nolimit`, `transfers_greeting`, `timers_refs`, `sharing_update` | | section 6 |

Deadlock is not checked: the client may be idle for ever, may exit, and a bound may
stop a counter.

### 4.1 socket_manager

Three descriptors (`FdSetSize = 4`) and a clock that ticks once.  Three are
enough for the walk to stand on one, for a handler to close one before it and
one behind it, for the highest to go and the next highest to be found with a gap
between, and for a closed descriptor to be opened again in the same pass.  The
theorems of section 7 hold for every table size and every clock, so nothing
rests on this bound but confidence in the formulas.

* `CountExact`: the count that every accessor tests before it looks at a slot is
  the number of registered slots.
* `WithinBounds`: `max_fd` and `global_max_fd` cover every socket to be polled.
* `RegisteredIsOpen`: a registered descriptor is open in the kernel.
* `ClosedIsInert`: a slot that is not registered has nothing the walk acts on.
* `NothingSkipped`: at the end of a pass nobody is owed anything.
* `AllClosedAtExit`: `nap_exit` leaves no registered socket.

### 4.2 The transfers

* `MemorySound`: the lists are linked both ways (`ListsSound`), have no record in
  common (`OneList`), and neither they nor the sockets lead to a freed record
  (`NoDangling`).
* `NoneLost`: every record allocated is on a list.
* `SocketsMatch`: a transfer's descriptor is registered and its slot leads back
  to the transfer; no two slots lead to one record.
* `NoLeakedSocket`: every open descriptor is known to the socket manager; checked in
  the ordinary run.
* `OnlyGreetingLeaks`: no step leaves behind an open descriptor the manager does not
  know, but the greeting of an accepted connection that cannot be written
  (`naplink_handlelink`, `files.c` 1003-1007): `close_socketread()` is called on a
  descriptor that was never registered, and does nothing.  `transfers_unexpected` checks
  it with everything that corrupts the lists (refused connects aside, which leak
  likewise: 4.3).
* `ServerCounts`: 218s less 219s is the number of downloads moving data, 220s
  less 221s that of uploads.
* `SendsLimited`: no more uploads are on the list than the limit.
* `LifeKept`: the whole implements `TransferLife`.
* `NoneStuck`, `QueueMoves`: section 5.

Two files suffice for two transfers in different stages, and two of the same
user for a queue.  `transfers_faults` has three records, so that one can be taken
from the middle of a list, and a freed one lies beside two that live.  Files and
records are interchangeable, so their permutations are a symmetry (`Alike`); it
is used only where invariants alone are checked.  `NoRing` stops
`transfers_unexpected` where the list has become a ring: the next function to
append to it does not return.

### 4.3 Which behaviour breaks what

`transfers_ordinary` has everything hold.  Each other behaviour was then added
alone.  A property that failed is one the code does not keep under that
behaviour; the passing runs check what remains.

| behaviour | what does not hold with it |
|---|---|
| `queue`, `gone`, `lost` | nothing, each by itself |
| `request` | `MemorySound`, `NoneLost`: `/request` does not set `prev` of its successor |
| `again` | `MemorySound`, `NoneLost`, `SocketsMatch`, `ServerCounts` |
| `refused` | `NoneLost`, `NoLeakedSocket`: the descriptor was not registered yet, so finishing by it does nothing |
| `ungreeted` | `NoLeakedSocket`: likewise, on the data port |
| `unopened` | `NoneLost` |
| `push` | `SocketsMatch`, `ServerCounts`; with `timeout` also `NoneLost`; with `command` also `MemorySound`; with `lost` the list may become a ring |
| `offset` | `NoneLost` |
| `accept` | `NoneLost`, `ServerCounts` |
| `offer` | `MemorySound`, `NoneLost`, `SocketsMatch`, `ServerCounts` |
| `timeout` | `ServerCounts`: a 219 for a download that was connected and had not begun |
| `command` | `ServerCounts`: 219 or 221 for what had not begun; with `queue` also `NoneLost` |

One reading of the table: whenever a transfer is ended through a descriptor that
is -1 or not registered, `nap_finished_file` finds no record and the one at hand
is lost.  The shape of the lists holds all the same, which is what the theorems of
section 7 say of every set of behaviours within `Covered` and the run
`transfers_faults` of one of them.  The protocol's document (`doc/napster.txt`
1420-1422) asks for the messages to pair; `ServerCounts` is therefore checked
where it holds, and listed with its hazards where it does not.

### 4.4 background

* Timers: two at a time, waits of half a second and of one second, timers that run
  once, twice and for ever, a clock of four half seconds: enough for a repeating
  timer to run twice in one pass, to catch up, and to come back between or behind
  another.  Timers that repeat wait a second or more (`Short = FALSE`): with shorter
  waits the fraction of section 3.4 can leave a timer's time where it was, and a
  pass does not end.  `InOrder`: within a pass nothing runs after something later
  has, and no timer on the list is behind a later one.  `PassEnds`: a pass ends,
  unless a timer deletes all timers (`delete_timer` refuses to act while a timer
  runs, and `delete_all_timers` calls it until the list is empty).  `DueRuns`: no
  timer stays overdue, unless the server is waited for again and again, or as
  above; it quantifies over the times before the last one, at which the clock of
  the model stops.
* `RequestsSound`, `AnsweredInTheEnd` (`Workers`): two requests and two lives of the
  thread, so that a request of the first can meet the second; three requests
  (12,000 states) show nothing else.
* `ShareListSound`, `LoadingEnds` (`Sharing`): three files, two of them in a directory,
  and two commands that start a thread or share.  A server may be lost at any step of
  these, and any number of times.  With two commands no file is both shared and
  reloaded, so what a loss does to the counter under the thread (`short`) is not
  reached; with three (704,000 states) it is, and the property holds too.
* `ChannelsSound`, `Reconnects` (`ServerLink`): two windows, one server that accepts or
  refuses as it likes, one channel, six commands and two losses, so that a channel is
  asked for in both windows and parted in one across a loss and a reconnection.
* `ExecSound`, `ProcessesGo` (`Exec`): two processes, of which the first talks on one
  output (`Talks`), two pieces of output (`NPieces`: lines, and parts of one, on their
  way or handed out), one read of a part (`MaxSegments`), `SHELL_LIMIT` 2, and one
  command from a hook.  That is enough for a line in two parts, for a line and a part in
  one read, for a part given up, and for the second process to be started from a
  hook on a descriptor of the first.

### 4.5 parts

Each machine has the smallest values with which its cases arise; they are in
`MCParts.cfg`, with the sets that need expressions in `MCParts.tla`.  `Framed`,
`BytesInPlace` and `ResumeKept` are the properties of the modules of these names.
The others stand each for several machines:

| property | parts of it |
|---|---|
| `OthersSound` | `LinksSound` (`FileLinks`), `BrowsesSound`, `CommunitySound` |
| `TerminalSound` | `ScreenSound` (`Windows`), `DisplaySound`, `WrapSound`, `AttributesSound`, `StatusSound` |
| `InputSound` | `LineShown` (`InputLine`), `CompletionSound`, `LineKept` (`Prompts`), `KeysSound`, `SettingsSound` |
| `ScriptsSound` | `HooksSound`, `AlistSound`, `AliasesSound`, `ControlSound`, `ExpressionsSound`, `ArraysSound`, `WordsSound`, `PatternsSound`, `TextsSound`, `LoadingSound` |

The machines that stand for pure functions (`Texts`, `Patterns`,
`Expressions`, `Wrap`, `Attributes`, `StatusLine`, most of `Loading`) choose an input
in their first step and compare what the code does with a definition of what
it means; their bounds are lengths of inputs.  The others run operations in
every order: `Settings` chooses which of nine groups of settings a behaviour is
about, and has a save, a restart and a load; `Display` has windows of two and three
lines over four to six stored ones, so that the place scrolled to can fall off
either end; `InputLine` a row of seven columns and a buffer of five characters,
so that a line covers several zones; `Completion` about thirty texts in three
worlds, three messages from three people into a ring of two.

### 4.6 Which constant breaks what

| constant | set so | violates |
|---|---|---|
| `Seekers`, `SizeSplit` | `{"this"}` with a resume; `TRUE` | `BytesInPlace` |
| `HandlersTurn`, `HeaderPieces`, `BigBuffer` | `TRUE`; 3; 3 | `Framed` |
| `LossAnytime` | `TRUE` | `ChannelsSound` |
| `ConnectsTwice` | `TRUE` | `ChannelsAgree` |
| `WalkApart` | `FALSE` | `WalkStays` |
| `NWindows` | 3, with 13 commands | `ChannelsSound` |
| `Crowded`, `Rescans`, `Forgets` | `TRUE` | `BrowsesSound` |
| `PartsEarly`, `FloodSizes` | `TRUE`; with 0 | `CommunitySound` |
| `Careful` | `FALSE` | `ScreenSound` |
| `Careless` | any of its names | `DisplaySound` |
| `Mixed`, `Faulty` | `TRUE`; "comma", "off", "repaint" | `AttributesSound` |
| `FullInserts` | `TRUE` | `LineShown` |
| `AsksNext`, `BrowseAnswers`, `ShrinkAnywhere` | `TRUE` | `LineKept` |
| `Reloads` | `TRUE` | `SettingsSound` |
| `Recursive`, `NextTwice`, `CodeDrops` | `TRUE`; `TRUE`; "any" | `HooksSound` |
| `RefillSmall` | `TRUE` | `AlistSound` |
| `CmdFiles`, `PushExisting`, `PurgeEarly` | "deletes", "nothing", "replaces"; `TRUE` | `AliasesSound` |
| `Constructs`, `ThrowsAnywhere`, `Unbalanced` | with "do"; `TRUE` | `ControlSound` |
| `UnitsParens`, `BareMiddle`, `UnaryOps` | `FALSE`; `TRUE`; with "post--" | `ExpressionsSound` |
| `KeepsFirst`, `MixesQuotes`, `Doubles` | `TRUE` | `WordsSound` |
| `EmptySearch`, `Flawed` | `TRUE` | `TextsSound`, `PatternsSound` |
| `Unsafe` | "mixed", "lost", "start" | `LoadingSound` |
| `Short`, `HooksClose`, `Merged` | `TRUE`; `TRUE`; `TRUE` with three processes | `InOrder`, `ExecSound`, `ProcessesGo` |

### 4.7 Mutants

Each property of a passing run is paired in `PROJECT.json` with a mutated
definition, such as a neighbour left pointing at a record taken out of a list
(`BreakNoBack`), a slot marked closed and not wiped (`CloseSocketReadNoWipe`), or
a timer put at the end of the list (`ScheduleLast`).  With the mutant in place of
the definition TLC finds the property violated, so the property can fail within
the bounds of its run.

## 5. Fairness

The main loop comes round: `select` waits no longer than until the next minute or
timer (`main.c` 800-815), so a turn always ends and each minute has one.
`FairSpec` of `Transfers` assumes that `clean_sockets` runs again and again, that
`clean_queue` does, and that an entry that does not begin is in the end older
than `TRANSFER_TIMEOUT` (for each record, `CleanQueueWith(c)`).  The conditions on
`clean_queue` are weak fairness with `ENABLED` spelled out as `Due`, because the
sweep folds over the list and TLC is slow to find out whether it is enabled.
Nothing is assumed of the user, of the server or of the other client: none need
ever answer.  `clean_sockets` runs only in a turn in which some descriptor was
ready (a key, a message of the server), and the fairness assumes that such turns
come; `NoneStuck` and `QueueMoves` were found to hold without that as well.

* `NoneStuck`: a transfer that has not begun leaves the list or begins.
* `QueueMoves`: while downloads are put off and none is under way, one is asked
  for again.  The run gives the other user the limit 1, as told with the 620.

In `background`: a pass over the timers begins when it can and what a timer runs
returns; a thread that holds no lock goes on, and gets a mutex that is free again
and again; the main loop reads the byte of an answer; a pending reconnection timer runs
in the end while the server accepts connections (weak fairness of `AutoReconnect`); a
process that has ended is collected, and its pipes are read.  Nothing is assumed of
users, servers or of what a process does.  In particular a server may refuse for
ever, and `Reconnects` promises nothing then: it says that a window whose connection was
lost has one again *if* from some time on the server accepts.  What it rests on is that
the timer comes back after every refusal, that no command of the user and no move of a
window leaves one behind that the timer does not find, and that a timer which finds
nobody does not go.

## 6. What the violations show

Each of these runs checks one property that a document or comment states, and
TLC finds a behaviour of the code in which it fails.

* `transfers_listing` (`NoneLost`, `files.c` 276).  `/request` links a record at
  the head of the list and leaves its successor's `prev` as it was.  When the
  successor ends, `break_from_list` takes it for the head, and the record drops
  off the list.
* `transfers_nolimit` (`QueueMoves`, `files.c` 1067).  A download put off by a 620
  that reports the limit 0 is never asked for again: 0 stands for `not told'.
* `transfers_greeting` (`PushReady`, `send.c` 392).  To push a file the client
  connects, sets the socket's `info` and only then registers it.  On a
  descriptor never used before, `set_socketinfo` finds no slot and does nothing,
  and the greeting finds no file.  On one used before it works.
* `timers_refs` (`RefsUnique`, `timer.c` 331).  A timer that runs is off the list,
  so a timer added meanwhile is given its number, and when it repeats both are
  on the list under one number.
* `sharing_update` (`LoadingEnds`, `share.c`).  The thread that `/share -update`
  starts waits for a mutex it holds, and the loading never ends.

## 7. What is proved

Everything here is for every value of the constants that the named assumptions
allow: any number of descriptors, records, files, windows, channels, timers,
requests.  `PROJECT.json` lists the theorems with the run properties they state.

| theorem | states | under |
|---|---|---|
| `Invariant` (`SocketManager_proofs`) | `Spec => []IInv` | |
| `TypeCorrect`, `CountIsExact`, `BoundsHold`, `RegisteredAreOpen`, `ClosedAreInert`, `PassIsFair`, `ExitClosesAll` | `TypeOK`, `CountExact`, `WithinBounds`, `RegisteredIsOpen`, `ClosedIsInert`, `NothingSkipped`, `AllClosedAtExit` | |
| `TransfersInvariant` (`Transfers_proofs`) | `Spec => []IInv` | `Happens \subseteq Covered` |
| `TransfersMemorySound`, `TransfersMatchSockets`, `TransfersTyped`, `TransfersLimitSends` | `MemorySound`, `SocketsMatch`, `TypeOK`, `SendsLimited` | `Happens \subseteq Covered` |
| `TransfersLeakNoSocket` | `NoLeakedSocket` | as above, without "refused" and "ungreeted" |
| `TransfersLoseNone` | `NoneLost` | `Ordinary` |
| `TransfersCounted`, `TransfersLiveOneLife` (`TransferLife_proofs`) | `ServerCounts`, `LifeKept` | `Plain`: `Happens \subseteq {"queue", "gone"}`; `SentBound` no smaller than the number of records |
| `TimersInOrder` (`Parts_proofs`) | `InOrder` | `Short = FALSE` |
| `RequestsAreSound` | `RequestsSound` | |
| `BytesAreInPlace` | `BytesInPlace` | a sender that seeks rightly, or no resume; the size in one piece |
| `UnfinishedAreKept` | `ResumeKept` | |
| `ShareListIsSound` | `ShareListSound` | `WalkApart = TRUE` |
| `ExecIsSound` | `ExecSound` | `HooksClose = FALSE` |
| `ChannelsAreKept` (`ServerLink_proofs`) | no channel is forgotten | one server, not connected to twice (`ConnectsTwice = FALSE`), `LossAnytime = FALSE` |
| `ChannelsAreSound` | `ChannelsSound` | also at most two windows |

What a theorem assumes besides the types of the constants is left out of the runs
too, and without it TLC shows the property violated by the code (sections 4.3 and
4.6), with these exceptions: "lost" alone breaks nothing and is outside `Covered`
only because it does together with "push"; "refused", "ungreeted", "unopened" and
"offset", of which the first two break `NoLeakedSocket` and all but the second
`NoneLost`, are outside `Plain` because its proof goes by what is on the lists; and
"ungreeted" is in `transfers_unexpected`, which checks what holds with it.  The
bound on `SentBound` keeps `Tell` from clipping a count.

### 7.1 The socket table

`SocketTable_proofs` shows of each operation that it keeps a table *sound*:
typed, every slot either registered under its own number or inert, the count
equal to the number of registered slots, `max_fd` a bound on them.  The lemmas are
stated for any table, descriptor and sets of handlers and times, and serve both
`SocketManager_proofs` and `Transfers_proofs`.

`SocketManager_proofs` proves `Spec => []IInv` with `IInv == Table /\ Bounds /\ Walk`:
the table is sound; registered descriptors are open and waited on, and what is
waited on is below `global_max_fd`; what is owed is registered and was reported,
and during the walk nothing behind `i` is owed.

None of the properties is inductive alone.  The count is exact only because
closing tells a slot in use from one closed before, which needs the soundness of
slots; `NothingSkipped` needs that what is owed is registered (else the test on
`is_read` would skip it), that `max_fd` bounds what is registered (else the loop
would end early), and that a handler which registers a descriptor behind `i` owes
it nothing.

### 7.2 The transfers

The invariant says that there are sets of records `T`, `Q` and `F` for the three
lists such that `State(mem, T, Q, F, asked)` holds:

* `World`: each list is a `DoubleChain`, that is, following `next` from its head one
  comes to the records of its set and no others, each once, and `prev` leads back;
  the sets are disjoint and their records allocated; the table is `Sound`; a slot
  with a record leads to one of `T`, whose `socket` is that slot, and a record of `T`
  with a socket is led to by it (`Wired`);
* `GetsKept`, `SendsKept`: which stage (`func_read` of its slot) a download or upload
  can be in, given its fields, how many answers can still come for it, and that
  uploads are within the limit;
* `AllSeen`, for `NoneLost`, when `Happens` is `Ordinary`.

The lists alone are not inductive: a handler unlinks whatever its slot's `info`
leads to, so that it leads to a record on the list, and that no other slot does,
is needed; and an answer (204) takes a record by name off one list, so that at
most one answer per record is awaited is needed too.  In the middle of a handler
the record is on no list: `World` has it in `U \ T`, in the handler's hands.

There is a lemma per function of the records (`BreakWorld`, `FinishWorld`, ...), a
lemma per handler (`GetFileKept`, ...), and the step lemma with one step per action.
Chains are defined by walks, and a walk is unchanged by an assignment to a record
that is not on it, which is what the lemmas on linking and unlinking rest on.
The loops that free and move records as they go are recursive functions, of which
`EndRuns` and `QueueRuns` show that each turn leaves a world and that they come to the
end of the chain.

`IInv` was checked by TLC before it was proved, on two records and all behaviours
of `Covered` (51,000 states).

For `ServerCounts` and `LifeKept` (`TransferLife_proofs`) the invariant is `Settled`:
besides `State`,

* `Counted`: the counts are the numbers of the records of `T` that *move data* (have a
  socket and, if downloads, are past the size, `count` false);
* `Opens`: a download with a socket has its file open exactly when it is past the size;
* `Suited`: the handler of a slot with a record is one for downloads or for uploads as
  the record is, and that of one without a record is none that goes on with a transfer.

None of the three stands alone.  That a 218 is sent once needs that the handler which
sends it finds a download still waiting for its size, and that this is what a closed
file means; that a 219 is sent exactly when a 218 was needs the same of the end; and
that an end of an upload does not report a download needs the kinds of handlers.
There is a second lemma per handler (`GetFileLives`, ..., `CmdNosuchnickLives`), which
says that it keeps the three and that exactly one record took a step that
`TransferLife` allows (`Moves`), or that some that were over or put off were freed
(`Forgets`).  `SteppedLife` reads this as a step of the phases (`LifeStep`), and
`LifeGoesOn` as an action of `TransferLife` under the refinement mapping, with no
connection of two transfers in the next state (`WorldApart`, from `Wired`).

### 7.3 Queues, streams and lists

`TimersInv` adds to the order of the list that no timer on it is earlier than what
the pass has run (`ran`), that `ran` is at most the time the pass began, and that the
timer that runs has exactly that time; a timer put back by a positive wait keeps
this, which is why waits of fractions of a second are excluded.

`WorkersInv` adds to `RequestsSound` which places a request can be in while the
thread is in each of its stages; no mutex order is needed, since there is one
mutex per thread.

`BytesInv` relates what is on the wire to what has been written: what is on the
wire are the next bytes of the file from its place on, and the lengths add up
to the offset asked for.

`UnfinishedInv` says which of memory and file holds a download in each state of a
session.  The list that is read at start is a fold over the lines; `RecursionKept`
(`Recursion_proofs`) turns the fold's recursive definition into an induction.

`SharingInv`: the two counters that `/share` tests are what they stand for.  `in_load`
is the number of threads that have begun and not left (a thread that waits in
`do_update()` counts twice), and `in_sharing` is 1 exactly while `do_share()` runs.  A
scanning thread has directories to read from its creation until it is about to leave,
and counts in `in_load` from its first step on; `-share` is refused in both cases, so
that no such thread is there while `do_share()` runs, although `MayShare` does not see
one that has not begun.  A loading thread may be, but only adds files.  So nobody but
`do_share()` moves its pointer or takes away what it points to.  A walk of
`close_server()` stands on a file that is listed or in the thread's hand, and leaves no
flag behind it, so that at its end there is none to count.
For the counters the invariant says, for each place the thread can be in with a file in
its hand, what it will still take off `shared_files` (`Owed`), and that a loss in between
costs one (`Missing`).

`ExecInv` speaks of each frame of the stack.  Only the first can be of `do_processes()`;
while hooks run above it, its process is in the slot it points to and not dumb.  Since
`cleanup_dead_processes()` takes only those off the list that are dumb, and nothing makes
one dumb but `do_processes()` itself and `/exec -close`, the slot stays (with `HooksClose`
it does not).  A process that a frame of `cleanup_dead_processes()` is about to free
is off the list and in no other such frame.  For `OutputRead` it is needed of every
output that is not forgotten that its account is even while it is open: the lines it
printed and no hook was run for are those in the pipe and those in the buffer
(`OutputSound`).  And what `select()` found must still be right about every output that
is yet to be looked at (`ReadySound`): one that is reported has something left, or
nobody can write to it any more; if its descriptor was another's in this turn, the
output is forgotten.

### 7.4 Channels

`LinkInv`: windows have the server exactly while it is up; what windows hold while
it is down (`old`) and while it is up (`waiting`, `nchannels`) are told apart; a
reconnection timer is there for no more losses than there were; no channel is
forgotten.  `AgreeInv` adds that of each channel the last message on its way says what
the server thinks, and that with no message about it the windows and the server
agree.  With three windows `ChannelsSound` is false: a channel asked for in all
three and left while the joins are under way is acknowledged into two of them,
and the acknowledged part takes it from one.  TLC needs 13 commands to show it.

### 7.5 Induction

The library's induction theorems take an operator as a parameter and cannot be
instantiated with the provers at hand.  The induction needed is done by other
means: `LeastNumber`, that a set of numbers has a least one, follows from the
well-foundedness of finite sets under inclusion, which is a theorem about a relation;
`Induction` states it for a *set* in place of a predicate; and `RecursionOnInterval`
shows that a function defined by recursion on numbers exists, as a union of
its finite beginnings.

## 8. What is only model-checked

* Liveness (`NoneStuck`, `QueueMoves`, `PassEnds`, `DueRuns`, `AnsweredInTheEnd`,
  `LoadingEnds`, `Reconnects`, `ProcessesGo`) is out of the prover's reach.
* `Framed`, and the properties of `parts` other than those proved.  Those that compare
  functions on texts with definitions are about data, and are checked over bounded
  inputs.
* `OnlyGreetingLeaks`: the lists are corrupt in its run, and the proofs go by what is on
  them.

## 9. What is not modelled, and why

* Players and graphical shells drive other programs.  Utilities replace library
  functions.  The terminal (`term.c`) is input and output; `md5.c` and the headers of
  MP3 files are data.
* Several other users at once in `Transfers`.  Records of different users share
  `transfer_struct` but match by nick, file and kind, and queues are per user; two
  files of one user take the same branches as two users do, except for the
  per-user limit, which with one user equals the total.
* Memory that is freed and given to something that is not a `GetFile`.
* Chat and `/send` over the data port (`send.c` 483-770), the meta server, the IRC
  mode, statistics.
* The expansion of text (`expand_alias`), `/wait for`, `/wait %proc`, the window
  stack, several screens, logs.
* `/timer -update` of one of the program's own timers by its name, the window and
  server of a timer and the memory of its command.
* In each module, what its notes in section 3 say.

## 10. The plan

Done: the modules of section 3 and the theorems of section 7.  Next, in this order:

1. `Framed`, in `Parts_proofs`.
2. `LinksSound` of `FileLinks`: the two pointers are inverse to each other.
3. `LifeKept` with `refused`, `unopened` and `offset`, where a record that is lost would
   have to keep the phase it had.
4. Models of chat and `/send` over the data port, and of the window stack.

## 11. Running it

    tlc -workers 2 -config SocketManager.cfg SocketManager
    tlc -workers 2 -config MCTransfers_ordinary.cfg MCTransfers
    tlc -workers 2 -config MCLive.cfg MCLive
    tlc -workers 2 -config MCParts.cfg MCParts
    tlapm SocketManager_proofs.tla
    tlapm Parts_proofs.tla
    tlapm ServerLink_proofs.tla
    tlapm Transfers_proofs.tla
    tlapm TransferLife_proofs.tla

Each run takes between seconds and five minutes on two cores; the proofs together
about half an hour from nothing, most of it `Transfers_proofs`.
