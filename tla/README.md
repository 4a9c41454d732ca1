# Formal models of ftps-server

The repository is a small FTP server with TLS in C++: `src/src/main.cpp` starts one
`ftp_server`, whose thread accepts control connections and gives each of them a
detached thread that runs an `ftp_session`. There is not a lock in the program. What
the threads share is the process: its descriptor table, its signals and uncaught
exceptions, the directory tree, the observer table, the user database and one static
port counter. Nothing is persistent but the uploaded files, so there is no recovery to
model; the hard behaviour is interleaving, stale state, and errors nobody looks at.

## Inventory

| part | source | state | operations | interacts with |
|---|---|---|---|---|
| server | `ftp_server.cpp` | `m_status`, `m_server_thread`, listener, `client_sessions` | `start`, `stop`, accept loop | sessions (creates, owns), listener, notifier |
| session | `ftp_session.cpp` | `m_state`, `m_user`, `m_folder`, `m_auth_attempt`, two channels, `m_argument`, `m_buffer_file_size`, protection level | one handler per command, the thread's loop | transports, files, notifier, user database |
| transports | `tcp_transport.cpp`, `tcp_listener.cpp`, `tcp_client.cpp` | `m_socket`, `m_secure`, `m_session` | construct, move, bind, accept, connect, push, pull, close, set_tls | descriptor table, TLS session |
| TLS session | `tls_session.cpp` | GnuTLS handles | bind, handshake, push, pull, close, move | GnuTLS |
| files | `file_system.cpp` | the directory tree | canonical path, exists, erase, move, list | sessions, the kernel |
| notifier | `ftp_observer.cpp` | `m_observers` | register, unregister, notify | sessions call notify, the owner the others |
| user database | `ftp_user_database.cpp` | a static map | get | PASS |
| parser | `ftp_command.cpp` | none | one line to a verb and arguments | sessions |

What makes each part correct, and where it is hard:

- **Session.** The login state is only changed by a PASS the database confirms or
  refutes; the attempt limit ends the session; the folder belongs to the login that
  was granted. Hard: USER overwrites the record of a logged-in session, refused
  commands fall through, lines are pipelined, clients leave with replies outstanding.
- **Transports.** A transport's descriptor is its own. Hard: `close` leaves 0 behind,
  assignment forgets an open descriptor, results of `accept` are ignored, and the
  kernel hands descriptor numbers out again to any thread.
- **TLS sessions.** No GnuTLS object is used after it was freed, and a channel that is
  marked secure is. Hard: three pointers, a flag and a socket that bind, move and close
  each change in part; AUTH can be repeated, handshakes and accepts fail half-way.
- **Passive ports.** The port a client is told is the one its session listens on. Hard:
  an unprotected counter of all threads that outgrows the 16 bits of a port.
- **Parser.** A line means what it says, whatever was received before or with it. Hard:
  the buffer is reused without a terminating zero.
- **Uploads.** What is stored is a prefix of what was sent, and complete when 226 is
  sent and nothing failed. Hard: two uploads to one file, the ofstream's buffer, the size of
  an old ALLO, failures that nobody looks at.
- **Files.** Nothing is overwritten or lost but what was named. Hard: each handler is
  several system calls, and other sessions act in between.
- **Server and notifier.** Sessions outlive the server's use of them, `stop` returns,
  notifications reach who is registered while the table stays. Hard: unsynchronised status, a blocking
  accept, detached threads, a map changed during an iteration.

`PROJECT.json` lists the hazards line by line with the properties aimed at them.

## Modules

| module | models | extends or instances |
|---|---|---|
| `FtpSession` | the control thread: greeting, loop, USER, PASS, AUTH, QUIT, answers, its end | `LoginProtocol` |
| `LoginProtocol` | the abstract login protocol that `FtpSession` implements | |
| `CommandLine` | the receive buffer and the parser of `ftp_command` | |
| `Descriptors` | the descriptor table, the accept loop and what sessions open, move and close | |
| `TlsChannels` | the GnuTLS objects of a session's two channels, PROT and the protection of data connections | |
| `PassivePort` | the port counter of PASV, its attempts and its reply | |
| `StoreTransfer` | ALLO, STOR, data connections, the output file | `UploadLog` |
| `UploadLog` | the append-only log of uploads that `StoreTransfer` implements | |
| `FileCommands` | CWD, LIST, DELE, RNFR, RNTO on a directory tree, system call by system call | |
| `FtpServer` | start, stop, server thread, session objects, observers | |
| `FtpSessionProofs`, `CommandLineProofs`, `DescriptorProofs`, `TlsChannelsProofs`, `PassivePortProofs`, `StoreTransferProofs`, `FileCommandsProofs`, `FtpServerProofs` | theorems | the module they prove about |
| `MCFtpSession`, `MCDescriptors`, `MCCommandLine`, `MCFileCommands` | values for TLC | the module of that name |

The modules cut the program by shared state, not by file. A session's login state is
touched by no data command, so of the commands with a data connection or a path
`FtpSession` keeps what they mean for the thread: they answer (`command_reply`), block in a
connect or a transfer (`command_port`, `command_data`), throw (`command_throws`) or break by
SIGPIPE (`TransferBreaks`). `Descriptors` is the composition that matters for transports: it
has the accept loop and every handler that opens, moves, uses or closes a descriptor, the
folder of LIST and the file of STOR included, and leaves out what the handlers say. `TlsChannels` has the same handlers and looks at the other half of a
transport, its TLS session; sessions share no TLS object, so it follows one of them.
`StoreTransfer` takes the data connection as working and looks at bytes. `FtpServer`
composes the accept loop, the owner's thread, the sessions' lifetime and the notifier.

In every module a variable is a member of the class, or the program counter of a
thread (`pc`, `serverPc`, `server`, `thread`), or is marked as history. An action is
named after the handler; a handler that makes several calls other threads can get
between is several actions that pass `pc` on. A top-level operator marked *mutant* is
a plausible mistake in the definition below it, used to test the properties only.

### FtpSession

`pc` is where `client_session_thread` stands: in front of the greeting, in `pull`, in a
handshake, in PORT's connect, in a transfer, or done. `Receive` is one `pull`: it takes all
pipelined lines the kernel has and dispatches the first, as the code does. The peer
distinguishes a client that left from one that has reset the connection, for only the
second raises SIGPIPE. `process` becomes `"aborted"` by SIGPIPE of a reply or of a data
connection, or by an exception nobody catches: `Throws` has the lines that end in one,
`std::stoi` on what PBSZ, ALLO or PORT got and `substr` on a CWD to `~` alone. Tokens are
model values: a line is a verb and an argument.

`LoginProtocol` has a queue of requests, the login named last, the granted access, the count
of failures, and which sessions negotiate a secure channel or ended. A `Grant` takes a PASS
out of the queue whose password the database has for the login named last, a `Fail` one
whose password it has not, and no other request changes the access or the count. The
refinement mapping takes `inbox` for the queue, `user.login` for the login, `granted` for the
access, `authAttempt` for the failures, the sessions with `pc = "handshake"` for those that
negotiate and those with `state = "TERMINATED"` for the ended ones. That the first line alone
of a pull is handled and those behind it are lost is part of the abstract protocol (`Drop`).

### CommandLine

A cell is a word, a letter, a digit, a comma, a separator or the zero byte; `wire` is
what TCP still carries, so `Pull` splits and joins lines in any way. `buffer` is
`client_message` and the stack behind it up to a zero: a pull overwrites its beginning
only, and the parser reads on into what an earlier command left. `Command` is the
constructor of `ftp_command`, with PORT's loop over its numbers, the shift (a factor of
`Byte`, which is two to the power of `ByteBits`), the bitwise or, and the exception of a
number that is not there. `BitOr` is a recursive function, so that it can be proved about;
`MCCommandLine` has TLC compare it with the `|` of the community modules. The properties
speak of complete lines: all the verb takes is there, and no zero byte, at which the parser
ends.

### Descriptors

`fd` is the kernel's table, `sock` the `m_socket` of every transport. Entries carry the
name of the transport the connection was made for, so that a wrong number is visible.
`NewFd` returns the lowest free descriptor. A blocked accept has its descriptor already
reserved, as on Linux. Standard output and error are left out of the table, and so is what
GnuTLS opens and closes again while it loads certificate and key; standard input is in it,
since `close` makes every closed transport refer to it. `Open` is LIST's `opendir` and the
constructor of STOR's ofstream, `SendListing` the `closedir` and what follows it. `Leave` closes
the control channel and that is all the thread's end does: its data channel's socket stays
open for ever, as no destructor closes one. `Held` is therefore what the transports of the
sessions that are not done hold, `Lost` the open descriptors besides. The client of a
connection is not modelled beyond its identity.

### TlsChannels

`handle` holds the three pointers of each channel's `tls_session`; an object is named by
its kind and the bind that made it, so a stale pointer differs from a fresh one. `live`
is what GnuTLS has allocated. `SetTls` is `tcp_transport::set_tls` with its outcomes: a
certificate that cannot be loaded, a failed handshake and an established session, each
leaving another part of the state behind. `Close` frees what a secure channel holds and
leaves `m_secure` set. `level` is `m_protection_level`, which no constructor sets: `Init`
lets it have any value. `asked` and `terms` are history, what the client last asked for
and what a data connection was made under.

### PassivePort

`counter` is `DATA_PORT_ALLOCATION`. Its increment is a load and a store of the thread,
so an increment may be lost. `Usable` says which port `bind` gives for a number: htons
keeps 16 bits, of 0 the kernel makes a port of its choice. `Byte` is 256 in the code and a
constant here, so that a small counter outgrows two bytes. `busy` are ports that belong to
connections or other programs and that come and go.

### StoreTransfer

A byte is `<<session, data connection, position>>`, so order, loss and duplication show
in `disk`. `Write` either buffers or flushes everything buffered, which covers every
place the library may flush at the granularity of one write call, or the disk refuses a part
(`Refuse`) and the stream does nothing any more: `good` is the state of the ofstream, false
also for a file that did not open. A disk that refused a write of an upload is assumed to
refuse the rest of it. `left` is `file_total_size`; it is compared to 0
after the pull, as the loop does. `PullFails` is an error of `recv` or of
`gnutls_record_recv` on an open connection, which ends the loops like the client's close;
`cut` remembers it. Nothing of this is told to the client, who gets 226. `UploadLog` keeps of
all this a log that grows by the next bytes of one data connection; the mapping takes `disk`
for the log.

### FileCommands

`tree` maps the objects that exist to their paths. A string that names a path also has
a flag for its trailing separator, because `m_folder + name` depends on it; names are
sequences of letters so that a missing separator glues two together. `Realpath`,
`Separator` and the `Finish...` actions are the calls of
`path::get_canonical_full_path` and what follows it. `file::exists` tests its helper's
result the wrong way round and never finds a file; the model has it as it is.

LIST is `OpenFolder` (opendir), one `ReadEntry` for each entry (readdir, and the lstat of
the entry's full path, which may by then mean something else) and `FinishList`. An opened
directory is followed as an object, wherever it is moved; `stream` has the names that
readdir must still return and those that it may return, as POSIX leaves it open whether
an entry that comes or goes during the reading is seen. `touched` and `kept` are history:
whether another session changed the tree during the command, and which names were in
the folder ever since LIST began.

### FtpServer

`caller` is the thread that owns the `ftp_server`; it may call `start`, `stop`,
`register_observer` and `unregister_observer` in any order, and the process aborts
where the C++ library does (joining nothing, assigning over a joinable thread).
`freed` are session objects destroyed with `client_sessions`; their detached threads go
on and may crash. The map is changed without a lock under the notifications that iterate
over it (`Changing`): the process may crash, and from then on each of them may miss nodes,
meet nodes again or meet one that was erased, and may crash on it (`Visit`). `raced` says that
this has happened to the notification a session is in.

## Runs

| run | question | bounds |
|---|---|---|
| `session_lines` | Are attempt limit, identity and termination kept, is the channel secure when it says so, is `LoginProtocol` implemented, does the session end, and what ends the process? | 1 session, 2 users, 2 lines in flight, limit 2, fair |
| `session_order` | Is a PASS that is answered "incorrect command order" refused? **No.** | 1 session, 1 line in flight, limit 3 |
| `command_line` | Is a complete line parsed as if it were alone, and PORT as sent? | lines and wire of up to 8 cells, bytes of 2 bits, 3 pulls |
| `fd_table` | Does every transport keep its descriptor, is cross-talk impossible before descriptor 0 is closed, and what does a command, a thread or a move lose? | 2 sessions, descriptors 0 to 6, 2 attempts of PASV |
| `fd_listing` | Does a listing reach the client that asked? **No.** | descriptors 0 to 8 |
| `tls_channels` | Does a pointer dangle, is a secure channel secure for its own connection, is data protected as PROT asked? | 4 binds, 4 sockets |
| `pasv_ports` | Is a client told its own listener's port, no other's, and is PASV answered? | 2 sessions, bytes of 1 bit (ports 1 to 3), counter from 2 to 5, 2 attempts, fair |
| `store_two` | Are uploads to one file prefixes, complete when announced and nothing failed, an append-only log, and do they end? | 2 sessions, 1 connection each, 3 bytes, chunks of 2, sizes 0 and 2, fair |
| `files_one` | Does one session lose a separator, or a name of a listing? | 1 session, 2 directories, 2 files, depth 2, all kinds of names |
| `files_two` | Can two sessions overwrite a directory without the tree changing under the command, and does a listing lose what stayed? | 2 sessions with homes of their own, 3 directories, rooted names, CWD in one session |
| `files_over` | Does RNTO refuse an existing name? **No.** | as `files_one` |
| `server_two` | Do session objects live while served, are notifications delivered that no change of the table raced with, does `stop` return? | 2 sessions, 2 observers, fair |

Why the bounds suffice for what they are asked. Session threads share nothing in
`FtpSession` but the process, so one session shows the login properties and its part in
ending the process. The code's limit is 3 attempts; with 2 the failures pass it on fewer
lines, `session_order` has 3, and the theorems have any. Six lines of `command_line`
cover verbs with and without an argument and PORT with all its numbers, one too few and an
empty one; two of them meet in one pull, and three pulls let a long line be followed by a
short one twice. Seven descriptors hold standard input, the listener and its lost
predecessor, one full session and the beginnings of a second, and the table fills up, which
is when `accept` and `socket` fail. Four binds are two AUTH and two data connections,
enough to bind over a bind, move a protected channel over a protected one and close both.
With bytes of one bit the counter passes 0 modulo a port's range, the case in which what
is told and what is bound differ. Chunks of 2 and a size of 2 with 3 bytes let a chunk
end at, before and beyond the size in force, and let a byte follow an upload that has it all;
0 is the value with which no size counts, and both are also what the field may hold before
any ALLO, as nothing initialises it. In `FileCommands` two names and two levels
suffice to move a directory with its content, to replace one, to rename one away and
back, and to do so with the directory that is being listed; `files_two` drops files,
relative names and the CWD of one session to fit (`Given`; what CWD sets, only its own
session reads), `files_one` has them. `Session` in `FtpServer` bounds the sessions
that are followed: the loop accepts more, which are not looked at, so `stop` is not helped
by the bound. For the safety properties the theorems below go past all these bounds, and
`SessionsApart` proves what is said here of the sessions in `FtpSession`.

Deadlock is not checked where a process may abort, clients may stop or a bound is
reached: a state without successors is then the end of a run. It is checked in the runs of
`FileCommands`.

**Fairness.** In `FtpSession`, `PassivePort`, `StoreTransfer` and `FtpServer` the steps of
a thread are weakly fair: each is an operating system thread that is scheduled, and the
steps that wait for a client are not enabled until the client acts. In `FtpSession` a
handshake fails once the client is gone. Nothing obliges a client to send, to close, to
connect to the port of a 227 or to succeed, and nothing obliges a pull to fail
(`PullFails` stands outside `Transfer`), with one exception: `FtpServer` assumes clients
keep connecting, because without one more client `accept` never returns and no stop ends
at all.

## What the violations show

- `session_order`: `command_pass` answers 530 and goes on; with the login of an earlier
  USER the same PASS is granted (`ftp_session.cpp:214`).
- `fd_listing`: after a transfer `m_socket` is 0; a second transfer without PASV or
  PORT closes descriptor 0, the next client's control connection becomes descriptor 0,
  and LIST writes there (`tcp_transport.cpp:83`).
- `files_over`: `file::exists` is inverted, RNTO overwrites files (`file_system.cpp:91`).

Other behaviour of the models that a user of the code should know, stated by the
comments at the actions:

- A client that resets its connection with replies outstanding ends the process by SIGPIPE
  (`tcp_transport.cpp:62`), and so does a transfer over a data connection that was never
  connected or was reset (`ftp_session.cpp:296`). A PBSZ, ALLO or PORT whose number is
  missing (`ftp_command.cpp:121`) and a CWD to `~` alone (`ftp_session.cpp:319`) end it by an
  exception nobody catches. `AbortHasCause` says that nothing in `FtpSession` does but these
  and a transfer that crashes.
- A stop that comes before the server thread sets RUNNING is forgotten, so `StopEnds`
  speaks of a stop that found the server running. A session thread goes on after `stop` on
  an object that was freed. At the descriptor limit the accept loop creates a session
  around an unconnected socket.
- Of lines received in one pull the first alone is handled. A line without its argument
  takes a word that an earlier line left in the buffer. The key SITE UTIME cannot be reached.
- After a failed handshake, and after PORT, data goes in the clear. A second transfer over
  a TLS data channel that the first has closed hands NULL to GnuTLS (`CrashNeedsClosedChannel`
  says that only this does). A repeated AUTH and a data channel that is moved over leak
  their GnuTLS objects.
- When the counter is a multiple of 65536, PASV announces port 0. A PASV that fails draws
  one port more than it tries.
- RNFR refuses every regular file and RNTO then renames it. LIST of a folder that has
  vanished is empty and answered with 226.
- The comments of `command_stor` say that with a size "we need to stop receiving by ourself
  when file is received" (`ftp_session.cpp:363`), and that "if we haven't been asked to allocate
  place" it waits for the client to close (:372). The code does neither always. Once exactly
  that many bytes have come it pulls once more, throws away what that returns, and waits if
  the client sends nothing. A chunk that goes beyond the size takes the remainder past 0, and from then on the upload ends with the
  connection only. And the size is that of an ALLO of any earlier upload, or whatever
  `m_buffer_file_size` held when the session was made. `UploadEnds` therefore speaks of a
  client that closed or sent one more byte, and `CompleteWhenAnnounced` of the size in force
  and of all that was sent as equally possible ends.
- An upload whose file could not be opened, whose disk refused a write or whose connection
  failed in the middle is announced with 226 and to the observers (`ftp_session.cpp:365`,
  :373, :378). `CompleteWhenAnnounced` has to exclude these, and nothing else.
- A register or unregister while a notification runs leaves it open who hears of the upload,
  and may end the process (`ftp_observer.cpp:28`). Two sessions may notify at once.
- Every thread that ends leaves its data channel's socket open, if a transfer has not closed
  it, and every client, PORT and PASV costs a socket (`tcp_transport.cpp:54`). What is lost is
  never more than that (`OnlySocketsAreLost`).
- CWD, DELE, RNFR and RNTO act on what they saw before another session's change. CWD may then
  adopt a folder without its separator, and RNTO replace an empty directory: `FolderEndsWell`
  and `DirectoriesKept` promise nothing of a command that was disturbed. `ListingComplete` does.

## What is proved

All for any constants that meet the modules' assumptions.

- `FtpSessionProofs`: `TypeOK`, `AttemptBound`, `GrantedIdentity`, `SecureOverSession`,
  `TerminatedIsFinal`, `AbortHasCause`, and that `FtpSession` implements `LoginProtocol`
  (initial states map to initial states, every step to a step or a stutter). `LoginInv` is
  the types with `AttemptBound` and `GrantedIdentity`: the failure count keeps its type only
  because the limit ends the session. `SecureInv` extends `SecureOverSession` to the thread
  in front of its greeting, `PhaseInv` says that the thread of a terminated session is in
  the loop or done. `SessionsApart` says that no step changes two sessions.
- `CommandLineProofs`: `TypeOK`, `LeftoverIgnored`, `PortAsSent`. The lines and buffers have
  any length, so this is reasoning about recursive functions and streams: `Least` (a
  predicate on the naturals that holds somewhere, given as a set, has a first place where it
  does) yields `Induction` and `StrongInduction` over sets, these `FiniteRecursion` and
  `Recursion` (a recursive definition has the function it describes), and these what `Two`,
  `BitOr`, `Number` and `Rest` compute. `WordAt` finds the place where a word begins and ends;
  from it `CommandLocal` shows that a line that ends in a separator and has all its verb
  takes is read alike with anything behind it. `ReadInv` (the buffer begins with what the
  last pull received, and was parsed) carries this to the thread. `DisjointBits` is the
  arithmetic of PORT: or-ing a byte into a multiple of `Byte` adds it.
- `DescriptorProofs`: `TypeOK`, `OwnDescriptor`, `CrossTalkNeedsStdin`, `OnlySocketsAreLost`,
  `TransfersDoNotLeak`. `OwnDescriptor` with the types is inductive: a new descriptor
  is vacant, so no transport but those at 0 can hold it (`Acquire`), and a transport
  that is closed or moved over gives up the only claim to its number (`Release`,
  `Occupy`). That a thread uses a foreign connection then needs `m_socket = 0` with
  standard input gone, which is `CrossTalkNeedsStdin`. `LostInv` says of what is open under the
  name of a control connection, a bound listener, a folder or a file who still holds it, in
  every phase of the thread, from which `OnlySocketsAreLost` follows.
- `TlsChannelsProofs`: `TypeOK`, `HandlesSound`, `SecureOverOwnConnection`,
  `CrashNeedsClosedChannel`, `ProtectionAsAsked`, `ClosingLosesNothing`. The invariant is the
  conjunction of the first five with two facts: the control channel keeps its socket while
  the session serves (`ControlOpen`, why no transfer can hand NULL to GnuTLS over it), and
  `m_protection_level` is what was asked once anything was (`LevelInv`).
- `PassivePortProofs`: `TypeOK`, `ToldWhatIsBound`, `OwnPort`. The two bytes of the reply
  make the number modulo 65536 (`ToldBytes`, by the uniqueness of quotient and remainder),
  and so does htons; two listeners have two ports, and what waiting clients were told is
  what is bound unless it is 0.
- `StoreTransferProofs`: `TypeOK`, `UploadsArePrefixes`, `CompleteWhenAnnounced`, and that
  `StoreTransfer` implements `UploadLog`. The
  invariant says, for each session with a data connection, that there is a `b` such that
  the file has exactly the bytes 1 to `b` of the connection and the ofstream's buffer
  the next ones, and that both together are what was received as long as the upload
  runs and no write of it failed (`Holds`); that no byte of a future connection is in the file (`NumberInv`); and
  that `file_total_size` is the size less what was received (`Link`). The prefixes
  alone are not inductive: appending the buffer keeps them only because it continues
  what the file has.
- `FileCommandsProofs`: `TypeOK`, `FolderEndsWell`, `DirectoriesKept`, `ListingComplete`. The
  heart of `TypeOK` is `IsTree`: objects have paths of their own and every beginning of a
  path is a directory's. It speaks of all ancestors at once, which spares an induction up
  a path; `UnlinkTree`, `CreateTree` and `RenameTree` show that the three changes
  keep it, the last with a small theory of moved paths (`Moved`, `MovedApart`,
  `MovedBeginning`). `FolderInv` and `TargetInv` carry what `Separator` and `CheckTarget` saw
  to the end of the command as long as nobody touched the tree. `ListGood` says that a
  LIST whose folder always had a name in it looks at the folder's path with the
  separator, has opened the directory that is there (`SameFolder`: a path with names in it
  before and after a change is the same directory's, since rename replaces empty ones
  only), and has found or will find every name that stayed.
- `FtpServerProofs`: `TypeOK`; `ServesLiveSessions` from `LifeInv` (once objects were
  freed the port is taken for ever, so no later server thread gets past `bind`, and
  RUNNING is never set again); `EveryoneHears` from `NoticeInv` (a notification that no
  change raced with has reached everyone it awaits or will still visit them, and nobody
  else). The
  race itself is in the model, not in the theorem: of a notification under which the table
  changes nothing is promised, and nothing proved.

**Liveness.** The prover has no rule for `ENABLED`, and none to induct over a temporal
formula. Each theorem about progress therefore has the hypothesis that a step is enabled
where its guards hold (`SomeoneCanAct`, `ThreadCanAct`), which one reads off the actions, and
takes a fair behaviour from there:

- `StopsEnd` proves `StopEnds`: a stop passes through the stages `Blocked`, `Accepted`, `Looping` and
  `Ended`, which no step leaves backwards.
- `SessionsTerminate` proves the half of `SessionEnds` that speaks of terminated sessions.
  `SessionsAdvance`, `AnswersAdvance` and `UploadsAdvance` prove of the other half, of `PasvAnswered` and
  of `UploadEnds` that a thread with `n` steps left (`Work`) ends or comes to have fewer, for every
  `n` and whatever others do. The induction on `n` that is missing stays with TLC, which
  checks the three properties as they are.

Every safety and action property that a run checks is proved, and every theorem that names
a property is also checked by a run. Only model-checked are the three liveness properties
named last and everything about `ENABLED`. No definition of the project uses a RECURSIVE operator.

## Not modelled

- The encryption itself: what push and pull of a secure channel do beyond using the
  session's pointer.
- The spelling of words in a line: a verb is one cell, and all unknown words are alike.
- Symbolic links, "." and ".." in names, in `FileCommands` `CWD ~` without a path behind it (an
  exception, `command_throws` of `FtpSession`), the order of a listing, changes of the tree by other programs.
- The pairing of replies with commands: a successful PORT answers twice
  (`ftp_session.cpp:271`), which decides nothing in the server.
- `state_machine.h` (an unused template), `ftp_user_database::add` and `erase`,
  `path::get_file_name`, `file::copy`, `file::move`, `directory::move`,
  `directory::get_directories`, listing patterns (no callers), and `main.cpp` beyond the
  calls it makes.

## Plan

1. Done: the modules above, with proofs of all their safety properties and of `StopEnds`.
2. A composition of `FileCommands` with `StoreTransfer`: uploads to a path that another
   session renames or removes while the file is open.
3. `FileCommands` against an abstract tree with atomic commands, which it implements while
   nobody interferes.
