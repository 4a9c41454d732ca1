------------------------------ MODULE Descriptors ------------------------------
(***************************************************************************)
(* Who owns which descriptor of the server process.                        *)
(*                                                                         *)
(* The accept loop (src/src/ftp_server.cpp) and the session threads        *)
(* (src/src/ftp_session.cpp) hold sockets in tcp_transport objects, which   *)
(* share the one descriptor table of the process.  Constructing a transport *)
(* opens a socket, moving one over another forgets what the other held,     *)
(* closing one leaves 0 in m_socket, and destroying one does nothing.  0 is *)
(* also the descriptor of standard input.                                   *)
(*                                                                         *)
(* A transport and the connection made for it have the same name, a pair    *)
(* <<kind, owner>>, so a transport is where it belongs when the table's     *)
(* entry for its m_socket is its own name.  The control traffic itself is   *)
(* FtpSession's subject; the command lines that open, close or use a        *)
(* descriptor arrive here in any order.                                     *)
(***************************************************************************)
EXTENDS Integers

CONSTANTS
  Session,       \* the sessions the accept loop may create
  Server,        \* the owner of what belongs to no session
  MaxFd,         \* bound: the largest descriptor the process may have
  PasvAttempts   \* how many ports PASV tries (20 in command_pasv)

ASSUME DescriptorAssumption ==
  /\ Server \notin Session
  /\ MaxFd \in Nat \ {0, 1}
  /\ PasvAttempts \in Nat \ {0}

\* Standard output and error are never touched and left out of the table.
Fd == 0 .. MaxFd

\* The transports, and what the data commands open besides: the folder of LIST and the
\* output file of STOR.
Ctl(s)   == <<"control", s>>
Data(s)  == <<"data", s>>
Pasv(s)  == <<"listening", s>>
File(s)  == <<"file", s>>
Incoming == <<"incoming", Server>>
Listener == <<"listening", Server>>
Holder   == ({"control", "data", "listening", "file"} \X Session) \union {Incoming, Listener}

\* What a descriptor can refer to besides these.  accept takes its descriptor out
\* of the table when it is called, before any connection arrives.
Free        == <<"free", Server>>
Stdin       == <<"stdin", Server>>
Raw         == <<"raw", Server>>          \* a socket that was never connected
Reserved(p) == <<"reserved", p>>
Object      == {Free, Stdin, Raw} \union ({"reserved"} \X (Session \union {Server}))
                 \union (Holder \ {Incoming})

VARIABLES
  process,   \* "running" or "aborted"
  fd,        \* the descriptor table
  sock,      \* m_socket of every transport; -1 when the call for it failed
  serverPc,  \* the accept loop
  pc,        \* the session threads
  attempt,   \* the loop counter of command_pasv
  strayed    \* history: a thread used a connection that is not its own

vars == <<process, fd, sock, serverPc, pc, attempt, strayed>>

Phase == {"unborn", "greet", "idle", "connecting", "binding", "passive", "accepting",
          "passiveClose", "reading", "listed", "storing", "done"}

TypeOK ==
  /\ process \in {"running", "aborted"}
  /\ fd \in [Fd -> Object]
  /\ sock \in [Holder -> Fd \union {-1}]
  /\ serverPc \in {"construct", "accept", "accepting", "spawn"}
  /\ pc \in [Session -> Phase]
  /\ attempt \in [Session -> 0 .. PasvAttempts - 1]
  /\ strayed \in BOOLEAN

\* The accept loop's listener was assigned over the one that ftp_server's
\* constructor opened.
Init ==
  /\ process = "running"
  /\ fd = [f \in Fd |-> CASE f = 0 -> Stdin [] f = 1 -> Raw [] f = 2 -> Listener [] OTHER -> Free]
  /\ sock = [t \in Holder |-> IF t = Listener THEN 2 ELSE IF t[1] = "file" THEN -1 ELSE 0]
  /\ serverPc = "construct"
  /\ pc = [s \in Session |-> "unborn"]
  /\ attempt = [s \in Session |-> 0]
  /\ strayed = FALSE

-----------------------------------------------------------------------------
(* The kernel. *)

\* f is what a call that creates a descriptor returns: the lowest free one.
NewFd(f) ==
  \/ /\ f \in Fd
     /\ fd[f] = Free
     /\ \A g \in Fd : fd[g] = Free => f <= g
  \/ f = -1 /\ \A g \in Fd : fd[g] # Free

\* The table with object o at f.
With(f, o) == IF f \in Fd THEN [fd EXCEPT ![f] = o] ELSE fd

\* The table after close(2) of each descriptor of F.  A reserved one is not open yet.
CloseKeepsDescriptor(F) ==   \* mutant: m_socket is cleared before it is closed
  [f \in Fd |-> IF f \in F /\ f = 0 /\ fd[f][1] # "reserved" THEN Free ELSE fd[f]]

Closed(F) == [f \in Fd |-> IF f \in F /\ fd[f][1] # "reserved" THEN Free ELSE fd[f]]

\* m_socket of a transport t after tcp_transport::close.
KeptSocket(t)  == sock[t]   \* mutant: m_socket is not cleared
ClosedSocket(t) == 0

\* What the calls on the transports of T, push or pull, meet: SIGPIPE when a reply
\* goes to a socket that was never connected; a connection made for somebody else.
Kills(T)  == \E t \in T : sock[t] \in Fd /\ fd[sock[t]][1] \in {"raw", "listening"}
Strays(T) == \E t \in T : /\ sock[t] \in Fd
                          /\ fd[sock[t]][1] \in {"control", "data"}
                          /\ fd[sock[t]] # t

Push(T) ==
  /\ process' = IF Kills(T) THEN "aborted" ELSE process
  /\ strayed' = (strayed \/ Strays(T))

Running(s, phase) == process = "running" /\ pc[s] = phase

Goto(s, phase) == pc' = [pc EXCEPT ![s] = phase]

-----------------------------------------------------------------------------
(* ftp_server::server_thread *)

ServerAt(label) == process = "running" /\ serverPc = label

\* tcp_transport client_connection;
ConstructConnection ==
  /\ ServerAt("construct")
  /\ \E f \in Fd \union {-1} :
       /\ NewFd(f)
       /\ fd' = With(f, Raw)
       /\ sock' = [sock EXCEPT ![Incoming] = f]
  /\ serverPc' = "accept"
  /\ UNCHANGED <<process, pc, attempt, strayed>>

\* The result of accept is ignored: without a descriptor the loop goes on with the
\* unconnected socket.
AcceptCall ==
  /\ ServerAt("accept")
  /\ \E f \in Fd \union {-1} :
       /\ NewFd(f)
       /\ fd' = With(f, Reserved(Server))
       /\ serverPc' = IF f = -1 THEN "spawn" ELSE "accepting"
  /\ UNCHANGED <<process, sock, pc, attempt, strayed>>

\* A client connects; the socket that client_connection had is forgotten.
AcceptReturn ==
  /\ ServerAt("accepting")
  /\ \E f \in Fd, s \in Session :
       /\ fd[f] = Reserved(Server)
       /\ pc[s] = "unborn"
       /\ fd' = [fd EXCEPT ![f] = Ctl(s)]
       /\ sock' = [sock EXCEPT ![Incoming] = f]
  /\ serverPc' = "spawn"
  /\ UNCHANGED <<process, pc, attempt, strayed>>

\* The session takes the connection over and opens a socket for its data channel.
Spawn ==
  /\ ServerAt("spawn")
  /\ \E s \in Session, f \in Fd \union {-1} :
       /\ pc[s] = "unborn"
       /\ \A c \in Session : sock[Incoming] \in Fd /\ fd[sock[Incoming]] = Ctl(c) => c = s
       /\ NewFd(f)
       /\ fd' = With(f, Raw)
       /\ sock' = [sock EXCEPT ![Ctl(s)] = sock[Incoming], ![Incoming] = 0, ![Data(s)] = f]
       /\ Goto(s, "greet")
  /\ serverPc' = "construct"
  /\ UNCHANGED <<process, attempt, strayed>>

-----------------------------------------------------------------------------
(* The session threads. *)

Greet(s) ==
  /\ Running(s, "greet")
  /\ Push({Ctl(s)})
  /\ Goto(s, "idle")
  /\ UNCHANGED <<fd, sock, serverPc, attempt>>

\* Any command that only answers.
Reply(s) ==
  /\ Running(s, "idle")
  /\ Push({Ctl(s)})
  /\ UNCHANGED <<fd, sock, serverPc, pc, attempt>>

\* PORT: a new client transport is moved over the data channel, whose socket is
\* forgotten, and connected.
command_port(s) ==
  /\ Running(s, "idle")
  /\ \E f \in Fd \union {-1} :
       /\ NewFd(f)
       /\ fd' = With(f, Raw)
       /\ sock' = [sock EXCEPT ![Data(s)] = f]
  /\ Goto(s, "connecting")
  /\ UNCHANGED <<process, serverPc, attempt, strayed>>

connect(s) ==
  /\ Running(s, "connecting")
  /\ \/ UNCHANGED fd
     \/ /\ sock[Data(s)] \in Fd
        /\ fd[sock[Data(s)]] = Raw
        /\ fd' = [fd EXCEPT ![sock[Data(s)]] = Data(s)]
  /\ Push({Ctl(s)})
  /\ Goto(s, "idle")
  /\ UNCHANGED <<sock, serverPc, attempt>>

\* PASV: tcp_listener listener;
command_pasv(s) ==
  /\ Running(s, "idle")
  /\ \E f \in Fd \union {-1} :
       /\ NewFd(f)
       /\ fd' = With(f, Raw)
       /\ sock' = [sock EXCEPT ![Pasv(s)] = f]
  /\ Goto(s, "binding")
  /\ UNCHANGED <<process, serverPc, attempt, strayed>>

\* The loop's bound, after n failures and one more.
LastAttemptLate(n) == n = PasvAttempts   \* mutant: attempt <= 20
LastAttempt(n) == n + 1 = PasvAttempts

\* One round of the loop (attempt counts the failed ones): the next listener replaces the one before, unclosed.  The
\* last failure answers 500 and drops the listener, unclosed as well.
BindAttempt(s) ==
  /\ Running(s, "binding")
  /\ \E f \in Fd \union {-1} :
       /\ NewFd(f)
       /\ \/ /\ f # -1
             /\ fd' = With(f, Pasv(s))
             /\ sock' = [sock EXCEPT ![Pasv(s)] = f]
             /\ attempt' = [attempt EXCEPT ![s] = 0]
             /\ Goto(s, "passive")
             /\ UNCHANGED <<process, strayed>>
          \/ /\ ~ LastAttempt(attempt[s])
             /\ fd' = With(f, Raw)
             /\ sock' = [sock EXCEPT ![Pasv(s)] = f]
             /\ attempt' = [attempt EXCEPT ![s] = @ + 1]
             /\ UNCHANGED <<process, pc, strayed>>
          \/ /\ LastAttempt(attempt[s])
             /\ fd' = With(f, Raw)
             /\ sock' = [sock EXCEPT ![Pasv(s)] = 0]
             /\ attempt' = [attempt EXCEPT ![s] = 0]
             /\ Push({Ctl(s)})
             /\ Goto(s, "idle")
  /\ UNCHANGED <<serverPc>>

\* 227 is sent and accept is called, whose result is ignored here too.
EnterPassive(s) ==
  /\ Running(s, "passive")
  /\ Push({Ctl(s)})
  /\ \E f \in Fd \union {-1} :
       /\ NewFd(f)
       /\ fd' = With(f, Reserved(s))
       /\ Goto(s, IF f = -1 THEN "passiveClose" ELSE "accepting")
  /\ UNCHANGED <<sock, serverPc, attempt>>

PassiveAccept(s) ==
  /\ Running(s, "accepting")
  /\ \E f \in Fd :
       /\ fd[f] = Reserved(s)
       /\ fd' = [fd EXCEPT ![f] = Data(s)]
       /\ sock' = [sock EXCEPT ![Data(s)] = f]
  /\ Goto(s, "passiveClose")
  /\ UNCHANGED <<process, serverPc, attempt, strayed>>

\* A protected session starts a TLS handshake on its data channel, which is the
\* one it had before when accept failed; then listener.close().
PassiveDone(s) ==
  /\ Running(s, "passiveClose")
  /\ \/ UNCHANGED strayed
     \/ strayed' = (strayed \/ Strays({Data(s)}))
  /\ fd' = Closed({sock[Pasv(s)]})
  /\ sock' = [sock EXCEPT ![Pasv(s)] = ClosedSocket(Pasv(s))]
  /\ Goto(s, "idle")
  /\ UNCHANGED <<process, serverPc, attempt>>

\* What opendir and the ofstream's constructor take; either may fail.
Open(s) ==
  \E f \in Fd \union {-1} :
    /\ NewFd(f) \/ f = -1
    /\ fd' = With(f, File(s))
    /\ sock' = [sock EXCEPT ![File(s)] = f]

\* LIST: directory::get_files opens the folder,
command_list(s) ==
  /\ Running(s, "idle")
  /\ Open(s)
  /\ Goto(s, "reading")
  /\ UNCHANGED <<process, serverPc, attempt, strayed>>

\* and closes it once it is read; then "150" and the listing are sent.
SendListing(s) ==
  /\ Running(s, "reading")
  /\ fd' = Closed({sock[File(s)]})
  /\ sock' = [sock EXCEPT ![File(s)] = -1]
  /\ process' = IF Kills({Ctl(s), Data(s)})' THEN "aborted" ELSE process
  /\ strayed' = (strayed \/ Strays({Ctl(s), Data(s)})')
  /\ Goto(s, "listed")
  /\ UNCHANGED <<serverPc, attempt>>

ListDone(s) ==
  /\ Running(s, "listed")
  /\ Push({Ctl(s)})
  /\ fd' = Closed({sock[Data(s)]})
  /\ sock' = [sock EXCEPT ![Data(s)] = ClosedSocket(Data(s))]
  /\ Goto(s, "idle")
  /\ UNCHANGED <<serverPc, attempt>>

\* STOR: the file is opened, "150" is sent, and the data channel is read until its
\* end or an error.
command_stor(s) ==
  /\ Running(s, "idle")
  /\ Open(s)
  /\ Push({Ctl(s)})
  /\ Goto(s, "storing")
  /\ UNCHANGED <<serverPc, attempt>>

StoreDone(s) ==
  /\ Running(s, "storing")
  /\ process' = IF Kills({Ctl(s)}) THEN "aborted" ELSE process
  /\ strayed' = (strayed \/ Strays({Ctl(s), Data(s)}))
  /\ fd' = Closed({sock[File(s)], sock[Data(s)]})
  /\ sock' = [sock EXCEPT ![File(s)] = -1, ![Data(s)] = ClosedSocket(Data(s))]
  /\ Goto(s, "idle")
  /\ UNCHANGED <<serverPc, attempt>>

\* Mutant: the thread leaves its control channel to the transport's destructor.
LeaveOpen(s) ==
  /\ Running(s, "idle")
  /\ Goto(s, "done")
  /\ UNCHANGED <<process, fd, sock, serverPc, attempt, strayed>>

\* The thread ends and closes the control channel, and only that.  The transports it
\* leaves are never used again, and no destructor closes them.
Leave(s) ==
  /\ Running(s, "idle")
  /\ fd' = Closed({sock[Ctl(s)]})
  /\ sock' = [sock EXCEPT ![Ctl(s)] = ClosedSocket(Ctl(s))]
  /\ Goto(s, "done")
  /\ UNCHANGED <<process, serverPc, attempt, strayed>>

-----------------------------------------------------------------------------
AcceptLoop == ConstructConnection \/ AcceptCall \/ AcceptReturn \/ Spawn

Thread(s) ==
  \/ Greet(s)
  \/ Reply(s)
  \/ command_port(s)
  \/ connect(s)
  \/ command_pasv(s)
  \/ BindAttempt(s)
  \/ EnterPassive(s)
  \/ PassiveAccept(s)
  \/ PassiveDone(s)
  \/ command_list(s)
  \/ SendListing(s)
  \/ ListDone(s)
  \/ command_stor(s)
  \/ StoreDone(s)
  \/ Leave(s)

Next == AcceptLoop \/ \E s \in Session : Thread(s)

Spec == Init /\ [][Next]_vars

-----------------------------------------------------------------------------
(* Properties. *)

\* What a transport's descriptor may refer to: its own connection, or a socket not
\* yet connected; client_connection holds the connection of a session to be.
Proper(t, o) ==
  \/ o \in {Raw, t}
  \/ t = Incoming /\ \E s \in Session : o = Ctl(s)

\* A descriptor other than 0 that some transport holds is open, refers to what
\* belongs to that transport, and is held by no other transport, however
\* constructions, moves, closes and accepts of all threads interleave.
OwnDescriptor ==
  \A t \in Holder :
    sock[t] \in Fd \ {0} =>
      /\ Proper(t, fd[sock[t]])
      /\ \A u \in Holder \ {t} : sock[u] # sock[t]

\* The 0 left by close is harmless exactly as long as standard input occupies it:
\* until some thread has closed it no thread reads or writes a connection of
\* another client.
CrossTalkNeedsStdin == fd[0] = Stdin => ~ strayed

\* Descriptors that are open and that nobody can close any more: the transports that held
\* them were moved over, or their session is done.  (Whoever closes 0 closes it for all.)
Held == {sock[t] : t \in {u \in Holder : u[2] \in Session => pc[u[2]] # "done"}}

Lost == {f \in Fd \ (Held \union {0}) : fd[f][1] \notin {"free", "reserved"}}

\* Whatever PORT, PASV and the accept loop lose before, the end of a data command loses
\* nothing: it closes what the command opened and the data channel (closedir, close() of
\* PASV, LIST and STOR).  The end of a thread loses its data channel's socket, which
\* ~tcp_transport does not close, and nothing else.
TransfersDoNotLeak ==
  [][\A s \in Session : pc'[s] # pc[s] =>
       /\ pc[s] \in {"passiveClose", "reading", "listed", "storing"} => Lost' \subseteq Lost
       /\ pc'[s] = "done" => Lost' \subseteq Lost \union {sock[Data(s)]}]_vars

\* Sockets do get lost, one with every client, PORT and PASV, until the table is full; but
\* only ones that were never connected, and data connections.  The control connection of a
\* client, a bound listener, an open folder or file has an owner that will close it,
\* whatever moves, closes and reuses of numbers came between (tcp_transport::operator=).
OnlySocketsAreLost ==
  \A f \in Lost : fd[f] = Raw \/ \E s \in Session : fd[f] = Data(s)

\* "150 ASCII data connection" and "226 ASCII Transfer complete" (ftp_session.cpp:293
\* and 298): a listing goes over the data connection of the client that asked for it.
ListingReachesItsClient ==
  \A s \in Session : pc[s] = "listed" => ~ Strays({Data(s)})

=============================================================================
