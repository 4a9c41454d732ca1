------------------------------ MODULE TlsChannels ------------------------------
(***************************************************************************)
(* The GnuTLS objects of one session (src/src/tls_session.cpp), held by the  *)
(* control and the data channel (src/src/tcp_transport.cpp), and the         *)
(* protection of the data channel that PROT asks for and PASV sets up.       *)
(* Sessions share no TLS object, so one session shows all there is.          *)
(*                                                                         *)
(* An object is named by its kind and by the bind that allocated it, a       *)
(* connection by the number of its socket; 0 is NULL, and what close leaves  *)
(* in m_socket.  A handshake ends in a step of its own only in FtpSession,   *)
(* where its length matters.                                               *)
(***************************************************************************)
EXTENDS Integers

CONSTANTS
  MaxBinds,    \* bound: calls of tls_session::bind
  MaxSockets   \* bound: sockets the session opens

ASSUME TlsChannelsAssumption == MaxBinds \in Nat /\ MaxSockets \in Nat \ {0, 1}

Channel == {"control", "data"}
Kind    == {"session", "dh", "credentials"}   \* m_session, m_dh_parameters, m_credentials
Level   == {"CLEAR", "SAFE", "CONFIDENTIAL", "PRIVATE"}

VARIABLES
  pc,           \* "serving", "left" (thread ended), "destroyed" or "crashed"
  socket,       \* m_socket of each channel
  sockets,      \* sockets opened so far
  secure,       \* m_secure
  handle,       \* the three pointers of m_session
  binds,        \* binds so far
  live,         \* the GnuTLS objects that are allocated
  established,  \* history: the TLS sessions whose handshake succeeded
  peer,         \* history: the socket each bind was for
  level,        \* m_protection_level
  asked,        \* history: the level the client last asked for, "unset" before any PROT
  terms         \* history: what the data connection was made under

tlsVars == <<secure, handle, binds, live, established, peer>>
vars    == <<pc, socket, sockets, tlsVars, level, asked, terms>>

Terms == [way : {"none", "port", "pasv"}, asked : Level \union {"unset"}, protected : BOOLEAN]

TypeOK ==
  /\ pc \in {"serving", "left", "destroyed", "crashed"}
  /\ sockets \in 2 .. MaxSockets
  /\ socket \in [Channel -> 0 .. sockets]
  /\ secure \in [Channel -> BOOLEAN]
  /\ binds \in 0 .. MaxBinds
  /\ handle \in [Channel -> [Kind -> 0 .. binds]]
  /\ \A c \in Channel : handle[c]["session"] \in {0, handle[c]["dh"]}   \* both of one bind
  /\ live \subseteq Kind \X (1 .. binds)
  /\ established \subseteq 1 .. binds
  /\ peer \in [1 .. MaxBinds -> 0 .. sockets]
  /\ level \in Level
  /\ asked \in Level \union {"unset"}
  /\ terms \in Terms

\* The control connection is 1, the socket the data channel was constructed with 2.
\* The constructor leaves m_protection_level as the memory was.
NoHandles == [k \in Kind |-> 0]
NoTerms   == [way |-> "none", asked |-> "unset", protected |-> FALSE]

Init ==
  /\ pc = "serving"
  /\ socket = [c \in Channel |-> IF c = "control" THEN 1 ELSE 2]
  /\ sockets = 2
  /\ secure = [c \in Channel |-> FALSE]
  /\ handle = [c \in Channel |-> NoHandles]
  /\ binds = 0
  /\ live = {}
  /\ established = {}
  /\ peer = [n \in 1 .. MaxBinds |-> 0]
  /\ level \in Level
  /\ asked = "unset"
  /\ terms = NoTerms

-----------------------------------------------------------------------------
(* tls_session *)

\* The objects a channel with handles h refers to.
Held(h) == {<<k, h[k]>> : k \in {k \in Kind : h[k] # 0}}

\* bind: credentials are allocated over what the channel held; if the certificate
\* or the key is refused nothing else changes.
BoundHandlesDhFirst(h, accepted) ==   \* mutant: m_dh_parameters before the certificate
  IF accepted THEN [k \in Kind |-> binds + 1] ELSE [h EXCEPT !["dh"] = binds + 1]

BoundHandles(h, accepted) ==
  IF accepted THEN [k \in Kind |-> binds + 1] ELSE [h EXCEPT !["credentials"] = binds + 1]

\* handshake: a fatal error frees the new session.
AfterFailureStale(h) == h   \* mutant: m_session keeps the freed session
AfterFailure(h) == [h EXCEPT !["session"] = 0]

\* tcp_transport::set_tls on a channel that has socket f, handles h and m_secure = was.
SetTls(c, f, h, was) ==
  /\ binds < MaxBinds
  /\ binds' = binds + 1
  /\ peer' = [peer EXCEPT ![binds + 1] = f]
  /\ LET n == binds + 1
     IN  \/ /\ handle' = [handle EXCEPT ![c] = BoundHandles(h, FALSE)]
            /\ live' = live \union {<<"credentials", n>>}
            /\ secure' = [secure EXCEPT ![c] = was]
            /\ UNCHANGED established
         \/ /\ handle' = [handle EXCEPT ![c] = AfterFailure(BoundHandles(h, TRUE))]
            /\ live' = live \union {<<"credentials", n>>, <<"dh", n>>}
            /\ secure' = [secure EXCEPT ![c] = FALSE]
            /\ UNCHANGED established
         \/ /\ handle' = [handle EXCEPT ![c] = BoundHandles(h, TRUE)]
            /\ live' = live \union (Kind \X {n})
            /\ secure' = [secure EXCEPT ![c] = TRUE]
            /\ established' = established \union {n}

\* free_tls_session for the channels of C, and what they hold then.
FreedButDh(C)  == live \ {o \in UNION {Held(handle[c]) : c \in C} : o[1] # "dh"}   \* mutant
Freed(C)       == live \ UNION {Held(handle[c]) : c \in C}
Cleared(C)     == [c \in Channel |-> IF c \in C THEN NoHandles ELSE handle[c]]

\* tcp_transport::close: the TLS session is ended and freed if m_secure is set, which
\* it stays.
Close(c) ==
  LET C == IF secure[c] THEN {c} ELSE {}
  IN  /\ live' = Freed(C)
      /\ handle' = Cleared(C)
      /\ socket' = [socket EXCEPT ![c] = 0]
      /\ UNCHANGED <<sockets, secure, binds, established, peer>>

\* push and pull hand m_session to GnuTLS, which dereferences it.
Dangles(c) == secure[c] /\ handle[c]["session"] = 0

-----------------------------------------------------------------------------
(* The command handlers of ftp_session. *)

command_auth ==
  /\ pc = "serving"
  /\ SetTls("control", socket["control"], handle["control"], secure["control"])
  /\ UNCHANGED <<pc, socket, sockets, level, asked, terms>>

\* An argument that names no level changes nothing, and gets the same answer.
LevelUnlessSet(l) == IF asked = "unset" THEN l ELSE level   \* mutant: only the first PROT counts
LevelAfter(l) == l

command_prot(l) ==
  /\ pc = "serving"
  /\ level' = LevelAfter(l)
  /\ asked' = l
  /\ UNCHANGED <<pc, socket, sockets, tlsVars, terms>>

\* PORT: a new client transport is moved over the data channel.
command_port ==
  /\ pc = "serving"
  /\ sockets < MaxSockets
  /\ sockets' = sockets + 1
  /\ socket' = [socket EXCEPT !["data"] = sockets + 1]
  /\ handle' = Cleared({"data"})
  /\ secure' = [secure EXCEPT !["data"] = FALSE]
  /\ terms' = [way |-> "port", asked |-> asked, protected |-> secure["control"]]
  /\ UNCHANGED <<pc, binds, live, established, peer, level, asked>>

\* Whether PASV starts TLS on the data channel.
Protects == secure["control"] /\ level = "PRIVATE"

\* m_secure of the data channel after accept.
SecureAfterAcceptKept(accepted) == secure["data"]   \* mutant: operator= does not move m_secure
SecureAfterAccept(accepted) == ~ accepted /\ secure["data"]

\* PASV once its listener listens: accept moves the connection over the data
\* channel, or fails, unnoticed, and leaves the data channel as it was.
command_pasv(accepted) ==
  /\ pc = "serving"
  /\ accepted => sockets < MaxSockets
  /\ sockets' = IF accepted THEN sockets + 1 ELSE sockets
  /\ socket' = IF accepted THEN [socket EXCEPT !["data"] = sockets + 1] ELSE socket
  /\ LET h   == IF accepted THEN NoHandles ELSE handle["data"]
         was == SecureAfterAccept(accepted)
     IN  \/ Protects /\ SetTls("data", socket'["data"], h, was)
         \/ /\ ~ Protects
            /\ handle' = [handle EXCEPT !["data"] = h]
            /\ secure' = [secure EXCEPT !["data"] = was]
            /\ UNCHANGED <<binds, live, established, peer>>
  /\ terms' = IF accepted \/ Protects
                THEN [way |-> IF accepted THEN "pasv" ELSE terms.way,
                      asked |-> asked, protected |-> secure["control"]]
                ELSE terms
  /\ UNCHANGED <<pc, level, asked>>

\* LIST and STOR use the data channel, open or not, and close it.
Transfer ==
  /\ pc = "serving"
  /\ \/ /\ \E c \in Channel : Dangles(c)
        /\ pc' = "crashed"
        /\ UNCHANGED <<socket, sockets, tlsVars>>
     \/ /\ \A c \in Channel : ~ Dangles(c)
        /\ Close("data")
        /\ UNCHANGED pc
  /\ UNCHANGED <<level, asked, terms>>

\* The thread ends; later the session object is destroyed, and its channels with it.
\* (That it may be destroyed before its thread ends is FtpServer's subject.)
Leave ==
  /\ pc = "serving"
  /\ Close("control")
  /\ pc' = "left"
  /\ UNCHANGED <<level, asked, terms>>

Destroy ==
  /\ pc = "left"
  /\ live' = Freed(Channel)
  /\ handle' = Cleared(Channel)
  /\ pc' = "destroyed"
  /\ UNCHANGED <<socket, sockets, secure, binds, established, peer, level, asked, terms>>

Next ==
  \/ command_auth
  \/ \E l \in Level : command_prot(l)
  \/ command_port
  \/ \E accepted \in BOOLEAN : command_pasv(accepted)
  \/ Transfer
  \/ Leave
  \/ Destroy

Spec == Init /\ [][Next]_vars

-----------------------------------------------------------------------------
(* Properties. *)

\* No dangling pointer: what a channel holds is allocated, and the channels share
\* nothing, so that no object is used after it was freed and none is freed twice,
\* whatever binds, moves, failed handshakes and closes came before (tls_session).
HandlesSound ==
  /\ \A c \in Channel : Held(handle[c]) \subseteq live
  /\ Held(handle["control"]) \intersect Held(handle["data"]) = {}

\* A channel whose socket is open is marked secure only over an established TLS
\* session that was made for that very socket (set_tls, accept and operator= of
\* tcp_transport): what goes over it is read by the peer that the handshake was with.
SecureOverOwnConnection ==
  \A c \in Channel :
    pc # "destroyed" /\ secure[c] /\ socket[c] # 0 =>
      /\ handle[c]["session"] \in established
      /\ peer[handle[c]["session"]] = socket[c]

\* m_secure outlives close, so a second LIST or STOR hands NULL to GnuTLS; nothing
\* else does: not as long as each transfer is preceded by a PASV or PORT that made
\* a data connection.
CrashNeedsClosedChannel == pc = "crashed" => socket["data"] = 0 /\ Dangles("data")

\* A data channel is under TLS only if PROT P was in force when PASV was answered, or
\* no PROT was ever sent; and if it was in force on a protected control channel, TLS
\* was at least tried.  Later PROT commands change nothing, PORT is never protected.
ProtectionAsAsked ==
  pc # "destroyed" /\ socket["data"] # 0 =>
    /\ handle["data"]["credentials"] # 0 => terms.asked \in {"PRIVATE", "unset"} /\ terms.protected
    /\ terms = [way |-> "pasv", asked |-> "PRIVATE", protected |-> TRUE]
         => handle["data"]["credentials"] # 0

\* GnuTLS objects that nobody holds any more.
Lost == live \ UNION {Held(handle[c]) : c \in Channel}

\* Repeated AUTH and a data channel that is moved over lose objects; transfers, the end
\* of the thread and the destruction of the session do not: they free what they let go
\* of (close and ~tls_session).
ClosingLosesNothing ==
  [][UNCHANGED binds /\ (socket["data"] = socket'["data"] \/ socket'["data"] = 0) => Lost' \subseteq Lost]_vars

=============================================================================
