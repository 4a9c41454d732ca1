------------------------------- MODULE FtpServer -------------------------------
(***************************************************************************)
(* The life of a server: the thread that calls start, stop and the          *)
(* registration of observers (src/src/ftp_server.cpp), the accept loop,      *)
(* the session objects it owns with the threads that run on them, and the    *)
(* table of observers they share (src/src/ftp_observer.cpp).  Nothing here   *)
(* is locked.  What a session does beside uploading is FtpSession's subject, *)
(* what accept does at the descriptor limit Descriptors'.                    *)
(***************************************************************************)
EXTENDS Integers

CONSTANTS
  Session,   \* bound: the sessions that are followed
  Observer   \* the objects that may be registered

\* ftp_observe_event_t; only FILE_PUT is ever notified.
Event == {"FILE_PUT", "FILE_GET", "ANY"}

VARIABLES
  process,    \* "running" or "aborted": an uncaught exception or std::terminate
  status,     \* m_status
  caller,     \* the thread that owns the server: between calls or in join
  server,     \* the server thread; "none" when m_server_thread is not joinable
  listening,  \* a socket listens on the port; nothing closes one
  waiting,    \* a client waits in the listener's queue
  thread,     \* the session threads
  list,       \* client_sessions
  freed,      \* session objects that were destroyed
  observers,  \* m_observers, a function from what is registered to its event
  todo,       \* what a notification has still to visit
  raced,      \* history: the table was changed while the notification went over it
  heard       \* history: who heard of it

life     == <<status, caller, server, listening>>
sessions == <<thread, list, freed>>
notices  == <<todo, raced, heard>>
vars     == <<process, life, waiting, sessions, observers, notices>>

TypeOK ==
  /\ process \in {"running", "aborted"}
  /\ status \in {"RUNNING", "STOPPING"}
  /\ caller \in {"free", "joining"}
  /\ server \in {"none", "bind", "bound", "loop", "accepting", "ended"}
  /\ listening \in BOOLEAN
  /\ waiting \in BOOLEAN
  /\ thread \in [Session -> {"unborn", "commands", "notifying", "done"}]
  /\ list \subseteq Session
  /\ freed \subseteq Session
  /\ server \in {"none", "ended"} => list = {}
  /\ server = "none" => caller = "free"
  /\ list \union freed = {s \in Session : thread[s] # "unborn"}
  /\ DOMAIN observers \subseteq Observer
  /\ \A o \in DOMAIN observers : observers[o] \in Event
  /\ todo \in [Session -> SUBSET Observer]
  /\ raced \in [Session -> BOOLEAN]
  /\ heard \in [Session -> SUBSET Observer]

Init ==
  /\ process = "running"
  /\ status = "STOPPING"
  /\ caller = "free"
  /\ server = "none"
  /\ listening = FALSE
  /\ waiting = FALSE
  /\ thread = [s \in Session |-> "unborn"]
  /\ list = {}
  /\ freed = {}
  /\ observers = [o \in {} |-> "ANY"]
  /\ todo = [s \in Session |-> {}]
  /\ raced = [s \in Session |-> FALSE]
  /\ heard = [s \in Session |-> {}]

Alive == process = "running"

Abort(rest) == process' = "aborted" /\ UNCHANGED rest

-----------------------------------------------------------------------------
(* The calls of the owner. *)

CallerFree == Alive /\ caller = "free"

\* A thread that was not joined must not be assigned over.
start ==
  /\ CallerFree
  /\ \/ /\ server = "none"
        /\ server' = "bind"
        /\ UNCHANGED <<process, status, caller, listening>>
     \/ server # "none" /\ Abort(life)
  /\ UNCHANGED <<waiting, sessions, observers, notices>>

\* Joining a thread that was never started throws.
stop ==
  /\ CallerFree
  /\ status' = "STOPPING"
  /\ \/ server # "none" /\ caller' = "joining" /\ UNCHANGED process
     \/ server = "none" /\ process' = "aborted" /\ UNCHANGED caller
  /\ UNCHANGED <<server, listening, waiting, sessions, observers, notices>>

\* When stop returns.
Detached == TRUE   \* mutant: detach instead of join
Joined == server = "ended"

StopReturns ==
  /\ Alive /\ caller = "joining" /\ Joined
  /\ caller' = "free"
  /\ server' = "none"
  /\ UNCHANGED <<process, status, listening, waiting, sessions, observers, notices>>

Notifying == {s \in Session : thread[s] = "notifying"}

\* Changing the map under notifications, whose iterators walk its nodes without a lock:
\* the process may crash, and each of them may from then on miss nodes, meet some once
\* more, and meet one that was erased.
Changing ==
  /\ process' \in IF Notifying = {} THEN {"running"} ELSE {"running", "aborted"}
  /\ \E met \in [Notifying -> SUBSET (DOMAIN observers \union DOMAIN observers')] :
       todo' = [s \in Session |-> IF s \in Notifying THEN met[s] ELSE todo[s]]
  /\ raced' = [s \in Session |-> raced[s] \/ s \in Notifying]

\* insert keeps the entry an observer has.
register_observer(o, e) ==
  /\ CallerFree
  /\ o \notin DOMAIN observers
  /\ observers' = [p \in DOMAIN observers \union {o} |-> IF p = o THEN e ELSE observers[p]]
  /\ Changing
  /\ UNCHANGED <<life, waiting, sessions, heard>>

unregister_observer(o, e) ==
  /\ CallerFree
  /\ o \in DOMAIN observers /\ observers[o] = e
  /\ observers' = [p \in DOMAIN observers \ {o} |-> observers[p]]
  /\ Changing
  /\ UNCHANGED <<life, waiting, sessions, heard>>

-----------------------------------------------------------------------------
(* ftp_server::server_thread *)

\* A new listener is bound while the one before still has the port; another process
\* may have it as well.  The exception is caught by nobody.
Bind ==
  /\ Alive /\ server = "bind"
  /\ \/ ~ listening /\ listening' = TRUE /\ server' = "bound" /\ UNCHANGED process
     \/ process' = "aborted" /\ UNCHANGED <<listening, server>>
  /\ UNCHANGED <<status, caller, waiting, sessions, observers, notices>>

\* A stop that came before this is forgotten.
SetRunning ==
  /\ Alive /\ server = "bound"
  /\ status' = "RUNNING"
  /\ server' = "loop"
  /\ UNCHANGED <<process, caller, listening, waiting, sessions, observers, notices>>

\* The accept loop's condition.
Forever == TRUE   \* mutant: while (true)
Continues == status = "RUNNING"

GoOn ==
  /\ Alive /\ server = "loop" /\ Continues
  /\ server' = "accepting"
  /\ UNCHANGED <<process, status, caller, listening, waiting, sessions, observers, notices>>

\* The list and with it every session object goes out of scope; the threads go on.
Return ==
  /\ Alive /\ server = "loop" /\ ~ Continues
  /\ server' = "ended"
  /\ list' = {}
  /\ freed' = freed \union list
  /\ UNCHANGED <<process, status, caller, listening, waiting, thread, observers, notices>>

\* client_sessions once s is created.  A session that is not in it is freed, since its
\* shared_ptr goes out of scope.
NotListed(s) == list   \* mutant: push_back is missing
Listed(s) == list \union {s}

\* Sessions beyond those of Session are created too, but not followed any further.
Accept ==
  /\ Alive /\ server = "accepting" /\ waiting
  /\ \/ \E s \in Session :
          /\ thread[s] = "unborn"
          /\ thread' = [thread EXCEPT ![s] = "commands"]
          /\ list' = Listed(s)
          /\ freed' = freed \union ({s} \ list')
     \/ (\A s \in Session : thread[s] # "unborn") /\ UNCHANGED sessions
  /\ waiting' = FALSE
  /\ server' = "loop"
  /\ UNCHANGED <<process, status, caller, listening, observers, notices>>

Connect ==
  /\ Alive /\ listening /\ ~ waiting
  /\ waiting' = TRUE
  /\ UNCHANGED <<process, life, sessions, observers, notices>>

-----------------------------------------------------------------------------
(* A session's thread, on an object that may be gone: it may crash or go on. *)

OnObject(s) == process' \in IF s \in freed THEN {"running", "aborted"} ELSE {"running"}

\* STOR is done: notify_observers(FILE_PUT).
Uploaded(s) ==
  /\ Alive /\ thread[s] = "commands"
  /\ thread' = [thread EXCEPT ![s] = "notifying"]
  /\ todo' = [todo EXCEPT ![s] = DOMAIN observers]
  /\ raced' = [raced EXCEPT ![s] = FALSE]
  /\ heard' = [heard EXCEPT ![s] = {}]
  /\ OnObject(s)
  /\ UNCHANGED <<life, waiting, list, freed, observers>>

\* Those among S that are in the table for uploads.
Awaiting(S) == {o \in S \intersect DOMAIN observers : observers[o] = "FILE_PUT"}

\* What is left after o was visited.
FirstOnly(s, o) == IF Awaiting({o}) = {} THEN todo[s] \ {o} ELSE {}   \* mutant: break
Rest(s, o) == todo[s] \ {o}

\* The next node.  After a race it may be one that was erased, and the iterator's way on
\* from it leads anywhere.
Visit(s) ==
  /\ Alive /\ thread[s] = "notifying"
  /\ \E o \in todo[s] :
       /\ todo' = [todo EXCEPT ![s] = Rest(s, o)]
       /\ heard' = [heard EXCEPT ![s] = @ \union Awaiting({o})]
  /\ process' \in IF raced[s] THEN {"running", "aborted"} ELSE {"running"}
  /\ UNCHANGED <<life, waiting, sessions, observers, raced>>

Notified(s) ==
  /\ Alive /\ thread[s] = "notifying" /\ todo[s] = {}
  /\ thread' = [thread EXCEPT ![s] = "commands"]
  /\ raced' = [raced EXCEPT ![s] = FALSE]
  /\ heard' = [heard EXCEPT ![s] = {}]
  /\ OnObject(s)
  /\ UNCHANGED <<life, waiting, list, freed, observers, todo>>

Leave(s) ==
  /\ Alive /\ thread[s] = "commands"
  /\ thread' = [thread EXCEPT ![s] = "done"]
  /\ OnObject(s)
  /\ UNCHANGED <<life, waiting, list, freed, observers, notices>>

-----------------------------------------------------------------------------
Owner ==
  \/ start
  \/ stop
  \/ \E o \in Observer, e \in Event : register_observer(o, e) \/ unregister_observer(o, e)

ServerThread == Bind \/ SetRunning \/ GoOn \/ Return \/ Accept

SessionThread(s) == Uploaded(s) \/ Visit(s) \/ Notified(s) \/ Leave(s)

Next ==
  \/ Owner
  \/ StopReturns
  \/ ServerThread
  \/ Connect
  \/ \E s \in Session : SessionThread(s)

Spec == Init /\ [][Next]_vars

\* Threads are scheduled and clients keep connecting; no session is obliged to end.
Fairness == WF_vars(ServerThread) /\ WF_vars(StopReturns) /\ WF_vars(Connect)

FairSpec == Spec /\ Fairness

-----------------------------------------------------------------------------
(* Properties. *)

\* While the server runs the object of every session lives, whatever was stopped and
\* started before.
ServesLiveSessions == Alive /\ status = "RUNNING" => freed = {}

\* A notification that ends has reached exactly the observers that are registered for
\* FILE_PUT, however many run at once and whatever was registered between them, unless
\* the table was changed while it ran: nothing locks it, and then nobody can rely on it.
EveryoneHears ==
  [][\A s \in Session :
       thread[s] = "notifying" /\ thread'[s] = "commands" /\ ~ raced[s]
         => heard[s] = Awaiting(Observer)]_vars

\* A stop that finds the server running returns, as soon as one more client comes.  (One
\* that comes before SetRunning is forgotten, and join waits for ever.)
StopEnds ==
  caller = "joining" /\ status = "STOPPING" /\ server \in {"loop", "accepting"}
    ~> caller = "free" \/ ~ Alive

=============================================================================
