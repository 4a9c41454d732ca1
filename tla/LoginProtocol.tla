---------------------------- MODULE LoginProtocol ----------------------------
(***************************************************************************)
(* What the login commands promise, without threads, replies or descriptors.*)
(* A session has a queue of requests.  It is granted access by a PASS whose *)
(* password is that of the login named last, and by nothing else; a PASS    *)
(* with any other password costs an attempt; the attempts are bounded; and a *)
(* session that ended never comes back.  FtpSession implements this          *)
(* specification under the mapping given there.                             *)
(***************************************************************************)
EXTENDS Naturals, Sequences

CONSTANTS Session, Line, Users, Nobody, MaxFailures

VARIABLES
  queue,      \* the requests a session has not looked at
  login,      \* the login named last
  access,     \* the login a session acts for, or Nobody
  failures,   \* failed attempts of a session
  upgrading,  \* the sessions that negotiate a secure channel
  ended       \* the sessions that are over

lvars == <<queue, login, access, failures, upgrading, ended>>

LInit ==
  /\ queue = [s \in Session |-> <<>>]
  /\ login = [s \in Session |-> Nobody]
  /\ access = [s \in Session |-> Nobody]
  /\ failures = [s \in Session |-> 0]
  /\ upgrading = {}
  /\ ended = {}

Submit(s) ==
  /\ \E line \in Line : queue' = [queue EXCEPT ![s] = Append(@, line)]
  /\ UNCHANGED <<login, access, failures, upgrading, ended>>

\* At least so many requests leave the queue.
Drop(s, least) ==
  \E n \in least .. Len(queue[s]) : queue' = [queue EXCEPT ![s] = SubSeq(@, n + 1, Len(@))]

\* The first request is taken; what arrived together with it may be forgotten.
Take(s, verb) ==
  /\ s \notin ended \union upgrading
  /\ queue[s] # <<>>
  /\ Head(queue[s]).verb = verb
  /\ Drop(s, 1)

Name(s) ==
  /\ Take(s, "USER")
  /\ login' = [login EXCEPT ![s] = Head(queue[s]).arg]
  /\ UNCHANGED <<access, failures, upgrading, ended>>

Correct(s) ==
  /\ login[s] \in DOMAIN Users
  /\ Users[login[s]].password = Head(queue[s]).arg

\* A correct password replaces whatever access the session had.
Grant(s) ==
  /\ Take(s, "PASS")
  /\ Correct(s)
  /\ access' = [access EXCEPT ![s] = login[s]]
  /\ UNCHANGED <<login, failures, upgrading, ended>>

\* A wrong password costs an attempt and leaves the access alone; the attempt
\* after the last allowed one ends the session in the same step.
Fail(s) ==
  /\ Take(s, "PASS")
  /\ ~ Correct(s)
  /\ failures' = [failures EXCEPT ![s] = @ + 1]
  /\ ended' = IF failures[s] = MaxFailures THEN ended \union {s} ELSE ended
  /\ UNCHANGED <<login, access, upgrading>>

Quit(s) ==
  /\ Take(s, "QUIT")
  /\ ended' = ended \union {s}
  /\ UNCHANGED <<login, access, failures, upgrading>>

\* The connection is over.
Break(s) ==
  /\ s \notin ended
  /\ ended' = ended \union {s}
  /\ UNCHANGED <<queue, login, access, failures, upgrading>>

\* Any other request has nothing to do with the login; AUTH may start a negotiation, in
\* which requests sent in the clear are lost.
Other(s) ==
  /\ \E line \in Line : line.verb \notin {"USER", "PASS", "QUIT", "AUTH"} /\ Take(s, line.verb)
  /\ UNCHANGED <<login, access, failures, upgrading, ended>>

Auth(s) ==
  /\ Take(s, "AUTH")
  /\ upgrading' \in {upgrading, upgrading \union {s}}
  /\ UNCHANGED <<login, access, failures, ended>>

Upgraded(s) ==
  /\ s \in upgrading
  /\ Drop(s, 0)
  /\ upgrading' = upgrading \ {s}
  /\ UNCHANGED <<login, access, failures, ended>>

LNext ==
  \E s \in Session :
    \/ Submit(s)
    \/ Name(s)
    \/ Grant(s)
    \/ Fail(s)
    \/ Quit(s)
    \/ Break(s)
    \/ Other(s)
    \/ Auth(s)
    \/ Upgraded(s)

LSpec == LInit /\ [][LNext]_lvars

=============================================================================
