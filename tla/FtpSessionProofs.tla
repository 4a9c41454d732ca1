--------------------------- MODULE FtpSessionProofs ---------------------------
(***************************************************************************)
(* What FtpSession's invariants say holds for every set of sessions, every  *)
(* user database, every limit of attempts and every number of lines in      *)
(* flight.                                                                  *)
(***************************************************************************)
EXTENDS FtpSession, SequenceTheorems, TLAPS

\* SecureOverSession speaks of the states in which the channel is used; the greeting
\* leads into them with the channel still in the clear.
SecureInv ==
  \A s \in Session :
    pc[s] \in {"greet", "pull", "connect", "transfer"} /\ secure[s] => tls[s] = "established"

\* The type of authAttempt is inductive only together with AttemptBound: it is the
\* guard on a terminated session that keeps the counter from passing its limit.
LoginInv == TypeOK /\ AttemptBound /\ GrantedIdentity

\* A thread sees its session terminated only in its loop: whatever ends a session is
\* done by a handler that returns to the loop, or by the loop's exit.
PhaseInv ==
  \A s \in Session : state[s] = "TERMINATED" => pc[s] \in {"pull", "done"}

-----------------------------------------------------------------------------
\* Pushing keeps the client's end and the process within their types.
LEMMA PushType ==
  ASSUME TypeOK, NEW s \in Session, NEW n \in 0 .. 2, Push(s, n)
  PROVE  peer' \in [Session -> PeerState] /\ process' \in {"running", "aborted"}
<1>1. PICK p \in AfterPush(peer[s], secure[s], n) :
        /\ peer' = [peer EXCEPT ![s] = p]
        /\ process' = IF p = "sigpipe" THEN "aborted" ELSE process
  BY DEF Push
<1>2. peer[s] \in PeerState
  BY DEF TypeOK
<1>3. p \in PeerState
  BY <1>1, <1>2 DEF AfterPush, PeerState
<1> QED
  BY <1>1, <1>3 DEF TypeOK

\* Forgetting a prefix of the lines in flight leaves lines.
LEMMA DropType ==
  ASSUME TypeOK, NEW s \in Session, NEW n \in 0 .. Len(inbox[s]),
         inbox' = [inbox EXCEPT ![s] = SubSeq(@, n + 1, Len(@))]
  PROVE  inbox' \in [Session -> Seq(Line)]
<1>1. inbox[s] \in Seq(Line)
  BY DEF TypeOK
<1>2. SubSeq(inbox[s], n + 1, Len(inbox[s])) \in Seq(Line)
  BY <1>1, SubSeqProperties, LenProperties
<1> QED
  BY <1>2 DEF TypeOK

\* What every handler gets from the parser: a line, taken off a typed buffer, while
\* the session is not terminated.
LEMMA ReceiveType ==
  ASSUME TypeOK, NEW s \in Session, NEW line \in Line, Receive(s, line)
  PROVE  /\ inbox' \in [Session -> Seq(Line)]
         /\ line.arg \in Arg
         /\ state[s] # "TERMINATED"
         /\ pc[s] = "pull"
<1>1. PICK n \in 1 .. Len(inbox[s]) :
        inbox' = [inbox EXCEPT ![s] = SubSeq(@, n + 1, Len(@))]
  BY DEF Receive
<1>2. inbox[s] \in Seq(Line)
  BY DEF TypeOK
<1>3. n \in 0 .. Len(inbox[s])
  BY <1>1, <1>2, LenProperties
<1> QED
  BY <1>1, <1>3, DropType, SessionAssumption DEF Receive, At

\* Before any client speaks nobody is logged in and nothing has failed.
LEMMA InitLogin == Init => LoginInv
BY SessionAssumption DEF Init, LoginInv, TypeOK, AttemptBound, GrantedIdentity, ThreadState,
                         SessionState, PeerState, UserRecord

-----------------------------------------------------------------------------
\* The two handlers that change who a session acts for.
LEMMA UserLogin ==
  ASSUME LoginInv, NEW s \in Session, NEW line \in Line, command_user(s, line)
  PROVE  LoginInv'
<1>1. TypeOK /\ Receive(s, line)
  BY DEF LoginInv, command_user
<1>2. /\ inbox' \in [Session -> Seq(Line)]
      /\ line.arg \in Arg
      /\ state[s] # "TERMINATED"
  BY <1>1, ReceiveType
<1>3. peer' \in [Session -> PeerState] /\ process' \in {"running", "aborted"}
  BY <1>1, PushType DEF command_user
<1>4. user' = [user EXCEPT ![s] = LoginEntered(@, line.arg)]
      /\ state' = [state EXCEPT ![s] = "WAIT_PASSWORD"]
      /\ UNCHANGED <<pc, authAttempt, granted, secure, tls>>
  BY DEF command_user, tlsVars
<1>5. TypeOK'
  BY <1>1, <1>2, <1>3, <1>4 DEF TypeOK, UserRecord, LoginEntered, SessionState
<1>6. AttemptBound'
  BY <1>1, <1>2, <1>4 DEF LoginInv, TypeOK, AttemptBound
<1>7. GrantedIdentity'
  BY <1>1, <1>4 DEF LoginInv, TypeOK, GrantedIdentity, UserRecord, LoginEntered
<1> QED
  BY <1>5, <1>6, <1>7 DEF LoginInv

\* PASS keeps the login invariant, whichever of its answers it gives.
LEMMA PassLogin ==
  ASSUME LoginInv, NEW s \in Session, NEW line \in Line, command_pass(s, line)
  PROVE  LoginInv'
<1>1. TypeOK /\ Receive(s, line)
  BY DEF LoginInv, command_pass
<1>2. /\ inbox' \in [Session -> Seq(Line)]
      /\ line.arg \in Arg
      /\ state[s] # "TERMINATED"
  BY <1>1, ReceiveType
<1>3. peer' \in [Session -> PeerState] /\ process' \in {"running", "aborted"}
  BY <1>1, PushType DEF command_pass
<1>4. UNCHANGED <<pc, secure, tls>>
  BY DEF command_pass, tlsVars
<1>5. CASE Found(user[s].login, line.arg)
  <2> DEFINE login == user[s].login
  <2>1. /\ user' = [user EXCEPT ![s] = [login |-> login, password |-> line.arg,
                                        folder |-> Users[login].folder]]
        /\ granted' = [granted EXCEPT ![s] = login]
        /\ UNCHANGED <<state, authAttempt>>
    BY <1>5 DEF command_pass
  <2>2. login \in DOMAIN Users /\ login # Empty /\ Users[login].folder \in Folder
    BY <1>5, SessionAssumption DEF Found, Folder
  <2>3. login \in Arg
    BY <2>2, SessionAssumption
  <2>4. TypeOK'
    BY <1>1, <1>2, <1>3, <1>4, <2>1, <2>2, <2>3 DEF TypeOK, UserRecord
  <2>5. AttemptBound' /\ GrantedIdentity'
    BY <1>1, <2>1, <2>2 DEF LoginInv, TypeOK, AttemptBound, GrantedIdentity, UserRecord
  <2> QED
    BY <2>4, <2>5 DEF LoginInv
<1>6. CASE ~ Found(user[s].login, line.arg)
  <2>1. /\ user' = [user EXCEPT ![s].password = line.arg]
        /\ authAttempt' = [authAttempt EXCEPT ![s] = @ + 1]
        /\ state' = [state EXCEPT ![s] = StateAfterFailure(authAttempt[s] + 1)]
        /\ UNCHANGED granted
    BY <1>6 DEF command_pass
  <2>2. authAttempt[s] \in 0 .. MaxAuthAttempts
    BY <1>1, <1>2, SessionAssumption DEF LoginInv, TypeOK, AttemptBound
  <2>3. StateAfterFailure(authAttempt[s] + 1) \in SessionState
    BY DEF StateAfterFailure, SessionState
  <2>4. TypeOK'
    <3>1. authAttempt[s] + 1 \in 0 .. MaxAuthAttempts + 1
      BY <2>2, SessionAssumption
    <3>2. authAttempt' \in [Session -> 0 .. MaxAuthAttempts + 1]
      BY <1>1, <2>1, <3>1 DEF TypeOK
    <3>3. user' \in [Session -> UserRecord]
      BY <1>1, <1>2, <2>1 DEF TypeOK, UserRecord
    <3> QED
      BY <1>1, <1>2, <1>3, <1>4, <2>1, <2>3, <3>2, <3>3 DEF TypeOK
  <2>5. AttemptBound'
    BY <1>1, <2>1, <2>2 DEF LoginInv, TypeOK, AttemptBound, StateAfterFailure
  <2>6. GrantedIdentity'
    BY <1>1, <2>1 DEF LoginInv, TypeOK, GrantedIdentity, UserRecord
  <2> QED
    BY <2>4, <2>5, <2>6 DEF LoginInv
<1> QED
  BY <1>5, <1>6

-----------------------------------------------------------------------------
\* Every other handler leaves the login state alone or ends the session; what is
\* left to show of it is its types.
LEMMA HandlerLogin ==
  ASSUME LoginInv, NEW s \in Session, NEW line \in Line, Handle(s, line)
  PROVE  LoginInv'
<1>1. TypeOK
  BY DEF LoginInv
<1>2. CASE command_user(s, line)
  BY <1>2, UserLogin
<1>3. CASE command_pass(s, line)
  BY <1>3, PassLogin
<1>4. CASE command_reply(s, line) \/ command_throws(s, line)
  <2>1. Receive(s, line) /\ UNCHANGED <<pc, authVars, tlsVars>>
    BY <1>4 DEF command_reply, command_throws
  <2>2. peer' \in [Session -> PeerState] /\ process' \in {"running", "aborted"}
    BY <1>1, <1>4, PushType DEF command_reply, command_throws, TypeOK
  <2>3. inbox' \in [Session -> Seq(Line)]
    BY <1>1, <2>1, ReceiveType
  <2>4. TypeOK'
    BY <1>1, <2>1, <2>2, <2>3 DEF TypeOK, authVars, tlsVars
  <2> QED
    BY <2>1, <2>4 DEF LoginInv, AttemptBound, GrantedIdentity, authVars
<1>5. CASE command_port(s, line) \/ command_data(s, line)
  <2>1. PICK label \in {"pull", "connect", "transfer"} : pc' = [pc EXCEPT ![s] = label]
    BY <1>1, <1>5 DEF command_port, command_data, Goto, Receive, At, TypeOK
  <2>2. Receive(s, line) /\ UNCHANGED <<authVars, tlsVars>>
    BY <1>5 DEF command_port, command_data
  <2>3. peer' \in [Session -> PeerState] /\ process' \in {"running", "aborted"}
    BY <1>1, <1>5, PushType DEF command_port, command_data, TypeOK
  <2>4. inbox' \in [Session -> Seq(Line)] /\ pc' \in [Session -> ThreadState]
    BY <1>1, <2>1, <2>2, ReceiveType DEF TypeOK, ThreadState
  <2>5. TypeOK'
    BY <1>1, <2>2, <2>3, <2>4 DEF TypeOK, authVars, tlsVars
  <2> QED
    BY <2>2, <2>5 DEF LoginInv, AttemptBound, GrantedIdentity, authVars
<1>6. CASE command_quit(s, line)
  <2>1. /\ Receive(s, line)
        /\ state' = [state EXCEPT ![s] = "TERMINATED"]
        /\ UNCHANGED <<process, pc, user, authAttempt, granted, tlsVars, peer>>
    BY <1>6 DEF command_quit
  <2>2. inbox' \in [Session -> Seq(Line)]
    BY <1>1, <2>1, ReceiveType
  <2>3. TypeOK'
    BY <1>1, <2>1, <2>2 DEF TypeOK, SessionState, tlsVars
  <2>4. AttemptBound' /\ GrantedIdentity'
    BY <1>1, <2>1 DEF LoginInv, TypeOK, AttemptBound, GrantedIdentity
  <2> QED
    BY <2>3, <2>4 DEF LoginInv
<1>7. CASE command_auth(s, line)
  <2>1. Receive(s, line) /\ Push(s, 1) /\ UNCHANGED <<authVars, secure>>
    BY <1>7 DEF command_auth
  <2>2. \/ UNCHANGED <<pc, tls>>
        \/ tls' = [tls EXCEPT ![s] = "bound"] /\ pc' = [pc EXCEPT ![s] = "handshake"]
    BY <1>7 DEF command_auth, Goto
  <2>3. peer' \in [Session -> PeerState] /\ process' \in {"running", "aborted"}
    BY <1>1, <2>1, PushType
  <2>4. inbox' \in [Session -> Seq(Line)]
    BY <1>1, <2>1, ReceiveType
  <2>5. TypeOK'
    BY <1>1, <2>1, <2>2, <2>3, <2>4 DEF TypeOK, authVars, ThreadState
  <2> QED
    BY <2>1, <2>5 DEF LoginInv, AttemptBound, GrantedIdentity, authVars
<1> QED
  BY <1>2, <1>3, <1>4, <1>5, <1>6, <1>7 DEF Handle

\* The end of a thread closes the session for good, whatever its attempts.
LEMMA CloseLogin ==
  ASSUME LoginInv, NEW s \in Session, CloseControl(s)
  PROVE  LoginInv'
<1>1. TypeOK
  BY DEF LoginInv
<1>2. PICK n \in 0 .. 2 : Push(s, n)
  BY DEF CloseControl
<1>3. peer' \in [Session -> PeerState] /\ process' \in {"running", "aborted"}
  BY <1>1, <1>2, PushType
<1>4. /\ tls' = [tls EXCEPT ![s] = IF secure[s] THEN "none" ELSE @]
      /\ state' = [state EXCEPT ![s] = "TERMINATED"]
      /\ pc' = [pc EXCEPT ![s] = "done"]
      /\ UNCHANGED <<user, authAttempt, granted, secure, inbox>>
  BY DEF CloseControl, Goto
<1>5. TypeOK'
  BY <1>1, <1>3, <1>4 DEF TypeOK, SessionState, ThreadState
<1>6. AttemptBound' /\ GrantedIdentity'
  BY <1>1, <1>4 DEF LoginInv, TypeOK, AttemptBound, GrantedIdentity
<1> QED
  BY <1>5, <1>6 DEF LoginInv

\* The ends of what PORT, PASV, LIST and STOR do with the data connection.
DataStep(s) == PortConnected(s) \/ TransferDone(s) \/ TransferBreaks(s)

\* The steps of the client, the greeting, the handshake and the data connection.
LEMMA OtherLogin ==
  ASSUME LoginInv, NEW s \in Session,
         ClientSend(s) \/ ClientLeave(s) \/ Greet(s) \/ HandshakeOk(s) \/ HandshakeFail(s)
           \/ DataStep(s)
  PROVE  LoginInv'
<1>1. TypeOK
  BY DEF LoginInv
<1>2. UNCHANGED authVars
  BY DEF ClientSend, ClientLeave, Greet, HandshakeOk, HandshakeFail, DataStep, PortConnected,
         TransferDone, TransferBreaks
<1>3. TypeOK'
  <2>1. CASE ClientSend(s)
    <3>1. PICK line \in Line : inbox' = [inbox EXCEPT ![s] = Append(@, line)]
      BY <2>1 DEF ClientSend
    <3>2. inbox' \in [Session -> Seq(Line)]
      BY <1>1, <3>1, AppendProperties DEF TypeOK
    <3> QED
      BY <1>1, <2>1, <3>2 DEF ClientSend, TypeOK, authVars, tlsVars
  <2>2. CASE ClientLeave(s)
    BY <1>1, <2>2 DEF ClientLeave, TypeOK, authVars, tlsVars, PeerState
  <2>3. CASE Greet(s) \/ PortConnected(s) \/ TransferDone(s)
    <3>1. PICK n \in 0 .. 2 : Push(s, n)
      BY <2>3 DEF Greet, PortConnected, TransferDone
    <3>2. peer' \in [Session -> PeerState] /\ process' \in {"running", "aborted"}
      BY <1>1, <3>1, PushType
    <3>3. pc' = [pc EXCEPT ![s] = "pull"] /\ UNCHANGED <<authVars, tlsVars, inbox>>
      BY <2>3 DEF Greet, PortConnected, TransferDone, Goto
    <3> QED
      BY <1>1, <3>2, <3>3 DEF TypeOK, authVars, tlsVars, ThreadState
  <2>4. CASE HandshakeOk(s)
    BY <1>1, <2>4 DEF HandshakeOk, SecureAfter, Goto, TypeOK, authVars, envVars, ThreadState
  <2>5. CASE HandshakeFail(s)
    <3>1. PICK n \in 0 .. 2 : Push(s, n)
      BY <2>5 DEF HandshakeFail
    <3>2. peer' \in [Session -> PeerState] /\ process' \in {"running", "aborted"}
      BY <1>1, <3>1, PushType
    <3>3. inbox' \in [Session -> Seq(Line)]
      BY <1>1, <2>5, DropType DEF HandshakeFail
    <3>4. /\ pc' = [pc EXCEPT ![s] = "pull"]
          /\ tls' = [tls EXCEPT ![s] = "none"]
          /\ secure' = [secure EXCEPT ![s] = FALSE]
      BY <2>5 DEF HandshakeFail, SecureAfter, Goto
    <3> QED
      BY <1>1, <1>2, <3>2, <3>3, <3>4 DEF TypeOK, authVars, ThreadState
  <2>6. CASE TransferBreaks(s)
    BY <1>1, <2>6 DEF TransferBreaks, TypeOK, authVars, tlsVars, envVars
  <2> QED
    BY <2>1, <2>2, <2>3, <2>4, <2>5, <2>6 DEF DataStep
<1> QED
  BY <1>2, <1>3 DEF LoginInv, AttemptBound, GrantedIdentity, authVars

\* Every step keeps the login invariant.
LEMMA StepLogin == LoginInv /\ [Next]_vars => LoginInv'
<1> SUFFICES ASSUME LoginInv, [Next]_vars PROVE LoginInv'
  OBVIOUS
<1>1. ASSUME NEW s \in Session, Thread(s) PROVE LoginInv'
  <2>1. CASE Greet(s)
    BY <2>1, OtherLogin
  <2>2. ASSUME NEW line \in Line, Handle(s, line) PROVE LoginInv'
    BY <2>2, HandlerLogin
  <2>3. CASE EndOfInput(s) \/ LeaveLoop(s)
    BY <2>3, CloseLogin DEF EndOfInput, LeaveLoop
  <2> QED
    BY <1>1, <2>1, <2>2, <2>3 DEF Thread
<1>2. CASE UNCHANGED vars
  BY <1>2 DEF vars, authVars, tlsVars, envVars, LoginInv, TypeOK, AttemptBound, GrantedIdentity
<1> QED
  BY <1>1, <1>2, OtherLogin DEF Next, DataStep

-----------------------------------------------------------------------------
\* Every variable of a session keeps its type; in particular no session ever counts
\* more than MAX_AUTH_ATTEMPTS + 1 failed PASS commands.
THEOREM TypeCorrect == Spec => []TypeOK
BY InitLogin, StepLogin, PTL DEF Spec, LoginInv

\* A session that used up its attempts is over, whatever it does in between.
THEOREM AttemptsBounded == Spec => []AttemptBound
BY InitLogin, StepLogin, PTL DEF Spec, LoginInv

\* No mix of granted and failed logins separates the home folder of a session from
\* the login it was last granted.
THEOREM IdentityPreserved == Spec => []GrantedIdentity
BY InitLogin, StepLogin, PTL DEF Spec, LoginInv

-----------------------------------------------------------------------------
\* What the handlers that are no login commands do to a session and its channel.
LEMMA StepSecure ==
  ASSUME TypeOK, SecureInv, [Next]_vars
  PROVE  SecureInv'
<1> DEFINE Use == {"greet", "pull", "connect", "transfer"}
<1> SUFFICES ASSUME NEW t \in Session, pc'[t] \in Use, secure'[t]
             PROVE  tls'[t] = "established"
  BY DEF SecureInv
<1>1. pc \in [Session -> ThreadState] /\ secure \in [Session -> BOOLEAN]
      /\ tls \in [Session -> {"none", "bound", "established"}]
  BY DEF TypeOK
<1>2. SUFFICES ASSUME NEW s \in Session,
                      ClientSend(s) \/ ClientLeave(s) \/ Thread(s) \/ HandshakeOk(s)
                        \/ HandshakeFail(s) \/ DataStep(s)
               PROVE  tls'[t] = "established"
  BY DEF Next, DataStep, vars, tlsVars, SecureInv
<1>3. CASE UNCHANGED tlsVars /\ (pc'[t] = pc[t] \/ pc[t] \in Use)
  BY <1>3 DEF tlsVars, SecureInv
<1>4. CASE ClientSend(s) \/ ClientLeave(s)
  BY <1>3, <1>4 DEF ClientSend, ClientLeave
<1>5. CASE Greet(s) \/ DataStep(s)
  BY <1>1, <1>3, <1>5 DEF Greet, DataStep, PortConnected, TransferDone, TransferBreaks, At, Goto
<1>6. CASE HandshakeOk(s)
  BY <1>1, <1>6 DEF HandshakeOk, Goto, SecureAfter, SecureInv
<1>7. CASE HandshakeFail(s)
  BY <1>1, <1>7 DEF HandshakeFail, Goto, SecureAfter, SecureInv
<1>8. CASE EndOfInput(s) \/ LeaveLoop(s)
  BY <1>1, <1>8 DEF EndOfInput, LeaveLoop, CloseControl, Goto, SecureInv
<1>9. ASSUME NEW line \in Line, Handle(s, line) PROVE tls'[t] = "established"
  <2>1. CASE command_user(s, line) \/ command_pass(s, line) \/ command_quit(s, line)
    BY <1>3, <2>1 DEF command_user, command_pass, command_quit
  <2>2. CASE command_reply(s, line) \/ command_throws(s, line)
    BY <1>3, <2>2 DEF command_reply, command_throws
  <2>3. CASE command_port(s, line) \/ command_data(s, line)
    BY <1>1, <1>3, <2>3 DEF command_port, command_data, Receive, At, Goto
  <2>4. CASE command_auth(s, line)
    BY <1>1, <2>4 DEF command_auth, Goto, SecureInv
  <2> QED
    BY <1>9, <2>1, <2>2, <2>3, <2>4 DEF Handle
<1> QED
  BY <1>2, <1>4, <1>5, <1>6, <1>7, <1>8, <1>9 DEF Thread

\* What a step does to any session: it is still open, or it ended in the loop, or it
\* had ended before and is left as it was.
LEMMA StepPhase ==
  ASSUME TypeOK, PhaseInv, [Next]_vars, NEW t \in Session
  PROVE  /\ state'[t] = "TERMINATED" => pc'[t] \in {"pull", "done"}
         /\ state[t] = "TERMINATED" =>
              /\ state'[t] = "TERMINATED"
              /\ UNCHANGED <<user[t], authAttempt[t], granted[t], secure[t]>>
              /\ pc'[t] # pc[t] => pc'[t] = "done"
<1> DEFINE Final == /\ state'[t] = "TERMINATED" => pc'[t] \in {"pull", "done"}
                    /\ state[t] = "TERMINATED" =>
                         /\ state'[t] = "TERMINATED"
                         /\ UNCHANGED <<user[t], authAttempt[t], granted[t], secure[t]>>
                         /\ pc'[t] # pc[t] => pc'[t] = "done"
<1>1. /\ pc \in [Session -> ThreadState] /\ state \in [Session -> SessionState]
      /\ user \in [Session -> UserRecord] /\ granted \in [Session -> DOMAIN Users \union {Empty}]
      /\ authAttempt \in [Session -> 0 .. MaxAuthAttempts + 1]
      /\ secure \in [Session -> BOOLEAN]
  BY DEF TypeOK
<1>2. SUFFICES ASSUME NEW s \in Session,
                      ClientSend(s) \/ ClientLeave(s) \/ Thread(s) \/ HandshakeOk(s)
                        \/ HandshakeFail(s) \/ DataStep(s)
               PROVE  Final
  BY DEF Next, DataStep, vars, authVars, tlsVars, PhaseInv
<1>3. CASE ClientSend(s) \/ ClientLeave(s)
  BY <1>3 DEF ClientSend, ClientLeave, authVars, tlsVars, PhaseInv
<1>4. CASE Greet(s) \/ DataStep(s)
  BY <1>1, <1>4 DEF Greet, DataStep, PortConnected, TransferDone, TransferBreaks, At, Goto,
                    authVars, tlsVars, PhaseInv
<1>5. CASE HandshakeOk(s) \/ HandshakeFail(s)
  BY <1>1, <1>5 DEF HandshakeOk, HandshakeFail, At, Goto, authVars, PhaseInv
<1>6. CASE EndOfInput(s) \/ LeaveLoop(s)
  BY <1>1, <1>6 DEF EndOfInput, LeaveLoop, CloseControl, Goto, PhaseInv
<1>7. ASSUME NEW line \in Line, Handle(s, line) PROVE Final
  <2>1. pc[s] = "pull" /\ state[s] # "TERMINATED"
    BY <1>7 DEF Handle, command_user, command_pass, command_reply, command_throws,
                command_port, command_data, command_quit, command_auth, Receive, At
  <2>2. CASE command_user(s, line)
    BY <1>1, <2>1, <2>2 DEF command_user, tlsVars, PhaseInv
  <2>3. CASE command_pass(s, line)
    <3>1. UNCHANGED <<pc, secure>> /\ \A r \in Session \ {s} :
            UNCHANGED <<state[r], user[r], authAttempt[r], granted[r]>>
      BY <1>1, <2>3 DEF command_pass, tlsVars
    <3> QED
      BY <1>1, <2>1, <3>1 DEF PhaseInv
  <2>4. CASE command_reply(s, line) \/ command_throws(s, line)
    BY <2>1, <2>4 DEF command_reply, command_throws, authVars, tlsVars, PhaseInv
  <2>5. CASE command_port(s, line) \/ command_data(s, line)
    BY <1>1, <2>1, <2>5 DEF command_port, command_data, Goto, authVars, tlsVars, PhaseInv
  <2>6. CASE command_quit(s, line)
    BY <1>1, <2>1, <2>6 DEF command_quit, tlsVars, PhaseInv
  <2>7. CASE command_auth(s, line)
    BY <1>1, <2>1, <2>7 DEF command_auth, Goto, authVars, PhaseInv
  <2> QED
    BY <1>7, <2>2, <2>3, <2>4, <2>5, <2>6, <2>7 DEF Handle
<1> QED
  BY <1>2, <1>3, <1>4, <1>5, <1>6, <1>7 DEF Thread

SessionInv == LoginInv /\ SecureInv /\ PhaseInv

\* The strengthened invariant holds throughout.
LEMMA InvariantHolds == Spec => []SessionInv
<1>1. Init => SecureInv /\ PhaseInv
  BY DEF Init, SecureInv, PhaseInv
<1>2. SessionInv /\ [Next]_vars => SessionInv'
  BY StepLogin, StepSecure, StepPhase DEF SessionInv, LoginInv, PhaseInv
<1> QED
  BY <1>1, <1>2, InitLogin, PTL DEF Spec, SessionInv

\* No sequence of AUTH commands, refused certificates and failed handshakes leaves a
\* channel in use marked secure without a TLS session under it.
THEOREM SecurityIsReal == Spec => []SecureOverSession
<1>1. SessionInv => SecureOverSession
  BY DEF SessionInv, SecureInv, SecureOverSession
<1> QED
  BY <1>1, InvariantHolds, PTL

\* A session that ended stays as it was and only closes its channel.
THEOREM TerminationIsFinal == Spec => TerminatedIsFinal
<1>1. SessionInv /\ [Next]_vars =>
        [\A s \in Session :
           state[s] = "TERMINATED" =>
             /\ state'[s] = "TERMINATED"
             /\ UNCHANGED <<user[s], authAttempt[s], granted[s], secure[s]>>
             /\ pc'[s] # pc[s] => pc'[s] = "done"]_vars
  BY StepPhase DEF SessionInv, LoginInv
<1> QED
  BY <1>1, InvariantHolds, PTL DEF Spec, TerminatedIsFinal

-----------------------------------------------------------------------------
\* What the mapping makes of a handler's line: the thread is at its loop, so the session
\* is neither over nor in a handshake, and the line is the first of the queue.
LEMMA ReceiveRefines ==
  ASSUME NEW s \in Session, NEW line \in Line, Receive(s, line)
  PROVE  Login!Take(s, line.verb) /\ line = Head(inbox[s])
<1>1. s \notin {r \in Session : state[r] = "TERMINATED"} \union {r \in Session : pc[r] = "handshake"}
  BY DEF Receive, At
<1> QED
  BY <1>1 DEF Receive, Login!Take, Login!Drop

\* What the mapped variables depend on.
LEMMA MappingFrame ==
  /\ UNCHANGED user => UNCHANGED [s \in Session |-> user[s].login]
  /\ UNCHANGED pc => UNCHANGED {s \in Session : pc[s] = "handshake"}
  /\ UNCHANGED state => UNCHANGED {s \in Session : state[s] = "TERMINATED"}
OBVIOUS

\* USER names a login and touches nothing else of the protocol.
LEMMA UserRefines ==
  ASSUME TypeOK, NEW s \in Session, NEW line \in Line, command_user(s, line)
  PROVE  Login!Name(s)
<1>1. Login!Take(s, "USER") /\ line = Head(inbox[s]) /\ state[s] # "TERMINATED"
  BY ReceiveRefines DEF command_user, Receive
<1>2. /\ user' = [user EXCEPT ![s] = [@ EXCEPT !.login = line.arg]]
      /\ state' = [state EXCEPT ![s] = "WAIT_PASSWORD"]
      /\ UNCHANGED <<pc, granted, authAttempt>>
  BY DEF command_user, LoginEntered
<1>3. user \in [Session -> UserRecord] /\ state \in [Session -> SessionState]
  BY DEF TypeOK
<1>4. [r \in Session |-> user[r].login]' = [[r \in Session |-> user[r].login] EXCEPT ![s] = line.arg]
  BY <1>2, <1>3 DEF UserRecord
<1>5. UNCHANGED {r \in Session : state[r] = "TERMINATED"}
  BY <1>1, <1>2, <1>3
<1> QED
  BY <1>1, <1>2, <1>4, <1>5, MappingFrame DEF Login!Name

\* PASS is a Grant or a Fail of the protocol as the database has it; a session that is still
\* open has counted no more than MAX_AUTH_ATTEMPTS failures, so passing the limit is
\* reaching it.
LEMMA PassRefines ==
  ASSUME TypeOK, AttemptBound, NEW s \in Session, NEW line \in Line, command_pass(s, line)
  PROVE  Login!LNext
<1> DEFINE ended == {r \in Session : state[r] = "TERMINATED"}
           login == [r \in Session |-> user[r].login]
<1>1. s \notin ended /\ state \in [Session -> SessionState] /\ authAttempt[s] \in 0 .. MaxAuthAttempts
  BY SessionAssumption DEF TypeOK, AttemptBound, command_pass, Receive
<1>2. Login!Take(s, "PASS") /\ line = Head(inbox[s]) /\ UNCHANGED pc
  BY ReceiveRefines DEF command_pass
<1>3. user \in [Session -> UserRecord] /\ login[s] = user[s].login
  BY DEF TypeOK
<1>4. CASE Found(user[s].login, line.arg)
  <2>1. Login!Correct(s)
    BY <1>2, <1>3, <1>4 DEF Found, Login!Correct
  <2>2. /\ granted' = [granted EXCEPT ![s] = login[s]] /\ UNCHANGED <<state, authAttempt>>
        /\ user' = [user EXCEPT ![s] = [login |-> user[s].login, password |-> line.arg,
                                        folder |-> Users[user[s].login].folder]]
    BY <1>3, <1>4 DEF command_pass
  <2>3. login' = login
    BY <1>3, <2>2 DEF UserRecord
  <2>4. Login!Grant(s)
    BY <1>2, <2>1, <2>2, <2>3, MappingFrame DEF Login!Grant
  <2> QED
    BY <2>4 DEF Login!LNext
<1>5. CASE ~ Found(user[s].login, line.arg)
  <2>1. ~ Login!Correct(s)
    BY <1>2, <1>3, <1>5 DEF Found, Login!Correct
  <2>2. /\ authAttempt' = [authAttempt EXCEPT ![s] = @ + 1]
        /\ state' = [state EXCEPT ![s] = StateAfterFailure(authAttempt[s] + 1)]
        /\ user' = [user EXCEPT ![s].password = line.arg]
        /\ UNCHANGED granted
    BY <1>5 DEF command_pass
  <2>3. ended' = IF authAttempt[s] = MaxAuthAttempts THEN ended \union {s} ELSE ended
    BY <1>1, <2>2, SessionAssumption DEF StateAfterFailure
  <2>4. login' = login
    BY <1>3, <2>2 DEF UserRecord
  <2>5. Login!Fail(s)
    BY <1>2, <2>1, <2>2, <2>3, <2>4, MappingFrame DEF Login!Fail
  <2> QED
    BY <2>5 DEF Login!LNext
<1> QED
  BY <1>4, <1>5

\* The other handlers: QUIT ends the session, AUTH may open a handshake, and what the rest
\* do is nothing to the protocol.
LEMMA HandlerRefines ==
  ASSUME TypeOK, AttemptBound, NEW s \in Session, NEW line \in Line, Handle(s, line)
  PROVE  Login!LNext
<1> DEFINE ended == {r \in Session : state[r] = "TERMINATED"}
           upgrading == {r \in Session : pc[r] = "handshake"}
<1>1. state \in [Session -> SessionState] /\ pc \in [Session -> ThreadState]
  BY DEF TypeOK
<1>2. CASE command_user(s, line)
  BY <1>2, UserRefines DEF Login!LNext
<1>3. CASE command_pass(s, line)
  BY <1>3, PassRefines
<1>4. CASE command_quit(s, line)
  <2>1. Login!Take(s, "QUIT") /\ UNCHANGED <<pc, user, authAttempt, granted>>
    BY <1>4, ReceiveRefines DEF command_quit
  <2>2. ended' = ended \union {s}
    BY <1>1, <1>4 DEF command_quit
  <2>3. Login!Quit(s)
    BY <2>1, <2>2, MappingFrame DEF Login!Quit
  <2> QED
    BY <2>3 DEF Login!LNext
<1>5. CASE command_auth(s, line)
  <2>1. Login!Take(s, "AUTH") /\ UNCHANGED authVars
    BY <1>5, ReceiveRefines DEF command_auth
  <2>2. UNCHANGED <<state, user, authAttempt, granted>>
    BY <2>1 DEF authVars
  <2>3. upgrading' \in {upgrading, upgrading \union {s}}
    BY <1>1, <1>5 DEF command_auth, Goto
  <2>4. Login!Auth(s)
    BY <2>1, <2>2, <2>3, MappingFrame DEF Login!Auth
  <2> QED
    BY <2>4 DEF Login!LNext
<1>6. CASE command_throws(s, line) \/ command_reply(s, line) \/ command_port(s, line)
             \/ command_data(s, line)
  <2>1. Receive(s, line) /\ line.verb \notin {"USER", "PASS", "QUIT", "AUTH"}
    BY <1>6 DEF command_throws, command_reply, command_port, command_data, Throws, ReplyVerb,
                NumericVerb, FileVerb, DataVerb
  <2>2. Login!Take(s, line.verb)
    BY <2>1, ReceiveRefines
  <2>3. UNCHANGED <<state, user, authAttempt, granted>>
    BY <1>6 DEF command_throws, command_reply, command_port, command_data, authVars
  <2>4. pc[s] = "pull" /\ (UNCHANGED pc \/ \E label \in {"connect", "transfer"} : Goto(s, label))
    BY <1>6, <2>1 DEF command_throws, command_reply, command_port, command_data, Receive, At
  <2>5. UNCHANGED upgrading
    BY <1>1, <2>4 DEF Goto
  <2>6. Login!Other(s)
    BY <2>1, <2>2, <2>3, <2>5, MappingFrame DEF Login!Other
  <2> QED
    BY <2>6 DEF Login!LNext
<1> QED
  BY <1>2, <1>3, <1>4, <1>5, <1>6 DEF Handle

\* The end of the input breaks an open session off; the exit of the loop finds it ended.
LEMMA CloseRefines ==
  ASSUME TypeOK, NEW s \in Session, EndOfInput(s) \/ LeaveLoop(s)
  PROVE  [Login!LNext]_(Login!lvars)
<1> DEFINE ended == {r \in Session : state[r] = "TERMINATED"}
           upgrading == {r \in Session : pc[r] = "handshake"}
<1>1. /\ pc[s] = "pull" /\ pc' = [pc EXCEPT ![s] = "done"]
      /\ state' = [state EXCEPT ![s] = "TERMINATED"]
      /\ UNCHANGED <<user, authAttempt, granted, inbox>>
  BY DEF EndOfInput, LeaveLoop, CloseControl, Goto, At
<1>2. state \in [Session -> SessionState] /\ pc \in [Session -> ThreadState]
  BY DEF TypeOK
<1>3. ended' = ended \union {s} /\ upgrading' = upgrading
  BY <1>1, <1>2
<1>4. CASE s \in ended
  <2>1. ended' = ended
    BY <1>3, <1>4
  <2> QED
    BY <1>1, <1>3, <2>1, MappingFrame DEF Login!lvars
<1>5. CASE s \notin ended
  <2>1. Login!Break(s)
    BY <1>1, <1>3, <1>5, MappingFrame DEF Login!Break
  <2> QED
    BY <2>1 DEF Login!LNext
<1> QED
  BY <1>4, <1>5

\* A handshake that ends, well or not, ends the negotiation of the protocol.
LEMMA HandshakeRefines ==
  ASSUME TypeOK, NEW s \in Session, HandshakeOk(s) \/ HandshakeFail(s)
  PROVE  Login!LNext
<1> DEFINE upgrading == {r \in Session : pc[r] = "handshake"}
<1>1. /\ pc[s] = "handshake" /\ pc' = [pc EXCEPT ![s] = "pull"]
      /\ UNCHANGED <<state, user, authAttempt, granted>>
  BY DEF HandshakeOk, HandshakeFail, At, Goto, authVars
<1>2. pc \in [Session -> ThreadState] /\ inbox \in [Session -> Seq(Line)]
  BY DEF TypeOK
<1>3. upgrading' = upgrading \ {s} /\ s \in upgrading
  BY <1>1, <1>2
<1>4. \E n \in 0 .. Len(inbox[s]) : inbox' = [inbox EXCEPT ![s] = SubSeq(@, n + 1, Len(@))]
  <2>1. CASE HandshakeFail(s)
    BY <2>1 DEF HandshakeFail
  <2>2. CASE HandshakeOk(s)
    <3>1. inbox[s] = <<>> /\ inbox' = inbox
      BY <2>2 DEF HandshakeOk, envVars
    <3>2. SubSeq(inbox[s], 0 + 1, Len(inbox[s])) = <<>> /\ 0 \in 0 .. Len(inbox[s])
      BY <3>1, EmptySeq, SubSeqEmpty
    <3> QED
      BY <1>2, <3>1, <3>2
  <2> QED
    BY <2>1, <2>2
<1>5. Login!Upgraded(s)
  BY <1>1, <1>3, <1>4, MappingFrame DEF Login!Upgraded, Login!Drop
<1> QED
  BY <1>5 DEF Login!LNext

\* Every step of a session is a step of the login protocol or a stutter.
LEMMA StepRefines ==
  ASSUME TypeOK, AttemptBound, [Next]_vars
  PROVE  [Login!LNext]_(Login!lvars)
<1> DEFINE upgrading == {r \in Session : pc[r] = "handshake"}
<1>1. CASE UNCHANGED vars
  BY <1>1, MappingFrame DEF vars, authVars, envVars, Login!lvars
<1>2. SUFFICES ASSUME NEW s \in Session,
                      ClientSend(s) \/ ClientLeave(s) \/ Thread(s) \/ HandshakeOk(s)
                        \/ HandshakeFail(s) \/ DataStep(s)
               PROVE  [Login!LNext]_(Login!lvars)
  BY <1>1 DEF Next, DataStep
<1>3. CASE ClientSend(s)
  <2>1. Login!Submit(s)
    BY <1>3, MappingFrame DEF ClientSend, authVars, Login!Submit
  <2> QED
    BY <2>1 DEF Login!LNext
<1>4. CASE ClientLeave(s) \/ Greet(s) \/ DataStep(s)
  <2>1. UNCHANGED <<state, user, authAttempt, granted, inbox>>
    BY <1>4 DEF ClientLeave, Greet, DataStep, PortConnected, TransferDone, TransferBreaks, authVars,
                envVars
  <2>2. UNCHANGED upgrading
    BY <1>4 DEF ClientLeave, Greet, DataStep, PortConnected, TransferDone, TransferBreaks, TypeOK,
                At, Goto
  <2> QED
    BY <2>1, <2>2, MappingFrame DEF Login!lvars
<1>5. CASE HandshakeOk(s) \/ HandshakeFail(s)
  BY <1>5, HandshakeRefines
<1>6. CASE EndOfInput(s) \/ LeaveLoop(s)
  BY <1>6, CloseRefines
<1>7. ASSUME NEW line \in Line, Handle(s, line) PROVE Login!LNext
  BY <1>7, HandlerRefines
<1> QED
  BY <1>2, <1>3, <1>4, <1>5, <1>6, <1>7 DEF Thread

\* The control connection's thread implements the login protocol, for every user
\* database and every number of sessions.
THEOREM LoginImplemented == Spec => ImplementsLogin
<1>1. Init => Login!LInit
  BY DEF Init, Login!LInit
<1>2. SessionInv /\ [Next]_vars => [Login!LNext]_(Login!lvars)
  BY StepRefines DEF SessionInv, LoginInv
<1> QED
  BY <1>1, <1>2, InvariantHolds, PTL DEF Spec, ImplementsLogin, Login!LSpec

-----------------------------------------------------------------------------
\* The cause of an abort, for one step.
Cause ==
  \E s \in Session :
    \/ peer[s] # "up" /\ peer'[s] = "sigpipe"
    \/ pc[s] = "pull" /\ inbox[s] # <<>> /\ Throws(Head(inbox[s]))
    \/ pc[s] = "transfer" /\ UNCHANGED <<pc, envVars>>

\* A reply changes the process only by the signal, and only when the client is gone.
LEMMA PushCause ==
  ASSUME TypeOK, NEW s \in Session, NEW n, Push(s, n), process' # process
  PROVE  Cause
<1>1. PICK p \in AfterPush(peer[s], secure[s], n) :
        /\ peer' = [peer EXCEPT ![s] = p]
        /\ process' = IF p = "sigpipe" THEN "aborted" ELSE process
  BY DEF Push
<1>2. p = "sigpipe" /\ peer[s] # "up"
  BY <1>1 DEF AfterPush
<1>3. peer'[s] = "sigpipe"
  BY <1>1, <1>2 DEF TypeOK
<1> QED
  BY <1>2, <1>3 DEF Cause

\* Of the handlers, those that throw can end the process without a signal.
LEMMA HandlerCause ==
  ASSUME TypeOK, NEW s \in Session, NEW line \in Line, Handle(s, line), process' # process
  PROVE  Cause
<1>1. CASE \E n \in 0 .. 2 : Push(s, n)
  BY <1>1, PushCause
<1>2. CASE ~ \E n \in 0 .. 2 : Push(s, n)
  <2>1. Throws(line) /\ Receive(s, line)
    BY <1>2 DEF Handle, command_user, command_pass, command_throws, command_reply, command_port,
                command_data, command_quit, command_auth
  <2> QED
    BY <2>1 DEF Receive, At, Cause
<1> QED
  BY <1>1, <1>2

\* The process ends only by a send to a client that left, by a line whose handler throws, or
\* by a data connection that breaks in a transfer, whatever else any number of sessions do.
THEOREM AbortsHaveCause == Spec => AbortHasCause
<1>1. ASSUME TypeOK, [Next]_vars, process' # process
      PROVE  Cause
  <2>1. PICK s \in Session :
          ClientSend(s) \/ ClientLeave(s) \/ Thread(s) \/ HandshakeOk(s)
            \/ HandshakeFail(s) \/ DataStep(s)
    BY <1>1 DEF Next, DataStep, vars
  <2>2. CASE ClientSend(s) \/ ClientLeave(s) \/ HandshakeOk(s)
    BY <1>1, <2>2 DEF ClientSend, ClientLeave, HandshakeOk
  <2>3. CASE Greet(s) \/ HandshakeFail(s) \/ PortConnected(s) \/ TransferDone(s)
    BY <1>1, <2>3, PushCause DEF Greet, HandshakeFail, PortConnected, TransferDone
  <2>4. CASE TransferBreaks(s)
    BY <2>4 DEF TransferBreaks, At, Cause
  <2>5. CASE EndOfInput(s) \/ LeaveLoop(s)
    BY <1>1, <2>5, PushCause DEF EndOfInput, LeaveLoop, CloseControl
  <2>6. CASE \E line \in Line : Handle(s, line)
    BY <1>1, <2>6, HandlerCause
  <2> QED
    BY <2>1, <2>2, <2>3, <2>4, <2>5, <2>6 DEF Thread, DataStep
<1>2. TypeOK /\ [Next]_vars => [process' # process => Cause]_vars
  BY <1>1
<1> QED
  BY <1>2, TypeCorrect, PTL DEF Spec, AbortHasCause, Cause

-----------------------------------------------------------------------------
(* The end of a session. *)

\* A session whose client is gone and whose thread has not ended, and what it still has
\* to do: two steps at most for each line that is in flight.
Leaving(s) == process = "running" /\ peer[s] # "up" /\ pc[s] \in {"greet", "pull", "handshake"}
Ending(s)  == process = "running" /\ state[s] = "TERMINATED" /\ pc[s] = "pull"
Over(s)    == pc[s] \in {"done", "connect", "transfer"} \/ process = "aborted"

Work(s) == 2 * Len(inbox[s]) + (IF pc[s] = "pull" THEN 0 ELSE 1)

\* The thread's next step can be taken.  Here the prover does not look into ENABLED.
ThreadCanAct(s) ==
  /\ Ending(s) \/ (Leaving(s) /\ pc[s] # "handshake") => ENABLED <<Thread(s)>>_vars
  /\ Leaving(s) /\ pc[s] = "handshake" => ENABLED <<HandshakeAbandoned(s)>>_vars

\* A reply does not bring a client back.
LEMMA PushStaysGone ==
  ASSUME TypeOK, NEW s \in Session, NEW n \in 0 .. 2, Push(s, n), peer[s] # "up"
  PROVE  peer'[s] # "up" /\ process' \in {process, "aborted"}
<1>1. PICK p \in AfterPush(peer[s], secure[s], n) :
        /\ peer' = [peer EXCEPT ![s] = p]
        /\ process' = IF p = "sigpipe" THEN "aborted" ELSE process
  BY DEF Push
<1>2. p # "up"
  BY <1>1 DEF AfterPush
<1> QED
  BY <1>1, <1>2 DEF TypeOK

\* Lines that are taken leave fewer.
LEMMA DropShortens ==
  ASSUME TypeOK, NEW s \in Session, NEW n \in 0 .. Len(inbox[s]),
         inbox' = [inbox EXCEPT ![s] = SubSeq(@, n + 1, Len(@))]
  PROVE  Len(inbox[s]) \in Nat /\ Len(inbox'[s]) = Len(inbox[s]) - n
<1>1. inbox[s] \in Seq(Line) /\ Len(inbox[s]) \in Nat
  BY LenProperties DEF TypeOK
<1>2. Len(SubSeq(inbox[s], n + 1, Len(inbox[s]))) = Len(inbox[s]) - n
  <2>1. CASE n = Len(inbox[s])
    BY <1>1, <2>1, SubSeqProperties
  <2>2. CASE n < Len(inbox[s])
    BY <1>1, <2>2, SubSeqProperties
  <2> QED
    BY <2>1, <2>2
<1>3. inbox'[s] = SubSeq(inbox[s], n + 1, Len(inbox[s]))
  BY DEF TypeOK
<1> QED
  BY <1>1, <1>2, <1>3

\* A handler takes a line at least, and then pulls, or waits for a handshake or a data connection.
LEMMA HandlerWorks ==
  ASSUME TypeOK, NEW s \in Session, Leaving(s), NEW line \in Line, Handle(s, line)
  PROVE  Over(s)' \/ (Leaving(s)' /\ Work(s)' < Work(s))
<1>1. Receive(s, line)
  BY DEF Handle, command_user, command_pass, command_reply, command_throws, command_port,
         command_data, command_quit, command_auth
<1>2. PICK n \in 1 .. Len(inbox[s]) :
        inbox' = [inbox EXCEPT ![s] = SubSeq(@, n + 1, Len(@))]
  BY <1>1 DEF Receive
<1>3. Len(inbox[s]) \in Nat /\ Len(inbox'[s]) = Len(inbox[s]) - n
  <2>1. n \in 0 .. Len(inbox[s])
    BY <1>2, LenProperties DEF TypeOK
  <2> QED
    BY <1>2, <2>1, DropShortens
<1>4. pc[s] = "pull" /\ pc \in [Session -> ThreadState]
  BY <1>1 DEF Receive, At, TypeOK
<1>5. pc'[s] \in {"pull", "handshake", "connect", "transfer"}
  BY <1>4 DEF Handle, command_user, command_pass, command_reply, command_throws, command_port,
              command_data, command_quit, command_auth, Goto
<1>6. \/ process' = "aborted"
      \/ process' = process /\ peer'[s] # "up"
  <2>1. CASE \E k \in 0 .. 2 : Push(s, k)
    BY <2>1, PushStaysGone DEF Leaving
  <2>2. CASE ~ \E k \in 0 .. 2 : Push(s, k)
    <3>1. command_throws(s, line) \/ command_port(s, line) \/ command_quit(s, line)
      BY <2>2 DEF Handle, command_user, command_pass, command_reply, command_data, command_auth
    <3> QED
      BY <2>2, <3>1 DEF command_throws, command_port, command_quit, Leaving
  <2> QED
    BY <2>1, <2>2
<1>7. Work(s)' < Work(s)
  <2>1. n \in Int /\ n >= 1
    BY <1>3
  <2>2. Len(inbox'[s]) \in Int /\ Len(inbox'[s]) <= Len(inbox[s]) - 1
    BY <1>3, <2>1
  <2>3. Work(s) = 2 * Len(inbox[s]) + 0
    BY <1>4 DEF Work
  <2>4. Work(s)' = 2 * Len(inbox'[s]) + 0 \/ Work(s)' = 2 * Len(inbox'[s]) + 1
    BY DEF Work
  <2>5. 2 * Len(inbox'[s]) + 0 < 2 * Len(inbox[s]) + 0 /\ 2 * Len(inbox'[s]) + 1 < 2 * Len(inbox[s]) + 0
    BY <1>3, <2>2
  <2> QED
    BY <2>3, <2>4, <2>5
<1> QED
  BY <1>5, <1>6, <1>7 DEF Leaving, Over

\* Every step of the thread of a session whose client is gone leaves less to do.
LEMMA ThreadWorks ==
  ASSUME TypeOK, NEW s \in Session, Leaving(s), Thread(s) \/ HandshakeFail(s)
  PROVE  Over(s)' \/ (Leaving(s)' /\ Work(s)' < Work(s))
<1>0. pc \in [Session -> ThreadState] /\ Len(inbox[s]) \in Nat
  BY LenProperties DEF TypeOK
<1>1. CASE Greet(s)
  <2>1. peer'[s] # "up" /\ process' \in {process, "aborted"}
    BY <1>1, PushStaysGone DEF Greet, Leaving
  <2>2. pc[s] = "greet" /\ pc'[s] = "pull" /\ inbox' = inbox
    BY <1>0, <1>1 DEF Greet, At, Goto
  <2> QED
    BY <1>0, <2>1, <2>2 DEF Leaving, Over, Work
<1>2. ASSUME NEW line \in Line, Handle(s, line)
      PROVE  Over(s)' \/ (Leaving(s)' /\ Work(s)' < Work(s))
  BY <1>2, HandlerWorks
<1>3. CASE EndOfInput(s) \/ LeaveLoop(s)
  BY <1>0, <1>3 DEF EndOfInput, LeaveLoop, CloseControl, Goto, Over
<1>4. CASE HandshakeFail(s)
  <2>1. peer'[s] # "up" /\ process' \in {process, "aborted"}
    BY <1>4, PushStaysGone DEF HandshakeFail, Leaving
  <2>2. pc[s] = "handshake" /\ pc'[s] = "pull"
    BY <1>0, <1>4 DEF HandshakeFail, At, Goto
  <2>3. PICK n \in 0 .. Len(inbox[s]) : inbox' = [inbox EXCEPT ![s] = SubSeq(@, n + 1, Len(@))]
    BY <1>4 DEF HandshakeFail
  <2>4. Len(inbox'[s]) = Len(inbox[s]) - n
    BY <2>3, DropShortens
  <2> QED
    BY <1>0, <2>1, <2>2, <2>3, <2>4 DEF Leaving, Over, Work
<1> QED
  BY <1>1, <1>2, <1>3, <1>4 DEF Thread

\* What belongs to one session.
Own(s) == <<pc[s], state[s], user[s], authAttempt[s], granted[s], secure[s], tls[s], peer[s], inbox[s]>>

\* The steps that a session's thread and its client take.
Steps(s) ==
  ClientSend(s) \/ ClientLeave(s) \/ Thread(s) \/ HandshakeOk(s) \/ HandshakeFail(s) \/ DataStep(s)

\* What a step of one session leaves of another: all but the process.
LEMMA StepsLeaveOthers ==
  ASSUME TypeOK, NEW s \in Session, NEW t \in Session, t # s, Steps(t)
  PROVE  UNCHANGED Own(s) /\ process' \in {process, "aborted"}
<1>0. /\ pc \in [Session -> ThreadState] /\ state \in [Session -> SessionState]
      /\ user \in [Session -> UserRecord] /\ authAttempt \in [Session -> 0 .. MaxAuthAttempts + 1]
      /\ granted \in [Session -> DOMAIN Users \union {Empty}]
      /\ secure \in [Session -> BOOLEAN] /\ tls \in [Session -> {"none", "bound", "established"}]
      /\ peer \in [Session -> PeerState] /\ inbox \in [Session -> Seq(Line)]
      /\ process \in {"running", "aborted"}
  BY DEF TypeOK
<1>2. t # s
  OBVIOUS
<1> USE DEF Own
<1>3. ASSUME NEW n, Push(t, n)
      PROVE  UNCHANGED peer[s] /\ process' \in {process, "aborted"}
  BY <1>0, <1>2, <1>3 DEF Push
<1>4. CASE ClientSend(t) \/ ClientLeave(t) \/ HandshakeOk(t)
  BY <1>0, <1>2, <1>4 DEF ClientSend, ClientLeave, HandshakeOk, Goto, authVars, tlsVars, envVars
<1>5. CASE Greet(t) \/ HandshakeFail(t) \/ DataStep(t)
  BY <1>0, <1>2, <1>3, <1>5 DEF Greet, HandshakeFail, DataStep, PortConnected, TransferDone,
     TransferBreaks, Goto, authVars, tlsVars, envVars
<1>6. CASE EndOfInput(t) \/ LeaveLoop(t)
  BY <1>0, <1>2, <1>3, <1>6 DEF EndOfInput, LeaveLoop, CloseControl, Goto
<1>7. ASSUME NEW line \in Line, Handle(t, line)
      PROVE  UNCHANGED Own(s) /\ process' \in {process, "aborted"}
  <2>1. UNCHANGED inbox[s]
    BY <1>0, <1>2, <1>7 DEF Handle, command_user, command_pass, command_reply, command_throws,
       command_port, command_data, command_quit, command_auth, Receive
  <2>2. CASE command_user(t, line)
    BY <1>0, <1>2, <1>3, <2>1, <2>2 DEF command_user, tlsVars
  <2>3. CASE command_pass(t, line)
    <3>1. UNCHANGED <<pc[s], state[s], user[s], authAttempt[s], granted[s], secure[s], tls[s]>>
      BY <1>0, <1>2, <2>3 DEF command_pass, tlsVars
    <3> QED
      BY <1>3, <2>1, <2>3, <3>1 DEF command_pass
  <2>4. CASE command_reply(t, line) \/ command_throws(t, line)
    BY <1>3, <2>1, <2>4 DEF command_reply, command_throws, authVars, tlsVars
  <2>5. CASE command_port(t, line) \/ command_data(t, line) \/ command_auth(t, line)
    BY <1>0, <1>2, <1>3, <2>1, <2>5 DEF command_port, command_data, command_auth, Goto, authVars,
       tlsVars
  <2>6. CASE command_quit(t, line)
    BY <1>0, <1>2, <2>1, <2>6 DEF command_quit, tlsVars
  <2> QED
    BY <1>7, <2>2, <2>3, <2>4, <2>5, <2>6 DEF Handle
<1> QED
  BY <1>4, <1>5, <1>6, <1>7 DEF Steps, Thread

\* A step that is none of a session's own leaves it.
LEMMA OthersLeaveSession ==
  ASSUME TypeOK, [Next]_vars, NEW s \in Session, ~ Steps(s)
  PROVE  UNCHANGED Own(s) /\ process' \in {process, "aborted"}
<1>1. CASE UNCHANGED vars
  BY <1>1 DEF vars, authVars, tlsVars, envVars, Own
<1>2. ASSUME NEW t \in Session, Steps(t)
      PROVE  UNCHANGED Own(s) /\ process' \in {process, "aborted"}
  <2>1. t # s
    BY <1>2
  <2> QED
    BY <1>2, <2>1, StepsLeaveOthers
<1> QED
  BY <1>1, <1>2 DEF Next, Steps, DataStep

\* No step changes two sessions, whatever their clients do: the threads share nothing here
\* but the process, so what a run of one session shows holds for each of any number.
THEOREM SessionsApart ==
  Spec => [][\A s, t \in Session : s # t => UNCHANGED Own(s) \/ UNCHANGED Own(t)]_vars
<1>1. TypeOK /\ [Next]_vars => [\A s, t \in Session : s # t => UNCHANGED Own(s) \/ UNCHANGED Own(t)]_vars
  <2> SUFFICES ASSUME TypeOK, [Next]_vars, NEW s \in Session, NEW t \in Session, s # t
               PROVE  UNCHANGED Own(s) \/ UNCHANGED Own(t)
    OBVIOUS
  <2>1. CASE UNCHANGED vars
    BY <2>1 DEF vars, authVars, tlsVars, envVars, Own
  <2>2. ASSUME NEW r \in Session, Steps(r)
        PROVE  UNCHANGED Own(s) \/ UNCHANGED Own(t)
    <3>1. CASE r # s
      BY <2>2, <3>1, StepsLeaveOthers
    <3>2. CASE r = s
      <4>1. r # t
        BY <3>2
      <4> QED
        BY <2>2, <4>1, StepsLeaveOthers
    <3> QED
      BY <3>1, <3>2
  <2> QED
    BY <2>1, <2>2 DEF Next, Steps, DataStep
<1> QED
  BY <1>1, TypeCorrect, PTL DEF Spec

\* Only its thread moves a session whose client is gone.
LEMMA OnlyThreadMoves ==
  ASSUME TypeOK, [Next]_vars, NEW s \in Session, Leaving(s), ~ Thread(s), ~ HandshakeFail(s)
  PROVE  Over(s)' \/ (Leaving(s)' /\ pc'[s] = pc[s] /\ Work(s)' = Work(s))
<1>1. ~ Steps(s)
  BY DEF Leaving, Steps, ClientSend, ClientLeave, HandshakeOk, DataStep, PortConnected, TransferDone,
         TransferBreaks, At
<1>2. /\ UNCHANGED <<pc[s], peer[s], inbox[s]>>
      /\ process' \in {process, "aborted"}
  BY <1>1, OthersLeaveSession DEF Own
<1> QED
  BY <1>2 DEF Leaving, Over, Work

\* A session whose client is gone comes closer to its end with every step, through any
\* lines and handshakes that are left: with at most n steps to do it is over, waits for a
\* data connection, or has fewer.  (With SessionsTerminate, by induction on n: SessionEnds.)
THEOREM SessionsAdvance ==
  \A s \in Session : \A n \in Nat :
    FairSpec /\ []ThreadCanAct(s)
      => ((Leaving(s) /\ Work(s) = n) ~> (Over(s) \/ (Leaving(s) /\ Work(s) < n)))
<1> SUFFICES ASSUME NEW s \in Session, NEW n \in Nat
             PROVE  FairSpec /\ []ThreadCanAct(s)
                      => ((Leaving(s) /\ Work(s) = n)
                            ~> (Over(s) \/ (Leaving(s) /\ Work(s) < n)))
  OBVIOUS
<1> DEFINE P == Leaving(s) /\ Work(s) = n
           H == P /\ pc[s] = "handshake"
           L == P /\ pc[s] # "handshake"
           Q == Over(s) \/ (Leaving(s) /\ Work(s) < n)
<1>1. TypeOK /\ H /\ [Next]_vars => H' \/ Q'
  BY ThreadWorks, OnlyThreadMoves
<1>2. TypeOK /\ L /\ [Next]_vars => L' \/ Q'
  BY ThreadWorks, OnlyThreadMoves
<1>3. TypeOK /\ H /\ <<HandshakeAbandoned(s)>>_vars => Q'
  BY ThreadWorks DEF HandshakeAbandoned
<1>4. TypeOK /\ L /\ <<Thread(s)>>_vars => Q'
  BY ThreadWorks
<1>5. /\ H /\ ThreadCanAct(s) => ENABLED <<HandshakeAbandoned(s)>>_vars
      /\ L /\ ThreadCanAct(s) => ENABLED <<Thread(s)>>_vars
  BY DEF ThreadCanAct
<1>6. Fairness => Scheduled(s)
  BY DEF Fairness
<1>7. P <=> H \/ L
  OBVIOUS
<1> HIDE DEF P, H, L, Q
<1>8. FairSpec /\ []ThreadCanAct(s) => (P ~> Q)
  BY <1>1, <1>2, <1>3, <1>4, <1>5, <1>6, <1>7, TypeCorrect, PTL DEF FairSpec, Spec, Scheduled
<1> QED
  BY <1>8 DEF P, Q

\* A terminated session closes its channel, whether its client is there or not.
THEOREM SessionsTerminate ==
  \A s \in Session :
    FairSpec /\ []ThreadCanAct(s) => (state[s] = "TERMINATED" ~> Over(s))
<1> SUFFICES ASSUME NEW s \in Session
             PROVE  FairSpec /\ []ThreadCanAct(s) => (state[s] = "TERMINATED" ~> Over(s))
  OBVIOUS
<1>1. SessionInv /\ state[s] = "TERMINATED" => Ending(s) \/ Over(s)
  BY DEF SessionInv, LoginInv, TypeOK, PhaseInv, Ending, Over
<1>2. SessionInv /\ Ending(s) /\ [Next]_vars => Ending(s)' \/ Over(s)'
  <2> SUFFICES ASSUME SessionInv, Ending(s), [Next]_vars PROVE Ending(s)' \/ Over(s)'
    OBVIOUS
  <2>1. TypeOK /\ TypeOK' /\ PhaseInv'
    BY StepLogin, StepPhase DEF SessionInv, LoginInv, PhaseInv
  <2>2. state'[s] = "TERMINATED"
    BY StepPhase DEF SessionInv, LoginInv, Ending
  <2> QED
    BY <2>1, <2>2 DEF TypeOK, PhaseInv, Ending, Over
<1>3. SessionInv /\ Ending(s) /\ <<Thread(s)>>_vars => Over(s)'
  <2> SUFFICES ASSUME SessionInv, Ending(s), Thread(s) PROVE Over(s)'
    OBVIOUS
  <2>1. LeaveLoop(s)
    BY DEF Ending, Thread, Greet, EndOfInput, Handle, command_user, command_pass, command_reply,
           command_throws, command_port, command_data, command_quit, command_auth, Receive, At
  <2> QED
    BY <2>1 DEF SessionInv, LoginInv, TypeOK, LeaveLoop, CloseControl, Goto, Over
<1>4. Ending(s) /\ ThreadCanAct(s) => ENABLED <<Thread(s)>>_vars
  BY DEF ThreadCanAct
<1>5. Fairness => Scheduled(s)
  BY DEF Fairness
<1> QED
  BY <1>1, <1>2, <1>3, <1>4, <1>5, InvariantHolds, PTL DEF FairSpec, Spec, Scheduled

=============================================================================
