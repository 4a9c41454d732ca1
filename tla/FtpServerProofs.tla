---------------------------- MODULE FtpServerProofs ----------------------------
(***************************************************************************)
(* Theorems about FtpServer, for any sessions and observers.                *)
(***************************************************************************)
EXTENDS FtpServer, TLAPS

-----------------------------------------------------------------------------
(* Types.  Nothing beside TypeOK is needed. *)

\* The types hold before start.
LEMMA InitTypeOK == Init => TypeOK
BY DEF Init, TypeOK, Event

\* Changing the table gives each notification something to visit, and marks it.
LEMMA ChangingTypes ==
  ASSUME TypeOK, Changing, thread' = thread,
         DOMAIN observers \subseteq Observer, DOMAIN observers' \subseteq Observer
  PROVE  /\ process' \in {"running", "aborted"}
         /\ todo' \in [Session -> SUBSET Observer]
         /\ raced' \in [Session -> BOOLEAN]
<1>1. PICK met \in [Notifying -> SUBSET (DOMAIN observers \union DOMAIN observers')] :
        todo' = [s \in Session |-> IF s \in Notifying THEN met[s] ELSE todo[s]]
  BY DEF Changing
<1>2. ASSUME NEW s \in Session
      PROVE  (IF s \in Notifying THEN met[s] ELSE todo[s]) \in SUBSET Observer
  BY <1>1 DEF TypeOK
<1>3. todo' \in [Session -> SUBSET Observer] BY <1>1, <1>2
<1>4. raced' \in [Session -> BOOLEAN] BY DEF Changing, TypeOK
<1>5. process' \in {"running", "aborted"} BY DEF Changing
<1> QED BY <1>3, <1>4, <1>5

\* The owner's calls keep the types.
LEMMA OwnerTypeOK == TypeOK /\ (Owner \/ StopReturns) => TypeOK'
<1> SUFFICES ASSUME TypeOK, Owner \/ StopReturns PROVE TypeOK'
  OBVIOUS
<1>1. CASE start
  BY <1>1 DEF TypeOK, start, Abort, CallerFree, Alive, life, sessions, notices
<1>2. CASE stop
  BY <1>2 DEF TypeOK, stop, CallerFree, Alive, sessions, notices
<1>3. CASE StopReturns
  BY <1>3 DEF TypeOK, StopReturns, Joined, Alive, sessions, notices
<1>4. ASSUME NEW o \in Observer, NEW e \in Event,
             register_observer(o, e) \/ unregister_observer(o, e)
      PROVE  TypeOK'
  <2>1. /\ DOMAIN observers' \subseteq Observer
        /\ \A p \in DOMAIN observers' : observers'[p] \in Event
    <3>1. CASE register_observer(o, e)
      BY <3>1 DEF TypeOK, register_observer
    <3>2. CASE unregister_observer(o, e)
      BY <3>2 DEF TypeOK, unregister_observer
    <3> QED BY <1>4, <3>1, <3>2
  <2>2. Changing /\ UNCHANGED <<life, waiting, sessions, heard>>
    BY <1>4 DEF register_observer, unregister_observer
  <2>3. /\ process' \in {"running", "aborted"}
        /\ todo' \in [Session -> SUBSET Observer]
        /\ raced' \in [Session -> BOOLEAN]
    BY <2>1, <2>2, ChangingTypes DEF TypeOK, sessions
  <2> QED BY <2>1, <2>2, <2>3 DEF TypeOK, life, sessions
<1> QED
  BY <1>1, <1>2, <1>3, <1>4 DEF Owner

\* The server thread and connecting clients keep the types.
LEMMA ServerTypeOK == TypeOK /\ (ServerThread \/ Connect) => TypeOK'
<1> SUFFICES ASSUME TypeOK, ServerThread \/ Connect PROVE TypeOK'
  OBVIOUS
<1>1. CASE Bind
  BY <1>1 DEF TypeOK, Bind, sessions, notices
<1>2. CASE SetRunning
  BY <1>2 DEF TypeOK, SetRunning, sessions, notices
<1>3. CASE GoOn
  BY <1>3 DEF TypeOK, GoOn, sessions, notices
<1>4. CASE Return
  BY <1>4 DEF TypeOK, Return, notices
<1>5. CASE Accept
  <2>1. CASE UNCHANGED sessions
    BY <1>5, <2>1 DEF TypeOK, Accept, sessions, notices
  <2>2. ASSUME NEW s \in Session, thread[s] = "unborn", list' = Listed(s),
               thread' = [thread EXCEPT ![s] = "commands"],
               freed' = freed \union ({s} \ list')
        PROVE  TypeOK'
    <3>1. list' = list \union {s} /\ freed' = freed
      BY <2>2 DEF Listed
    <3>2. {r \in Session : thread'[r] # "unborn"} = {r \in Session : thread[r] # "unborn"} \union {s}
      BY <2>2 DEF TypeOK
    <3> QED
      BY <1>5, <2>2, <3>1, <3>2 DEF TypeOK, Accept, notices
  <2> QED
    BY <1>5, <2>1, <2>2 DEF Accept
<1>6. CASE Connect
  BY <1>6 DEF TypeOK, Connect, life, sessions, notices
<1> QED
  BY <1>1, <1>2, <1>3, <1>4, <1>5, <1>6 DEF ServerThread

\* The session threads keep the types.
LEMMA SessionTypeOK == TypeOK /\ (\E s \in Session : SessionThread(s)) => TypeOK'
<1> SUFFICES ASSUME TypeOK, NEW s \in Session, SessionThread(s) PROVE TypeOK'
  OBVIOUS
<1>1. CASE Uploaded(s)
  BY <1>1 DEF TypeOK, Uploaded, OnObject, life
<1>2. CASE Visit(s)
  BY <1>2 DEF TypeOK, Visit, Rest, Awaiting, life, sessions
<1>3. CASE Notified(s)
  BY <1>3 DEF TypeOK, Notified, OnObject, life
<1>4. CASE Leave(s)
  BY <1>4 DEF TypeOK, Leave, OnObject, life, notices
<1> QED
  BY <1>1, <1>2, <1>3, <1>4 DEF SessionThread

\* A stuttering step keeps the types.
LEMMA StutterTypeOK == TypeOK /\ UNCHANGED vars => TypeOK'
BY DEF TypeOK, vars, life, sessions, notices

\* Every variable keeps its type, and every session created is in the list or freed.
THEOREM TypeCorrect == Spec => []TypeOK
<1>1. TypeOK /\ [Next]_vars => TypeOK'
  BY OwnerTypeOK, ServerTypeOK, SessionTypeOK, StutterTypeOK DEF Next
<1> QED
  BY <1>1, InitTypeOK, PTL DEF Spec

-----------------------------------------------------------------------------
(* A session object is freed only by a server thread that ends, which leaves  *)
(* the listener open; so no later server thread gets past its bind.          *)

LifeInv ==
  /\ server \in {"bound", "loop", "accepting"} => listening
  /\ status = "RUNNING" => listening
  /\ Alive /\ freed # {} => /\ listening
                           /\ status = "STOPPING"
                           /\ server \in {"none", "bind", "ended"}

\* Every step keeps the invariant of the sessions' lifetime.
LEMMA LifeStep == TypeOK /\ LifeInv /\ [Next]_vars => LifeInv'
<1> SUFFICES ASSUME TypeOK, LifeInv, [Next]_vars PROVE LifeInv'
  OBVIOUS
<1>1. CASE Owner
  <2>1. CASE start
    BY <2>1 DEF LifeInv, start, Abort, Alive, life, sessions, CallerFree
  <2>2. CASE stop
    BY <2>2 DEF LifeInv, TypeOK, stop, Alive, sessions, CallerFree
  <2>3. ASSUME NEW o \in Observer, NEW e \in Event,
               register_observer(o, e) \/ unregister_observer(o, e)
        PROVE  LifeInv'
    BY <2>3 DEF LifeInv, register_observer, unregister_observer, CallerFree, Alive, life, sessions
  <2> QED
    BY <1>1, <2>1, <2>2, <2>3 DEF Owner
<1>2. CASE StopReturns
  BY <1>2 DEF LifeInv, StopReturns, Joined, Alive, sessions
<1>3. CASE Bind
  BY <1>3 DEF LifeInv, Bind, Alive, sessions
<1>4. CASE SetRunning
  BY <1>4 DEF LifeInv, SetRunning, Alive, sessions
<1>5. CASE GoOn
  BY <1>5 DEF LifeInv, GoOn, Alive, sessions
<1>6. CASE Return
  BY <1>6 DEF LifeInv, TypeOK, Return, Continues, Alive
<1>7. CASE Accept
  <2>1. freed' = freed
    BY <1>7 DEF Accept, Listed, sessions
  <2> QED
    BY <1>7, <2>1 DEF LifeInv, Accept, Alive
<1>8. CASE Connect
  BY <1>8 DEF LifeInv, Connect, Alive, life, sessions
<1>9. ASSUME NEW s \in Session, SessionThread(s) PROVE LifeInv'
  BY <1>9 DEF LifeInv, SessionThread, Uploaded, Visit, Notified, Leave, Alive, life, sessions
<1>10. CASE UNCHANGED vars
  BY <1>10 DEF LifeInv, vars, Alive, life, sessions
<1> QED
  BY <1>1, <1>2, <1>3, <1>4, <1>5, <1>6, <1>7, <1>8, <1>9, <1>10 DEF Next, ServerThread

\* While the server runs, no session object that its threads use was freed.
THEOREM SessionsLive == Spec => []ServesLiveSessions
<1>1. Init => LifeInv
  BY DEF Init, LifeInv
<1>2. LifeInv => ServesLiveSessions
  BY DEF LifeInv, ServesLiveSessions
<1> QED
  BY <1>1, <1>2, LifeStep, TypeCorrect, PTL DEF Spec

-----------------------------------------------------------------------------
(* A notification that no change has raced with has reached those who await  *)
(* it, or has still to visit them.                                           *)

Reaches(s) ==
  thread[s] = "notifying" /\ ~ raced[s]
    => heard[s] \union Awaiting(todo[s]) = Awaiting(Observer)

NoticeInv == \A s \in Session : Reaches(s)

\* Registration and removal race with every notification under way.
LEMMA RegisterNotice ==
  ASSUME TypeOK, NEW o \in Observer, NEW e \in Event,
         register_observer(o, e) \/ unregister_observer(o, e)
  PROVE  NoticeInv'
<1> SUFFICES ASSUME NEW s \in Session, thread'[s] = "notifying"
             PROVE  raced'[s]
  BY DEF NoticeInv, Reaches
<1>1. Changing /\ thread' = thread
  BY DEF register_observer, unregister_observer, sessions
<1>2. s \in Notifying
  BY <1>1 DEF Notifying
<1> QED
  BY <1>1, <1>2 DEF Changing

\* A session's thread delivers to whom it visits, or leaves the others' notifications.
LEMMA VisitNotice ==
  ASSUME TypeOK, NoticeInv, NEW s \in Session, SessionThread(s)
  PROVE  NoticeInv'
<1> SUFFICES ASSUME NEW r \in Session, thread'[r] = "notifying", ~ raced'[r]
             PROVE  heard'[r] \union Awaiting(todo[r])' = Awaiting(Observer)'
  BY DEF NoticeInv, Reaches
<1>0. observers' = observers
  BY DEF SessionThread, Uploaded, Visit, Notified, Leave
<1>a. Reaches(r)
  BY DEF NoticeInv
<1>1. CASE Uploaded(s)
  <2>1. CASE r = s
    <3>1. heard'[r] = {} /\ todo'[r] = DOMAIN observers
      BY <1>1, <2>1 DEF TypeOK, Uploaded
    <3>2. Awaiting(DOMAIN observers) = Awaiting(Observer)
      BY DEF TypeOK, Awaiting
    <3> QED
      BY <1>0, <3>1, <3>2 DEF Awaiting
  <2>2. CASE r # s
    <3>1. /\ thread'[r] = thread[r] /\ raced'[r] = raced[r]
          /\ heard'[r] = heard[r] /\ todo'[r] = todo[r]
      BY <1>1, <2>2 DEF TypeOK, Uploaded
    <3> QED
      BY <1>0, <1>a, <3>1 DEF Reaches, Awaiting
  <2> QED BY <2>1, <2>2
<1>2. CASE Visit(s)
  <2>1. CASE r = s
    <3>1. thread[r] = "notifying" /\ ~ raced[r]
      BY <1>2, <2>1 DEF Visit, sessions
    <3>2. PICK o \in todo[s] : /\ todo' = [todo EXCEPT ![s] = Rest(s, o)]
                               /\ heard' = [heard EXCEPT ![s] = @ \union Awaiting({o})]
      BY <1>2 DEF Visit
    <3>3. todo'[r] = todo[r] \ {o} /\ heard'[r] = heard[r] \union Awaiting({o})
      BY <2>1, <3>2 DEF TypeOK, Rest
    <3>4. Awaiting({o}) \union Awaiting(todo[r] \ {o}) = Awaiting(todo[r])
      BY <2>1 DEF Awaiting
    <3>5. heard[r] \union Awaiting(todo[r]) = Awaiting(Observer)
      BY <1>a, <3>1 DEF Reaches
    <3>6. heard'[r] \union Awaiting(todo'[r]) = Awaiting(Observer)
      BY <3>3, <3>4, <3>5
    <3> QED
      BY <1>0, <3>6 DEF Awaiting
  <2>2. CASE r # s
    <3>1. /\ thread'[r] = thread[r] /\ raced'[r] = raced[r]
          /\ heard'[r] = heard[r] /\ todo'[r] = todo[r]
      BY <1>2, <2>2 DEF TypeOK, Visit, sessions
    <3> QED
      BY <1>0, <1>a, <3>1 DEF Reaches, Awaiting
  <2> QED BY <2>1, <2>2
<1>3. CASE Notified(s) \/ Leave(s)
  <2>1. r # s
    BY <1>3 DEF TypeOK, Notified, Leave
  <2>2. /\ thread'[r] = thread[r] /\ raced'[r] = raced[r]
        /\ heard'[r] = heard[r] /\ todo'[r] = todo[r]
    BY <1>3, <2>1 DEF TypeOK, Notified, Leave, notices
  <2> QED
    BY <1>0, <1>a, <2>2 DEF Reaches, Awaiting
<1> QED
  BY <1>1, <1>2, <1>3 DEF SessionThread

\* What neither touches the table nor a notification, and lets no thread begin one.
LEMMA OthersNotice ==
  ASSUME TypeOK, NoticeInv,
         start \/ stop \/ StopReturns \/ ServerThread \/ Connect \/ UNCHANGED vars
  PROVE  NoticeInv'
<1>1. UNCHANGED <<observers, notices>>
  BY DEF start, stop, StopReturns, ServerThread, Bind, SetRunning, GoOn, Return, Accept,
         Connect, vars
<1>2. ASSUME NEW s \in Session, thread'[s] = "notifying" PROVE thread[s] = "notifying"
  <2>1. CASE Accept
    BY <1>2, <2>1 DEF TypeOK, Accept, sessions
  <2>2. CASE ~ Accept
    BY <1>2, <2>2 DEF start, stop, StopReturns, ServerThread, Bind, SetRunning, GoOn, Return,
       Connect, vars, sessions
  <2> QED BY <2>1, <2>2
<1> QED
  BY <1>1, <1>2 DEF NoticeInv, Reaches, Awaiting, notices

\* Every step keeps the invariant of the notifications.
LEMMA NoticeStep == TypeOK /\ NoticeInv /\ [Next]_vars => NoticeInv'
BY RegisterNotice, VisitNotice, OthersNotice DEF Next, Owner

\* A notification that ends without a change of the table has reached exactly those who
\* are registered for it.
THEOREM NoticesArrive == Spec => EveryoneHears
<1>1. Init => NoticeInv
  BY DEF Init, NoticeInv, Reaches
<1>2. ASSUME TypeOK, NoticeInv, [Next]_vars, NEW s \in Session,
             thread[s] = "notifying", thread'[s] = "commands", ~ raced[s]
      PROVE  heard[s] = Awaiting(Observer)
  <2>1. todo[s] = {}
    <3>1. thread' # thread
      BY <1>2
    <3>2. ~ Accept
      BY <1>2 DEF TypeOK, Accept, sessions
    <3>3. PICK r \in Session : SessionThread(r)
      BY <1>2, <3>1, <3>2 DEF Next, Owner, start, stop, register_observer, unregister_observer,
         StopReturns, ServerThread, Bind, SetRunning, GoOn, Return, Connect, vars, sessions
    <3>4. Notified(r) /\ r = s
      BY <1>2, <3>3 DEF TypeOK, SessionThread, Uploaded, Visit, Notified, Leave, sessions
    <3> QED
      BY <3>4 DEF Notified
  <2>2. Awaiting(todo[s]) = {}
    BY <2>1 DEF Awaiting
  <2> QED
    BY <1>2, <2>2 DEF NoticeInv, Reaches
<1>3. TypeOK /\ NoticeInv /\ [Next]_vars
        => [\A s \in Session :
              thread[s] = "notifying" /\ thread'[s] = "commands" /\ ~ raced[s]
                => heard[s] = Awaiting(Observer)]_vars
  BY <1>2
<1> QED
  BY <1>1, <1>3, NoticeStep, TypeCorrect, PTL DEF Spec, EveryoneHears

-----------------------------------------------------------------------------
(* Stopping. *)

\* The way of a stop that found the server running: the thread waits in accept, for a
\* client or no more; it is back in the loop; it has ended.
Stopping == Alive /\ caller = "joining" /\ status = "STOPPING"
Blocked  == Stopping /\ server = "accepting" /\ listening /\ ~ waiting
Accepted == Stopping /\ server = "accepting" /\ waiting
Looping  == Stopping /\ server = "loop"
Ended    == Stopping /\ server = "ended"
Stopped  == caller = "free" \/ ~ Alive

\* On each stage somebody can act.  Here the prover does not look into ENABLED, so that
\* the guards of Connect, Accept, Return and StopReturns suffice is a hypothesis.
SomeoneCanAct ==
  /\ Blocked => ENABLED <<Connect>>_vars
  /\ Accepted \/ Looping => ENABLED <<ServerThread>>_vars
  /\ Ended => ENABLED <<StopReturns>>_vars

\* No step leads anywhere but to the next stage.
LEMMA StoppingStep ==
  ASSUME [Next]_vars
  PROVE  /\ Blocked => Blocked' \/ Accepted' \/ Stopped'
         /\ Accepted => Accepted' \/ Looping' \/ Stopped'
         /\ Looping => Looping' \/ Ended' \/ Stopped'
         /\ Ended => Ended' \/ Stopped'
<1> USE DEF Stopping, Blocked, Accepted, Looping, Ended, Stopped, Alive
<1>1. CASE Owner
  BY <1>1 DEF Owner, start, stop, register_observer, unregister_observer, CallerFree
<1>2. CASE StopReturns
  BY <1>2 DEF StopReturns
<1>3. CASE ServerThread
  BY <1>3 DEF ServerThread, Bind, SetRunning, GoOn, Return, Accept, Continues
<1>4. CASE Connect
  BY <1>4 DEF Connect, life
<1>5. ASSUME NEW s \in Session, SessionThread(s)
      PROVE  UNCHANGED <<life, waiting>>
  BY <1>5 DEF SessionThread, Uploaded, Visit, Notified, Leave
<1>6. CASE UNCHANGED <<life, waiting>>
  BY <1>6 DEF life
<1>7. UNCHANGED vars => UNCHANGED <<life, waiting>>
  BY DEF vars
<1> QED
  BY <1>1, <1>2, <1>3, <1>4, <1>5, <1>6, <1>7 DEF Next

\* The step that is waited for leads there.
LEMMA StoppingAdvance ==
  /\ Blocked /\ Connect => Accepted'
  /\ Accepted /\ ServerThread => Looping'
  /\ Looping /\ ServerThread => Ended'
  /\ StopReturns => Stopped'
<1> USE DEF Stopping, Blocked, Accepted, Looping, Ended, Stopped, Alive
<1>1. Blocked /\ Connect => Accepted'
  BY DEF Connect, life
<1>2. Accepted /\ ServerThread => Looping'
  BY DEF ServerThread, Bind, SetRunning, GoOn, Return, Accept
<1>3. Looping /\ ServerThread => Ended'
  BY DEF ServerThread, Bind, SetRunning, GoOn, Return, Accept, Continues
<1>4. StopReturns => Stopped'
  BY DEF StopReturns
<1> QED
  BY <1>1, <1>2, <1>3, <1>4

\* A stop that finds the server running returns if one more client comes (stop joins a
\* thread that looks at m_status between two accepts only).
THEOREM StopsEnd == FairSpec /\ []SomeoneCanAct => StopEnds
<1>1. TypeOK /\ LifeInv /\ caller = "joining" /\ status = "STOPPING" /\ server \in {"loop", "accepting"}
        => Blocked \/ Accepted \/ Looping \/ Stopped
  BY DEF TypeOK, LifeInv, Stopping, Blocked, Accepted, Looping, Stopped
<1>2. Stopped => caller = "free" \/ ~ Alive
  BY DEF Stopped
<1>3. [Next]_vars /\ Blocked => Blocked' \/ Accepted' \/ Stopped'
  BY StoppingStep
<1>4. [Next]_vars /\ Accepted => Accepted' \/ Looping' \/ Stopped'
  BY StoppingStep
<1>5. [Next]_vars /\ Looping => Looping' \/ Ended' \/ Stopped'
  BY StoppingStep
<1>6. [Next]_vars /\ Ended => Ended' \/ Stopped'
  BY StoppingStep
<1>7. Blocked /\ <<Connect>>_vars => Accepted'
  BY StoppingAdvance
<1>8. Accepted /\ <<ServerThread>>_vars => Looping'
  BY StoppingAdvance
<1>9. Looping /\ <<ServerThread>>_vars => Ended'
  BY StoppingAdvance
<1>10. Ended /\ <<StopReturns>>_vars => Stopped'
  BY StoppingAdvance
<1>11. SomeoneCanAct => /\ Blocked => ENABLED <<Connect>>_vars
                        /\ Accepted \/ Looping => ENABLED <<ServerThread>>_vars
                        /\ Ended => ENABLED <<StopReturns>>_vars
  BY DEF SomeoneCanAct
<1>12. Spec => []LifeInv
  <2>1. Init => LifeInv
    BY DEF Init, LifeInv
  <2> QED
    BY <2>1, LifeStep, TypeCorrect, PTL DEF Spec
<1> QED
  BY <1>1, <1>2, <1>3, <1>4, <1>5, <1>6, <1>7, <1>8, <1>9, <1>10, <1>11, <1>12, TypeCorrect, PTL
     DEF FairSpec, Fairness, Spec, StopEnds

=============================================================================
