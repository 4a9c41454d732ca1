--------------------------- MODULE DescriptorProofs ---------------------------
(***************************************************************************)
(* Descriptors' ownership invariants, for every number of sessions, every   *)
(* descriptor limit and every number of ports that PASV tries.              *)
(***************************************************************************)
EXTENDS Descriptors, TLAPS

OwnInv == TypeOK /\ OwnDescriptor

\* Neither a free nor a reserved descriptor is what a transport may hold.
Vacant(f) == f \in Fd => fd[f] = Free \/ \E p \in Session \union {Server} : fd[f] = Reserved(p)

-----------------------------------------------------------------------------
\* The transports of a session are told apart by their names.
LEMMA Names ==
  /\ \A s \in Session : {Ctl(s), Data(s), Pasv(s), File(s)} \subseteq Holder
  /\ Incoming \in Holder /\ Listener \in Holder
  /\ \A s \in Session, r \in Session :
       /\ Ctl(s) # Data(r) /\ Ctl(s) # Pasv(r) /\ Ctl(s) # File(r) /\ Data(s) # Pasv(r)
       /\ Data(s) # File(r) /\ Pasv(s) # File(r)
       /\ Incoming \notin {Ctl(s), Data(s), Pasv(s), File(s)}
       /\ s # r => Ctl(s) # Ctl(r) /\ Data(s) # Data(r)
BY DescriptorAssumption DEF Holder, Ctl, Data, Pasv, File, Incoming, Listener

\* What the actions write into the descriptor table is an object of it.
LEMMA Objects ==
  /\ {Free, Stdin, Raw} \subseteq Object
  /\ \A s \in Session : {Ctl(s), Data(s), Pasv(s), File(s), Reserved(s)} \subseteq Object
  /\ Reserved(Server) \in Object /\ Incoming \notin Object
BY Names DEF Object, Holder, Reserved, Incoming, Ctl, Data, Pasv, File, Free, Stdin, Raw

\* The entries of the table that no transport may hold, apart from descriptor 0.
LEMMA Improper ==
  ASSUME NEW t \in Holder, NEW p \in Session \union {Server}
  PROVE  ~ Proper(t, Free) /\ ~ Proper(t, Stdin) /\ ~ Proper(t, Reserved(p))
BY DEF Proper, Holder, Free, Stdin, Reserved, Raw, Ctl, Incoming, Listener

\* A transport whose descriptor is vacant was closed or has none.
LEMMA VacantIsNotHeld ==
  ASSUME OwnInv, NEW f \in Fd \union {-1}, Vacant(f), NEW t \in Holder, sock[t] = f
  PROVE  f \in {0, -1}
BY Improper DEF OwnInv, OwnDescriptor, Vacant, Fd

\* The kernel hands out a descriptor that is vacant, or none.
LEMMA NewFdIsVacant ==
  ASSUME NEW f \in Fd \union {-1}, NewFd(f)
  PROVE  Vacant(f)
BY DescriptorAssumption DEF NewFd, Vacant, Fd

\* A transport takes a vacant descriptor for what belongs to it.
LEMMA Acquire ==
  ASSUME OwnInv, NEW f \in Fd \union {-1}, Vacant(f), NEW t \in Holder, NEW o \in Object,
         Proper(t, o), fd' = With(f, o), sock' = [sock EXCEPT ![t] = f]
  PROVE  OwnDescriptor' /\ fd' \in [Fd -> Object] /\ sock' \in [Holder -> Fd \union {-1}]
<1>1. fd \in [Fd -> Object] /\ sock \in [Holder -> Fd \union {-1}]
  BY DEF OwnInv, TypeOK
<1>2. fd' \in [Fd -> Object] /\ sock' \in [Holder -> Fd \union {-1}]
  BY <1>1 DEF With
<1>3. SUFFICES ASSUME NEW u \in Holder, sock'[u] \in Fd \ {0}
               PROVE  /\ Proper(u, fd'[sock'[u]])
                      /\ \A v \in Holder \ {u} : sock'[v] # sock'[u]
  BY <1>2 DEF OwnDescriptor, Proper
<1>4. \A v \in Holder : sock[v] = f => f \in {0, -1}
  BY VacantIsNotHeld
<1>5. CASE u = t
  BY <1>1, <1>3, <1>4, <1>5 DEF With, Fd
<1>6. CASE u # t
  <2>1. sock'[u] = sock[u] /\ sock[u] # f
    BY <1>1, <1>3, <1>4, <1>6 DEF Fd
  <2>2. fd'[sock[u]] = fd[sock[u]]
    BY <1>1, <1>3, <2>1 DEF With
  <2> QED
    BY <1>1, <1>3, <1>6, <2>1, <2>2 DEF OwnInv, OwnDescriptor
<1> QED
  BY <1>2, <1>5, <1>6

\* A vacant descriptor is reserved, or opened by a call whose result nobody keeps,
\* and transports may be dropped.
LEMMA Occupy ==
  ASSUME OwnInv, NEW f \in Fd \union {-1}, Vacant(f), NEW o \in Object, fd' = With(f, o),
         sock' \in [Holder -> Fd \union {-1}],
         \A t \in Holder : sock'[t] \in {sock[t], 0}
  PROVE  OwnDescriptor' /\ fd' \in [Fd -> Object]
<1>1. fd \in [Fd -> Object] /\ sock \in [Holder -> Fd \union {-1}]
  BY DEF OwnInv, TypeOK
<1>2. fd' \in [Fd -> Object]
  BY <1>1 DEF With
<1>3. \A v \in Holder : sock[v] = f => f \in {0, -1}
  BY VacantIsNotHeld
<1>4. SUFFICES ASSUME NEW u \in Holder, sock'[u] \in Fd \ {0}
               PROVE  /\ Proper(u, fd'[sock'[u]])
                      /\ \A v \in Holder \ {u} : sock'[v] # sock'[u]
  BY <1>2 DEF OwnDescriptor, Proper
<1>5. sock'[u] = sock[u] /\ fd'[sock[u]] = fd[sock[u]]
  BY <1>1, <1>3, <1>4 DEF With, Fd
<1> QED
  BY <1>4, <1>5 DEF OwnInv, OwnDescriptor, Fd

\* Transports are closed, and hold 0, or nothing, from then on.
LEMMA Release ==
  ASSUME OwnInv, NEW T \in SUBSET Holder, fd' = Closed({sock[t] : t \in T}),
         sock' \in [Holder -> Fd \union {-1}],
         \A t \in T : sock'[t] \in {0, -1},
         \A t \in Holder \ T : sock'[t] = sock[t]
  PROVE  OwnDescriptor' /\ fd' \in [Fd -> Object]
<1>1. fd \in [Fd -> Object] /\ sock \in [Holder -> Fd \union {-1}]
  BY DEF OwnInv, TypeOK
<1>2. fd' \in [Fd -> Object]
  BY <1>1, Objects DEF Closed
<1>3. SUFFICES ASSUME NEW u \in Holder, sock'[u] \in Fd \ {0}
               PROVE  /\ Proper(u, fd'[sock'[u]])
                      /\ \A v \in Holder \ {u} : sock'[v] # sock'[u]
  BY <1>2 DEF OwnDescriptor, Proper
<1>4. u \notin T /\ sock'[u] = sock[u]
  BY <1>3 DEF Fd
<1>5. \A v \in Holder \ {u} : sock[v] # sock[u]
  BY <1>3, <1>4 DEF OwnInv, OwnDescriptor
<1>6. fd'[sock[u]] = fd[sock[u]]
  BY <1>1, <1>3, <1>4, <1>5 DEF Closed
<1> QED
  BY <1>3, <1>4, <1>5, <1>6 DEF OwnInv, OwnDescriptor, Fd

\* A session takes the accepted connection over and gets a socket of its own.
LEMMA SpawnOwn ==
  ASSUME OwnInv, NEW s \in Session, NEW f \in Fd \union {-1}, Vacant(f),
         \A c \in Session : sock[Incoming] \in Fd /\ fd[sock[Incoming]] = Ctl(c) => c = s,
         fd' = With(f, Raw),
         sock' = [sock EXCEPT ![Ctl(s)] = sock[Incoming], ![Incoming] = 0, ![Data(s)] = f]
  PROVE  OwnDescriptor' /\ fd' \in [Fd -> Object] /\ sock' \in [Holder -> Fd \union {-1}]
<1> DEFINE g == sock[Incoming]
<1>1. /\ fd \in [Fd -> Object] /\ sock \in [Holder -> Fd \union {-1}]
      /\ Ctl(s) \in Holder /\ Data(s) \in Holder /\ Incoming \in Holder
      /\ Ctl(s) # Data(s) /\ Incoming \notin {Ctl(s), Data(s)}
  BY Names DEF OwnInv, TypeOK
<1>2. fd' \in [Fd -> Object] /\ sock' \in [Holder -> Fd \union {-1}]
  BY <1>1, Objects, DescriptorAssumption DEF With, Fd
<1>3. \A v \in Holder : sock[v] = f => f \in {0, -1}
  BY VacantIsNotHeld
<1>4. \A v \in Holder : sock[v] \in Fd \ {0} =>
        /\ Proper(v, fd[sock[v]])
        /\ fd'[sock[v]] = fd[sock[v]]
        /\ sock[v] # f
        /\ \A w \in Holder \ {v} : sock[w] # sock[v]
  BY <1>1, <1>3 DEF OwnInv, OwnDescriptor, With, Fd
<1>5. /\ sock'[Ctl(s)] = g /\ sock'[Data(s)] = f /\ sock'[Incoming] = 0
      /\ \A v \in Holder \ {Ctl(s), Data(s), Incoming} : sock'[v] = sock[v]
  BY <1>1
<1>6. SUFFICES ASSUME NEW u \in Holder, sock'[u] \in Fd \ {0}
               PROVE  /\ Proper(u, fd'[sock'[u]])
                      /\ \A v \in Holder \ {u} : sock'[v] # sock'[u]
  BY <1>2 DEF OwnDescriptor, Proper
<1>7. CASE u = Ctl(s)
  <2>1. Proper(Ctl(s), fd[g])
    <3>1. Proper(Incoming, fd[g]) /\ fd[g] \in Object /\ g \in Fd
      BY <1>1, <1>4, <1>5, <1>6, <1>7
    <3>2. fd[g] = Raw \/ \E c \in Session : fd[g] = Ctl(c)
      BY <3>1, Objects DEF Proper
    <3> QED
      BY <3>1, <3>2 DEF Proper
  <2> QED
    BY <1>1, <1>4, <1>5, <1>6, <1>7, <2>1
<1>8. CASE u = Data(s)
  <2>1. fd'[f] = Raw
    BY <1>1, <1>5, <1>6, <1>8 DEF With
  <2>2. \A v \in Holder : sock[v] # f
    BY <1>3, <1>5, <1>6, <1>8 DEF Fd
  <2> QED
    BY <1>1, <1>5, <1>6, <1>8, <2>1, <2>2 DEF Proper
<1>9. CASE u \notin {Ctl(s), Data(s)}
  BY <1>1, <1>4, <1>5, <1>6, <1>9
<1> QED
  BY <1>7, <1>8, <1>9

\* The client transport of PORT, on the socket it opened, is connected.
LEMMA ConnectOwn ==
  ASSUME OwnInv, NEW t \in Holder, t \in Object, sock[t] \in Fd, fd' = [fd EXCEPT ![sock[t]] = t],
         UNCHANGED sock
  PROVE  OwnDescriptor' /\ fd' \in [Fd -> Object]
<1>1. fd \in [Fd -> Object] /\ sock \in [Holder -> Fd \union {-1}]
  BY DEF OwnInv, TypeOK
<1> QED
  BY <1>1 DEF OwnInv, OwnDescriptor, Proper

-----------------------------------------------------------------------------
\* The types of what is neither the table nor a transport.
ControlType ==
  /\ process \in {"running", "aborted"}
  /\ serverPc \in {"construct", "accept", "accepting", "spawn"}
  /\ pc \in [Session -> Phase]
  /\ attempt \in [Session -> 0 .. PasvAttempts - 1]
  /\ strayed \in BOOLEAN

\* Every step keeps the types of the variables that are not about descriptors.
LEMMA StepControl ==
  ASSUME TypeOK, [Next]_vars
  PROVE  ControlType'
<1> USE DEF TypeOK, ControlType
<1>1. CASE AcceptLoop
  BY <1>1 DEF AcceptLoop, ConstructConnection, AcceptCall, AcceptReturn, Spawn, Goto, Phase
<1>2. ASSUME NEW s \in Session, Thread(s) PROVE ControlType'
  <2>1. CASE Greet(s) \/ Reply(s) \/ command_port(s) \/ connect(s) \/ command_pasv(s)
    BY <2>1 DEF Greet, Reply, command_port, connect, command_pasv, Push, Strays, Goto, Phase
  <2>2. CASE BindAttempt(s)
    <3>1. attempt[s] + 1 = PasvAttempts \/ attempt[s] + 1 \in 0 .. PasvAttempts - 1
      BY DescriptorAssumption
    <3>2. attempt' \in [Session -> 0 .. PasvAttempts - 1]
      BY <2>2, <3>1, DescriptorAssumption DEF BindAttempt, LastAttempt
    <3>3. /\ process' \in {"running", "aborted"} /\ UNCHANGED serverPc
          /\ pc' \in [Session -> Phase] /\ strayed' \in BOOLEAN
      BY <2>2 DEF BindAttempt, Push, Strays, Goto, Phase
    <3> QED
      BY <3>2, <3>3
  <2>3. CASE EnterPassive(s) \/ PassiveAccept(s) \/ PassiveDone(s)
    BY <2>3 DEF EnterPassive, PassiveAccept, PassiveDone, Push, Strays, Goto, Phase
  <2>4. CASE command_list(s) \/ ListDone(s) \/ command_stor(s) \/ StoreDone(s) \/ Leave(s)
    BY <2>4 DEF command_list, ListDone, command_stor, StoreDone, Leave, Push, Strays, Goto, Phase
  <2>5. CASE SendListing(s)
    <3>1. process' \in {"running", "aborted"} /\ strayed' \in BOOLEAN
      BY <2>5 DEF SendListing, Strays
    <3> QED
      BY <2>5, <3>1 DEF SendListing, Goto, Phase
  <2> QED
    BY <1>2, <2>1, <2>2, <2>3, <2>4, <2>5 DEF Thread
<1>3. CASE UNCHANGED vars
  BY <1>3 DEF vars
<1> QED
  BY <1>1, <1>2, <1>3 DEF Next

\* Before the server starts every transport owns what it holds.
LEMMA InitOwn == Init => OwnInv
<1> SUFFICES ASSUME Init PROVE OwnInv
  OBVIOUS
<1>1. TypeOK
  <2>1. fd \in [Fd -> Object]
    BY Objects, Names DEF Init, Object, Listener, Incoming
  <2>2. sock \in [Holder -> Fd \union {-1}]
    BY DescriptorAssumption DEF Init, Fd
  <2>3. attempt \in [Session -> 0 .. PasvAttempts - 1]
    BY DescriptorAssumption DEF Init
  <2>4. strayed \in BOOLEAN /\ pc \in [Session -> Phase]
    BY DEF Init, Phase
  <2> QED
    BY <2>1, <2>2, <2>3, <2>4 DEF Init, TypeOK
<1>2. OwnDescriptor
  <2>1. \A t \in Holder : sock[t] \in Fd \ {0} => t = Listener /\ sock[t] = 2
    BY DEF Init, Fd
  <2>2. fd[2] = Listener
    BY DescriptorAssumption DEF Init, Fd
  <2> QED
    BY <2>1, <2>2 DEF OwnDescriptor, Proper
<1> QED
  BY <1>1, <1>2 DEF OwnInv

\* One case per action: what it acquires, occupies or releases.
LEMMA StepOwn == OwnInv /\ [Next]_vars => OwnInv'
<1> DEFINE Owned == OwnDescriptor' /\ fd' \in [Fd -> Object] /\ sock' \in [Holder -> Fd \union {-1}]
<1> SUFFICES ASSUME OwnInv, [Next]_vars PROVE Owned
  BY StepControl DEF OwnInv, TypeOK, ControlType
<1>1. fd \in [Fd -> Object] /\ sock \in [Holder -> Fd \union {-1}] /\ OwnDescriptor
  BY DEF OwnInv, TypeOK
<1>2. CASE UNCHANGED <<fd, sock>>
  BY <1>1, <1>2 DEF OwnDescriptor, Proper
<1>3. CASE ConstructConnection
  BY <1>3, Acquire, NewFdIsVacant, Names, Objects DEF ConstructConnection, Proper
<1>4. CASE AcceptCall
  <2>1. PICK f \in Fd \union {-1} : NewFd(f) /\ fd' = With(f, Reserved(Server))
    BY <1>4 DEF AcceptCall
  <2>2. UNCHANGED sock
    BY <1>4 DEF AcceptCall
  <2> QED
    BY <1>1, <2>1, <2>2, Occupy, NewFdIsVacant, Objects
<1>5. CASE AcceptReturn
  <2>1. PICK f \in Fd, s \in Session :
          /\ fd[f] = Reserved(Server)
          /\ fd' = [fd EXCEPT ![f] = Ctl(s)]
          /\ sock' = [sock EXCEPT ![Incoming] = f]
    BY <1>5 DEF AcceptReturn
  <2>2. Vacant(f) /\ fd' = With(f, Ctl(s)) /\ Proper(Incoming, Ctl(s))
    BY <2>1 DEF Vacant, With, Proper
  <2> QED
    BY <2>1, <2>2, Acquire, Names, Objects
<1>6. CASE Spawn
  BY <1>6, SpawnOwn, NewFdIsVacant DEF Spawn
<1>7. ASSUME NEW s \in Session, Thread(s) PROVE Owned
  <2>0. /\ {Ctl(s), Data(s), Pasv(s), File(s)} \subseteq Holder
        /\ {Ctl(s), Data(s), Pasv(s), File(s)} \subseteq Object /\ Raw \in Object
        /\ Data(s) # File(s)
    BY Names, Objects
  <2>1. CASE Greet(s) \/ Reply(s)
    BY <1>2, <2>1 DEF Greet, Reply
  <2>2. CASE command_port(s)
    BY <2>0, <2>2, Acquire, NewFdIsVacant DEF command_port, Proper
  <2>3. CASE connect(s)
    BY <1>1, <1>2, <2>0, <2>3, ConnectOwn DEF connect
  <2>4. CASE command_pasv(s)
    BY <2>0, <2>4, Acquire, NewFdIsVacant DEF command_pasv, Proper
  <2>5. CASE BindAttempt(s)
    <3>1. PICK f \in Fd \union {-1} :
            /\ NewFd(f)
            /\ \/ fd' = With(f, Pasv(s)) /\ sock' = [sock EXCEPT ![Pasv(s)] = f]
               \/ fd' = With(f, Raw) /\ sock' = [sock EXCEPT ![Pasv(s)] = f]
               \/ fd' = With(f, Raw) /\ sock' = [sock EXCEPT ![Pasv(s)] = 0]
      BY <2>5 DEF BindAttempt
    <3>2. CASE sock' = [sock EXCEPT ![Pasv(s)] = f]
      BY <2>0, <3>1, <3>2, Acquire, NewFdIsVacant DEF Proper
    <3>3. CASE fd' = With(f, Raw) /\ sock' = [sock EXCEPT ![Pasv(s)] = 0]
      <4>1. sock' \in [Holder -> Fd \union {-1}] /\ \A t \in Holder : sock'[t] \in {sock[t], 0}
        BY <1>1, <2>0, <3>3, DescriptorAssumption DEF Fd
      <4> QED
        BY <2>0, <3>1, <3>3, <4>1, Occupy, NewFdIsVacant
    <3> QED
      BY <3>1, <3>2, <3>3
  <2>6. CASE EnterPassive(s)
    <3>1. PICK f \in Fd \union {-1} : NewFd(f) /\ fd' = With(f, Reserved(s))
      BY <2>6 DEF EnterPassive
    <3>2. UNCHANGED sock
      BY <2>6 DEF EnterPassive
    <3> QED
      BY <1>1, <3>1, <3>2, Occupy, NewFdIsVacant, Objects
  <2>7. CASE PassiveAccept(s)
    <3>1. PICK f \in Fd :
            /\ fd[f] = Reserved(s)
            /\ fd' = [fd EXCEPT ![f] = Data(s)]
            /\ sock' = [sock EXCEPT ![Data(s)] = f]
      BY <2>7 DEF PassiveAccept
    <3>2. Vacant(f) /\ fd' = With(f, Data(s)) /\ Proper(Data(s), Data(s))
      BY <3>1 DEF Vacant, With, Proper
    <3> QED
      BY <2>0, <3>1, <3>2, Acquire
  <2>8. ASSUME NEW t \in Holder, NEW n \in {0, -1}, fd' = Closed({sock[t]}),
               sock' = [sock EXCEPT ![t] = n]
        PROVE  Owned
    <3> DEFINE T == {t}
    <3>1. sock' \in [Holder -> Fd \union {-1}]
      BY <1>1, <2>8, DescriptorAssumption DEF Fd
    <3>4. fd' = Closed({sock[u] : u \in T})
      <4>1. {sock[t]} = {sock[u] : u \in T}
        OBVIOUS
      <4> QED
        BY <2>8, <4>1
    <3>2. (\A u \in T : sock'[u] \in {0, -1}) /\ \A u \in Holder \ T : sock'[u] = sock[u]
      BY <1>1, <2>8
    <3>3. T \in SUBSET Holder
      OBVIOUS
    <3> QED
      BY <3>1, <3>2, <3>3, <3>4, Release
  <2>9. CASE PassiveDone(s) \/ ListDone(s) \/ Leave(s)
    BY <2>0, <2>8, <2>9 DEF PassiveDone, ListDone, Leave, ClosedSocket
  <2>12. CASE SendListing(s)
    BY <2>0, <2>8, <2>12 DEF SendListing
  <2>10. CASE command_list(s) \/ command_stor(s)
    <3>1. PICK f \in Fd \union {-1} :
            (NewFd(f) \/ f = -1) /\ fd' = With(f, File(s)) /\ sock' = [sock EXCEPT ![File(s)] = f]
      BY <2>10 DEF command_list, command_stor, Open
    <3>2. Vacant(f)
      BY <3>1, NewFdIsVacant DEF Vacant, Fd
    <3> QED
      BY <2>0, <3>1, <3>2, Acquire DEF Proper
  <2>11. CASE StoreDone(s)
    <3> DEFINE T == {File(s), Data(s)}
    <3>1. fd' = Closed({sock[u] : u \in T})
          /\ sock' = [sock EXCEPT ![File(s)] = -1, ![Data(s)] = 0]
      <4>1. {sock[File(s)], sock[Data(s)]} = {sock[u] : u \in T}
        OBVIOUS
      <4> QED
        BY <2>11, <4>1 DEF StoreDone, ClosedSocket
    <3>2. sock' \in [Holder -> Fd \union {-1}] /\ (\A t \in T : sock'[t] \in {0, -1})
          /\ \A t \in Holder \ T : sock'[t] = sock[t]
      BY <1>1, <2>0, <3>1, DescriptorAssumption DEF Fd
    <3>3. T \in SUBSET Holder
      BY <2>0
    <3> QED
      BY <3>1, <3>2, <3>3, Release
  <2> QED
    BY <1>7, <2>1, <2>2, <2>3, <2>4, <2>5, <2>6, <2>7, <2>9, <2>10, <2>11, <2>12 DEF Thread
<1> QED
  BY <1>2, <1>3, <1>4, <1>5, <1>6, <1>7 DEF Next, AcceptLoop, vars

-----------------------------------------------------------------------------
CrossInv == OwnInv /\ CrossTalkNeedsStdin

\* With standard input in its place, what a thread's own channels refer to is theirs.
LEMMA NoStray ==
  ASSUME OwnInv, fd[0] = Stdin, NEW s \in Session, NEW T \in SUBSET {Ctl(s), Data(s)}
  PROVE  ~ Strays(T)
<1> SUFFICES ASSUME NEW t \in T, sock[t] \in Fd, fd[sock[t]][1] \in {"control", "data"}
             PROVE  fd[sock[t]] = t
  BY DEF Strays
<1>1. t \in Holder /\ t # Incoming
  BY Names
<1>2. Stdin[1] \notin {"control", "data"} /\ Raw[1] \notin {"control", "data"}
  BY DEF Stdin, Raw
<1>3. sock[t] # 0
  BY <1>2
<1> QED
  BY <1>1, <1>2, <1>3 DEF OwnInv, OwnDescriptor, Proper

\* Nothing puts standard input back, so where it is now it was before.
LEMMA StdinNotRestored ==
  ASSUME OwnInv, [Next]_vars, fd'[0] = Stdin
  PROVE  fd[0] = Stdin
<1>1. 0 \in Fd /\ fd \in [Fd -> Object]
  BY DescriptorAssumption DEF Fd, OwnInv, TypeOK
<1>2. /\ Stdin # Free /\ Stdin # Raw /\ \A p \in Session \union {Server} : Stdin # Reserved(p)
      /\ \A s \in Session : Stdin \notin {Ctl(s), Data(s), Pasv(s), File(s)}
  BY DEF Stdin, Free, Raw, Reserved, Ctl, Data, Pasv, File
<1>3. ASSUME NEW f, NEW o, fd' = With(f, o), o # Stdin PROVE fd[0] = Stdin
  BY <1>1, <1>3 DEF With
<1>4. ASSUME NEW F, fd' = Closed(F) PROVE fd[0] = Stdin
  BY <1>1, <1>2, <1>4 DEF Closed
<1>5. CASE AcceptLoop
  BY <1>1, <1>2, <1>3, <1>5 DEF AcceptLoop, ConstructConnection, AcceptCall, AcceptReturn, Spawn
<1>6. ASSUME NEW s \in Session, Thread(s) PROVE fd[0] = Stdin
  <2>1. CASE Greet(s) \/ Reply(s)
    BY <2>1 DEF Greet, Reply
  <2>2. CASE command_port(s) \/ command_pasv(s) \/ EnterPassive(s) \/ command_list(s)
             \/ command_stor(s)
    BY <1>2, <1>3, <2>2 DEF command_port, command_pasv, EnterPassive, command_list, command_stor,
                            Open
  <2>3. CASE BindAttempt(s)
    BY <1>2, <1>3, <2>3 DEF BindAttempt
  <2>4. CASE connect(s) \/ PassiveAccept(s)
    BY <1>1, <1>2, <2>4 DEF connect, PassiveAccept
  <2>5. CASE PassiveDone(s) \/ SendListing(s) \/ ListDone(s) \/ StoreDone(s) \/ Leave(s)
    BY <1>4, <2>5 DEF PassiveDone, SendListing, ListDone, StoreDone, Leave
  <2> QED
    BY <1>6, <2>1, <2>2, <2>3, <2>4, <2>5 DEF Thread
<1> QED
  BY <1>5, <1>6 DEF Next, vars

\* A step crosses over to a foreign connection only once standard input is gone.
LEMMA StepCross ==
  ASSUME CrossInv, [Next]_vars
  PROVE  CrossTalkNeedsStdin'
<1> SUFFICES ASSUME fd'[0] = Stdin PROVE ~ strayed'
  BY DEF CrossTalkNeedsStdin
<1>1. OwnInv /\ fd[0] = Stdin /\ ~ strayed
  BY StdinNotRestored DEF CrossInv, CrossTalkNeedsStdin
<1>2. CASE AcceptLoop \/ UNCHANGED vars
  BY <1>1, <1>2 DEF AcceptLoop, ConstructConnection, AcceptCall, AcceptReturn, Spawn, vars
<1>3. ASSUME NEW s \in Session, Thread(s) PROVE ~ strayed'
  <2>1. ~ Strays({Ctl(s)}) /\ ~ Strays({Data(s)}) /\ ~ Strays({Ctl(s), Data(s)})
    BY <1>1, NoStray
  <2>2. CASE Greet(s) \/ Reply(s) \/ connect(s) \/ EnterPassive(s) \/ ListDone(s)
             \/ command_stor(s)
    BY <1>1, <2>1, <2>2 DEF Greet, Reply, connect, EnterPassive, ListDone, command_stor, Push
  <2>3. CASE BindAttempt(s) \/ PassiveDone(s) \/ StoreDone(s)
    BY <1>1, <2>1, <2>3 DEF BindAttempt, PassiveDone, StoreDone, Push
  <2>4. CASE command_port(s) \/ command_pasv(s) \/ PassiveAccept(s) \/ command_list(s) \/ Leave(s)
    BY <1>1, <2>4 DEF command_port, command_pasv, PassiveAccept, command_list, Leave
  <2>5. CASE SendListing(s)
    <3> DEFINE T == {Ctl(s), Data(s)}
    <3>1. \A t \in T : sock'[t] = sock[t]
      BY <1>1, <2>5, Names DEF SendListing, OwnInv, TypeOK
    <3>2. \A f \in Fd : fd'[f] = fd[f] \/ fd'[f] = Free
      BY <2>5 DEF SendListing, Closed
    <3>3. Free[1] \notin {"control", "data"}
      BY DEF Free
    <3>4. ~ Strays(T)'
      BY <2>1, <3>1, <3>2, <3>3 DEF Strays
    <3> QED
      BY <1>1, <2>5, <3>4 DEF SendListing
  <2> QED
    BY <1>3, <2>2, <2>3, <2>4, <2>5 DEF Thread
<1> QED
  BY <1>2, <1>3 DEF Next

\* The strengthened invariant holds throughout.
LEMMA InvariantHolds == Spec => []CrossInv
<1>1. Init => CrossTalkNeedsStdin
  BY DEF Init, CrossTalkNeedsStdin
<1>2. CrossInv /\ [Next]_vars => CrossInv'
  BY StepOwn, StepCross DEF CrossInv
<1> QED
  BY <1>1, <1>2, InitOwn, PTL DEF Spec, CrossInv

\* The table, the transports and the threads keep their types; PASV stops at its bound.
THEOREM TypeCorrect == Spec => []TypeOK
BY InvariantHolds, PTL DEF CrossInv, OwnInv

\* Apart from 0, no descriptor is ever held by two transports, nor held after it was
\* closed or given to somebody else.
THEOREM OwnershipKept == Spec => []OwnDescriptor
BY InvariantHolds, PTL DEF CrossInv, OwnInv

\* As long as nobody has closed standard input, no listing, upload or reply touches
\* another client's connection.
THEOREM IsolationUntilStdinCloses == Spec => []CrossTalkNeedsStdin
BY InvariantHolds, PTL DEF CrossInv

-----------------------------------------------------------------------------
(* What gets lost. *)

\* Outside PASV a session has no listener, outside LIST and STOR no folder and no file.
Passive == {"binding", "passive", "accepting", "passiveClose"}

Quiet(s) ==
  /\ pc[s] \notin Passive => sock[Pasv(s)] = 0
  /\ pc[s] \notin {"reading", "storing"} => sock[File(s)] = -1

\* What is open under the name of a transport other than a data channel is still held by
\* that transport, or, before its session is there, by client_connection.
Kept(f, s) ==
  /\ fd[f] = Ctl(s) =>
       \/ sock[Ctl(s)] = f /\ pc[s] \notin {"unborn", "done"}
       \/ sock[Incoming] = f /\ serverPc = "spawn" /\ pc[s] = "unborn"
  /\ fd[f] = Pasv(s) => sock[Pasv(s)] = f /\ pc[s] \in {"passive", "accepting", "passiveClose"}
  /\ fd[f] = File(s) => sock[File(s)] = f /\ pc[s] \in {"reading", "storing"}

ServerKept(f) == fd[f] # Stdin /\ (fd[f] = Listener => sock[Listener] = f)

LostInv ==
  /\ \A s \in Session : Quiet(s)
  /\ \A f \in Fd \ {0} : ServerKept(f) /\ \A s \in Session : Kept(f, s)

\* What the table can contain is told apart by its name as well.
LEMMA Distinct ==
  /\ Listener \notin {Free, Stdin, Raw} /\ Stdin \notin {Free, Raw}
  /\ \A p \in Session \union {Server} : Reserved(p) \notin {Listener, Stdin}
  /\ \A s, r \in Session :
       /\ {Ctl(s), Pasv(s), File(s)} \intersect {Free, Raw, Data(r), Reserved(r), Reserved(Server)} = {}
       /\ {Ctl(s), Data(s), Pasv(s), File(s)} \intersect {Listener, Stdin} = {}
       /\ s # r => Pasv(s) # Pasv(r) /\ File(s) # File(r)
BY DescriptorAssumption DEF Ctl, Data, Pasv, File, Listener, Free, Stdin, Raw, Reserved

\* A step that leaves a descriptor, or makes it something that no conjunct speaks of, and
\* that keeps its owner in place keeps what is said of it.
LEMMA KeptFrame ==
  ASSUME NEW f, NEW s, ServerKept(f), Kept(f, s),
         fd'[f] = fd[f] \/ fd'[f] \notin {Ctl(s), Pasv(s), File(s), Listener, Stdin},
         UNCHANGED <<sock[Listener], sock[Ctl(s)], sock[Incoming], serverPc>>,
         pc'[s] = pc[s] \/ {pc[s], pc'[s]} \intersect {"unborn", "done"} = {},
         fd'[f] = Pasv(s) => UNCHANGED sock[Pasv(s)] /\ pc'[s] \in {"passive", "accepting", "passiveClose"},
         fd'[f] = File(s) => UNCHANGED sock[File(s)] /\ pc'[s] \in {"reading", "storing"}
  PROVE  ServerKept(f)' /\ Kept(f, s)'
BY DEF ServerKept, Kept

\* Nothing but the listener is open at the start.
LEMMA InitLost == Init => LostInv
<1> SUFFICES ASSUME Init PROVE LostInv
  OBVIOUS
<1>1. ASSUME NEW s \in Session PROVE Quiet(s)
  BY Names, DescriptorAssumption DEF Init, Quiet, Pasv, File, Listener, Passive
<1>2. ASSUME NEW f \in Fd \ {0} PROVE ServerKept(f) /\ \A s \in Session : Kept(f, s)
  <2>1. fd[f] \in {Raw, Free} \/ (f = 2 /\ fd[f] = Listener)
    BY <1>2 DEF Init
  <2>2. sock[Listener] = 2
    BY Names DEF Init
  <2> QED
    BY <2>1, <2>2, Distinct DEF ServerKept, Kept
<1> QED
  BY <1>1, <1>2 DEF LostInv

\* A session's step keeps what is said of its own descriptors and of those of others.
LEMMA ThreadLost ==
  ASSUME TypeOK, LostInv, NEW r \in Session, Thread(r), NEW f \in Fd \ {0}, NEW s \in Session
  PROVE  ServerKept(f)' /\ Kept(f, s)'
<1>0. /\ fd \in [Fd -> Object] /\ sock \in [Holder -> Fd \union {-1}] /\ pc \in [Session -> Phase]
      /\ ServerKept(f) /\ Kept(f, s)
  BY DEF TypeOK, LostInv
<1>1. /\ \A c \in Session : {Ctl(c), Data(c), Pasv(c), File(c)} \subseteq Holder
      /\ {Incoming, Listener} \subseteq Holder
      /\ {Ctl(r), Data(r), Pasv(r), File(r)} \intersect {Incoming, Listener} = {}
      /\ {Data(r), Pasv(r), File(r)} \intersect {Ctl(s)} = {}
      /\ Data(r) \notin {Pasv(s), File(s)} /\ Pasv(r) # File(s) /\ File(r) # Pasv(s)
      /\ r # s => Pasv(r) # Pasv(s) /\ File(r) # File(s) /\ Ctl(r) # Ctl(s)
      /\ Ctl(r) \notin {Pasv(s), File(s)}
  BY Names, Distinct DEF Listener, Ctl, Data, Pasv, File
<1> DEFINE Unnamed(o) == o \notin {Ctl(s), Pasv(s), File(s), Listener, Stdin}
<1>2. Unnamed(Free) /\ Unnamed(Raw) /\ Unnamed(Data(r)) /\ Unnamed(Reserved(r))
  BY Distinct
<1>3. r # s => Unnamed(Pasv(r)) /\ Unnamed(File(r))
  BY <1>1, Distinct
<1>4. ASSUME NEW F, fd' = Closed(F) PROVE fd'[f] = fd[f] \/ fd'[f] = Free
  BY <1>4 DEF Closed
<1>5. ASSUME NEW g, NEW o, fd' = With(g, o) PROVE fd'[f] = fd[f] \/ (g = f /\ fd'[f] = o)
  BY <1>0, <1>5 DEF With
<1> HIDE DEF Unnamed
<1> USE DEF Running, Goto
<1>6. CASE Greet(r) \/ Reply(r)
  BY <1>0, <1>6, KeptFrame DEF Greet, Reply, Kept
<1>7. CASE command_port(r) \/ command_pasv(r)
  <2>1. PICK g \in Fd \union {-1}, t \in {Data(r), Pasv(r)} : fd' = With(g, Raw) /\ sock' = [sock EXCEPT ![t] = g]
    BY <1>7 DEF command_port, command_pasv
  <2>2. fd'[f] = fd[f] \/ Unnamed(fd'[f])
    BY <1>2, <1>5, <2>1
  <2>3. pc[r] = "idle" /\ pc' = [pc EXCEPT ![r] = pc'[r]] /\ pc'[r] \in {"connecting", "binding"}
        /\ UNCHANGED serverPc
    BY <1>0, <1>7 DEF command_port, command_pasv
  <2>4. s = r => fd[f] \notin {Pasv(s), File(s)}
    BY <1>0, <2>3 DEF Kept
  <2>5. /\ UNCHANGED <<sock[Listener], sock[Ctl(s)], sock[Incoming], sock[File(s)]>>
        /\ s # r => UNCHANGED <<pc[s], sock[Pasv(s)]>>
    BY <1>0, <1>1, <2>1, <2>3
  <2> QED
    BY <1>0, <2>2, <2>3, <2>4, <2>5, KeptFrame DEF Unnamed, Kept
<1>8. CASE connect(r) \/ EnterPassive(r)
  <2>1. fd'[f] = fd[f] \/ Unnamed(fd'[f])
    <3>1. CASE connect(r)
      BY <1>0, <1>2, <3>1 DEF connect
    <3>2. CASE EnterPassive(r)
      BY <1>2, <1>5, <3>2 DEF EnterPassive
    <3> QED
      BY <1>8, <3>1, <3>2
  <2>2. /\ UNCHANGED <<sock, serverPc>>
        /\ \/ pc[r] = "connecting" /\ pc' = [pc EXCEPT ![r] = "idle"]
           \/ pc[r] = "passive" /\ \E l \in {"accepting", "passiveClose"} : pc' = [pc EXCEPT ![r] = l]
    BY <1>8 DEF connect, EnterPassive
  <2> QED
    BY <1>0, <2>1, <2>2, KeptFrame DEF Unnamed, Kept
<1>9. CASE BindAttempt(r)
  <2>1. PICK g \in Fd \union {-1} :
          \/ /\ g # -1 /\ fd' = With(g, Pasv(r)) /\ sock' = [sock EXCEPT ![Pasv(r)] = g]
             /\ pc' = [pc EXCEPT ![r] = "passive"]
          \/ fd' = With(g, Raw) /\ sock' = [sock EXCEPT ![Pasv(r)] = g] /\ UNCHANGED pc
          \/ fd' = With(g, Raw) /\ sock' = [sock EXCEPT ![Pasv(r)] = 0] /\ pc' = [pc EXCEPT ![r] = "idle"]
    BY <1>9 DEF BindAttempt
  <2>2. pc[r] = "binding" /\ UNCHANGED serverPc
    BY <1>9 DEF BindAttempt
  <2>3. s = r => fd[f] \notin {Pasv(s), File(s)}
    BY <1>0, <2>2 DEF Kept
  <2>4. sock'[Pasv(s)] = sock[Pasv(s)] \/ s = r
    BY <1>0, <1>1, <2>1
  <2>5. UNCHANGED <<sock[Listener], sock[Ctl(s)], sock[Incoming], sock[File(s)]>>
    BY <1>0, <1>1, <2>1
  <2>6. CASE fd'[f] = fd[f] \/ Unnamed(fd'[f])
    BY <1>0, <2>1, <2>2, <2>3, <2>4, <2>5, <2>6, KeptFrame DEF Unnamed, Kept
  <2>7. CASE ~ (fd'[f] = fd[f] \/ Unnamed(fd'[f]))
    <3>1. /\ g = f /\ fd'[f] = Pasv(r) /\ s = r
          /\ sock'[Pasv(r)] = f /\ pc'[r] = "passive"
      BY <1>0, <1>1, <1>2, <1>3, <1>5, <2>1, <2>7
    <3> QED
      BY <3>1, <1>1, Distinct DEF ServerKept, Kept
  <2> QED
    BY <2>6, <2>7
<1>10. CASE PassiveAccept(r)
  <2>1. fd'[f] = fd[f] \/ Unnamed(fd'[f])
    BY <1>0, <1>2, <1>10 DEF PassiveAccept
  <2>2. /\ pc[r] = "accepting" /\ pc' = [pc EXCEPT ![r] = "passiveClose"] /\ UNCHANGED serverPc
        /\ \E g \in Fd : sock' = [sock EXCEPT ![Data(r)] = g]
    BY <1>10 DEF PassiveAccept
  <2>3. UNCHANGED <<sock[Listener], sock[Ctl(s)], sock[Incoming], sock[Pasv(s)], sock[File(s)]>>
    BY <1>0, <1>1, <2>2
  <2>4. pc'[s] = pc[s] \/ (pc[s] = "accepting" /\ pc'[s] = "passiveClose")
    BY <1>0, <2>2
  <2> QED
    BY <1>0, <2>1, <2>2, <2>3, <2>4, KeptFrame DEF Unnamed, Kept
<1>11. CASE PassiveDone(r) \/ ListDone(r) \/ SendListing(r) \/ StoreDone(r) \/ Leave(r)
  <2>1. /\ fd'[f] = fd[f] \/ Unnamed(fd'[f])
        /\ UNCHANGED serverPc
        /\ \A c \in Session \ {r} : pc'[c] = pc[c]
        /\ \A t \in Holder \ {Ctl(r), Data(r), Pasv(r), File(r)} : sock'[t] = sock[t]
    BY <1>0, <1>2, <1>4, <1>11 DEF PassiveDone, ListDone, SendListing, StoreDone, Leave
  <2>2. CASE s # r
    <3>1. {Ctl(s), Pasv(s), File(s), Incoming, Listener}
             \intersect {Ctl(r), Data(r), Pasv(r), File(r)} = {}
      BY <1>1, <2>2, Names
    <3>2. UNCHANGED <<sock[Listener], sock[Ctl(s)], sock[Incoming], sock[Pasv(s)], sock[File(s)]>>
      BY <1>1, <2>1, <3>1
    <3> QED
      BY <1>0, <2>1, <2>2, <3>2, KeptFrame DEF Unnamed, Kept
  <2>3. CASE s = r /\ (PassiveDone(r) \/ SendListing(r) \/ ListDone(r) \/ StoreDone(r))
    <3>1. UNCHANGED <<sock[Listener], sock[Ctl(s)], sock[Incoming]>>
      BY <1>0, <1>1, <2>3 DEF PassiveDone, SendListing, ListDone, StoreDone
    <3>2. pc[s] \in {"passiveClose", "reading", "listed", "storing"} /\ pc'[s] \in {"idle", "listed"}
      BY <1>0, <2>3 DEF PassiveDone, SendListing, ListDone, StoreDone
    <3>3. fd'[f] # Pasv(s)
      <4>1. CASE pc[s] = "passiveClose"
        <5>1. fd' = Closed({sock[Pasv(s)]})
          BY <2>3, <4>1 DEF PassiveDone, SendListing, ListDone, StoreDone
        <5>2. Pasv(s)[1] # "reserved" /\ Pasv(s) # Free
          BY DEF Pasv, Free
        <5> QED
          BY <1>0, <5>1, <5>2 DEF Closed, Kept
      <4>2. CASE pc[s] # "passiveClose"
        BY <1>0, <2>1, <3>2, <4>2 DEF Kept, Unnamed
      <4> QED
        BY <4>1, <4>2
    <3>4. fd'[f] # File(s)
      <4>1. CASE pc[s] \in {"reading", "storing"}
        <5>1. \E F : fd' = Closed(F) /\ sock[File(s)] \in F
          BY <2>3, <4>1 DEF PassiveDone, SendListing, ListDone, StoreDone
        <5>2. File(s)[1] # "reserved" /\ File(s) # Free
          BY DEF File, Free
        <5> QED
          BY <1>0, <5>1, <5>2 DEF Closed, Kept
      <4>2. CASE pc[s] \notin {"reading", "storing"}
        BY <1>0, <2>1, <3>2, <4>2 DEF Kept, Unnamed
      <4> QED
        BY <4>1, <4>2
    <3> QED
      BY <1>0, <2>1, <3>1, <3>2, <3>3, <3>4, KeptFrame DEF Unnamed
  <2>4. CASE s = r /\ Leave(r)
    <3>1. /\ pc[s] = "idle" /\ fd' = Closed({sock[Ctl(s)]})
          /\ UNCHANGED sock[Listener]
      BY <1>0, <1>1, <2>4 DEF Leave
    <3>2. fd[f] \notin {Pasv(s), File(s)}
      BY <1>0, <3>1 DEF Kept
    <3>3. Ctl(s)[1] # "reserved" /\ Ctl(s) # Free
      BY DEF Ctl, Free
    <3>4. fd'[f] # Ctl(s)
      BY <1>0, <3>1, <3>3 DEF Closed, Kept
    <3> QED
      BY <1>0, <1>2, <2>1, <3>1, <3>2, <3>4 DEF Kept, ServerKept, Unnamed
  <2> QED
    BY <1>11, <2>2, <2>3, <2>4
<1>12. CASE command_list(r) \/ command_stor(r)
  <2>1. PICK g \in Fd \union {-1} : fd' = With(g, File(r)) /\ sock' = [sock EXCEPT ![File(r)] = g]
    BY <1>12 DEF command_list, command_stor, Open
  <2>2. /\ pc[r] = "idle" /\ UNCHANGED serverPc
        /\ pc' = [pc EXCEPT ![r] = "reading"] \/ pc' = [pc EXCEPT ![r] = "storing"]
    BY <1>12 DEF command_list, command_stor
  <2>3. s = r => fd[f] \notin {Pasv(s), File(s)}
    BY <1>0, <2>2 DEF Kept
  <2>4. UNCHANGED <<sock[Listener], sock[Ctl(s)], sock[Incoming], sock[Pasv(s)]>>
    BY <1>0, <1>1, <2>1
  <2>5. sock'[File(s)] = sock[File(s)] \/ s = r
    BY <1>0, <1>1, <2>1
  <2>6. CASE fd'[f] = fd[f] \/ Unnamed(fd'[f])
    BY <1>0, <2>2, <2>3, <2>4, <2>5, <2>6, KeptFrame DEF Unnamed, Kept
  <2>7. CASE ~ (fd'[f] = fd[f] \/ Unnamed(fd'[f]))
    <3>1. g = f /\ fd'[f] = File(r) /\ s = r /\ sock'[File(r)] = f /\ pc'[r] \in {"reading", "storing"}
      BY <1>0, <1>1, <1>2, <1>3, <1>5, <2>1, <2>2, <2>7
    <3> QED
      BY <3>1, <1>1, Distinct DEF ServerKept, Kept
  <2> QED
    BY <2>6, <2>7
<1> QED
  BY <1>6, <1>7, <1>8, <1>9, <1>10, <1>11, <1>12 DEF Thread

\* The accept loop keeps it, too: a connection that it accepted is client_connection's, then
\* the session's.
LEMMA AcceptLost ==
  ASSUME TypeOK, LostInv, AcceptLoop, NEW f \in Fd \ {0}, NEW s \in Session
  PROVE  ServerKept(f)' /\ Kept(f, s)'
<1>0. /\ fd \in [Fd -> Object] /\ sock \in [Holder -> Fd \union {-1}] /\ pc \in [Session -> Phase]
      /\ ServerKept(f) /\ Kept(f, s)
  BY DEF TypeOK, LostInv
<1>1. /\ \A c \in Session : {Ctl(c), Data(c), Pasv(c), File(c)} \subseteq Holder
      /\ {Incoming, Listener} \subseteq Holder /\ Incoming # Listener
      /\ \A c, d \in Session :
           /\ {Ctl(c), Data(c), Pasv(c), File(c)} \intersect {Incoming, Listener} = {}
           /\ {Ctl(c), Data(c)} \intersect {Pasv(d), File(d)} = {} /\ Ctl(c) # Data(d)
           /\ c # d => Ctl(c) # Ctl(d)
  BY Names, Distinct, DescriptorAssumption DEF Incoming, Listener
<1>2. \A p \in Session \union {Server} : Reserved(p) \notin {Ctl(s), Pasv(s), File(s), Listener, Stdin}
  BY Distinct DEF Reserved, Ctl, Pasv, File, Listener, Stdin
<1>3. ASSUME NEW g, NEW o, fd' = With(g, o) PROVE fd'[f] = fd[f] \/ (g = f /\ fd'[f] = o)
  BY <1>0, <1>3 DEF With
<1> USE DEF ServerAt, Goto
<1>4. CASE ConstructConnection
  <2>1. PICK g : fd' = With(g, Raw) /\ sock' = [sock EXCEPT ![Incoming] = g]
    BY <1>4 DEF ConstructConnection
  <2>2. serverPc = "construct" /\ serverPc' = "accept" /\ UNCHANGED pc
    BY <1>4 DEF ConstructConnection
  <2>3. UNCHANGED <<sock[Listener], sock[Ctl(s)], sock[Pasv(s)], sock[File(s)]>>
    BY <1>0, <1>1, <2>1
  <2>4. fd'[f] = fd[f] \/ fd'[f] = Raw
    BY <1>3, <2>1
  <2> QED
    BY <1>0, <2>2, <2>3, <2>4, Distinct DEF ServerKept, Kept
<1>5. CASE AcceptCall
  <2>1. fd'[f] = fd[f] \/ fd'[f] = Reserved(Server)
    BY <1>3, <1>5 DEF AcceptCall
  <2>2. serverPc = "accept" /\ UNCHANGED <<sock, pc>>
    BY <1>5 DEF AcceptCall
  <2> QED
    BY <1>0, <1>2, <2>1, <2>2 DEF ServerKept, Kept
<1>6. CASE AcceptReturn
  <2>1. PICK g \in Fd, c \in Session :
          /\ pc[c] = "unborn"
          /\ fd' = [fd EXCEPT ![g] = Ctl(c)]
          /\ sock' = [sock EXCEPT ![Incoming] = g]
    BY <1>6 DEF AcceptReturn
  <2>2. serverPc = "accepting" /\ serverPc' = "spawn" /\ UNCHANGED pc
    BY <1>6 DEF AcceptReturn
  <2>3. UNCHANGED <<sock[Listener], sock[Ctl(s)], sock[Pasv(s)], sock[File(s)]>> /\ sock'[Incoming] = g
    BY <1>0, <1>1, <2>1
  <2>4. CASE f = g
    <3>1. fd'[f] = Ctl(c) /\ Ctl(c) \notin {Pasv(s), File(s), Listener, Stdin}
      BY <1>0, <1>1, <2>1, <2>4, Distinct
    <3> QED
      BY <1>1, <2>1, <2>2, <2>3, <2>4, <3>1 DEF ServerKept, Kept
  <2>5. CASE f # g
    BY <1>0, <2>1, <2>2, <2>3, <2>5 DEF ServerKept, Kept
  <2> QED
    BY <2>4, <2>5
<1>7. CASE Spawn
  <2>1. PICK c \in Session, g \in Fd \union {-1} :
          /\ pc[c] = "unborn"
          /\ \A d \in Session : sock[Incoming] \in Fd /\ fd[sock[Incoming]] = Ctl(d) => d = c
          /\ fd' = With(g, Raw)
          /\ sock' = [sock EXCEPT ![Ctl(c)] = sock[Incoming], ![Incoming] = 0, ![Data(c)] = g]
          /\ pc' = [pc EXCEPT ![c] = "greet"]
    BY <1>7 DEF Spawn
  <2>2. UNCHANGED <<sock[Listener], sock[Pasv(s)], sock[File(s)]>>
    BY <1>0, <1>1, <2>1
  <2>3. fd'[f] = fd[f] \/ fd'[f] = Raw
    BY <1>3, <2>1
  <2>4. CASE s = c
    <3>1. pc[s] = "unborn" /\ pc'[s] = "greet" /\ sock'[Ctl(s)] = sock[Incoming]
      BY <1>0, <1>1, <2>1, <2>4
    <3> QED
      BY <1>0, <2>2, <2>3, <3>1, Distinct DEF ServerKept, Kept
  <2>5. CASE s # c
    <3>1. UNCHANGED <<pc[s], sock[Ctl(s)]>>
      BY <1>0, <1>1, <2>1, <2>5
    <3>2. fd[f] = Ctl(s) => sock[Incoming] # f
      BY <2>1, <2>5
    <3> QED
      BY <1>0, <2>2, <2>3, <3>1, <3>2, Distinct DEF ServerKept, Kept
  <2> QED
    BY <2>4, <2>5
<1> QED
  BY <1>4, <1>5, <1>6, <1>7 DEF AcceptLoop

\* Each step opens at most one descriptor, for the transport it names, and forgets only
\* sockets.
LEMMA StepLost ==
  ASSUME TypeOK, LostInv, [Next]_vars
  PROVE  LostInv'
<1>0. /\ fd \in [Fd -> Object] /\ sock \in [Holder -> Fd \union {-1}] /\ pc \in [Session -> Phase]
  BY DEF TypeOK
<1>1. \A s \in Session : {Ctl(s), Data(s), Pasv(s), File(s)} \subseteq Holder
  BY Names
<1>2. \A s \in Session : Quiet(s)
  BY DEF LostInv
<1>4. ASSUME NEW r \in Session, Thread(r), NEW s \in Session PROVE Quiet(s)'
  <2> USE DEF Quiet, Passive, Running, Goto, Ctl, Data, Pasv, File
  <2>1. CASE Greet(r) \/ Reply(r) \/ command_port(r) \/ connect(r)
    BY <1>0, <1>1, <1>2, <2>1 DEF Greet, Reply, command_port, connect
  <2>2. CASE command_pasv(r) \/ BindAttempt(r) \/ EnterPassive(r)
    BY <1>0, <1>1, <1>2, <2>2 DEF command_pasv, BindAttempt, EnterPassive
  <2>3. CASE PassiveAccept(r) \/ PassiveDone(r) \/ Leave(r)
    BY <1>0, <1>1, <1>2, <2>3 DEF PassiveAccept, PassiveDone, Leave, ClosedSocket
  <2>4. CASE command_list(r) \/ SendListing(r) \/ ListDone(r)
    BY <1>0, <1>1, <1>2, <2>4 DEF command_list, SendListing, ListDone, Open, ClosedSocket
  <2>5. CASE command_stor(r) \/ StoreDone(r)
    BY <1>0, <1>1, <1>2, <2>5 DEF command_stor, StoreDone, Open, ClosedSocket
  <2> QED
    BY <1>4, <2>1, <2>2, <2>3, <2>4, <2>5 DEF Thread
<1>5. ASSUME AcceptLoop, NEW s \in Session PROVE Quiet(s)'
  BY <1>0, <1>1, <1>2, <1>5 DEF AcceptLoop, ConstructConnection, AcceptCall, AcceptReturn, Spawn,
     Goto, Quiet, Passive, Ctl, Data, Pasv, File, Incoming
<1>6. ASSUME NEW s \in Session PROVE Quiet(s)'
  <2>1. CASE UNCHANGED vars
    BY <1>2, <2>1 DEF vars, Quiet
  <2> QED
    BY <1>4, <1>5, <2>1 DEF Next
<1>7. ASSUME NEW f \in Fd \ {0}, NEW s \in Session PROVE ServerKept(f)' /\ Kept(f, s)'
  <2>1. CASE UNCHANGED vars
    BY <2>1 DEF vars, LostInv, ServerKept, Kept
  <2> QED
    BY <2>1, ThreadLost, AcceptLost DEF Next
<1>8. ASSUME NEW f \in Fd \ {0} PROVE ServerKept(f)'
  <2>1. ServerKept(f)
    BY <1>8 DEF LostInv
  <2>2. CASE AcceptLoop
    <3>1. /\ UNCHANGED sock[Listener]
          /\ fd'[f] = fd[f] \/ fd'[f] \in {Raw, Reserved(Server)} \/ \E s \in Session : fd'[f] = Ctl(s)
      <4>1. Incoming # Listener /\ \A c \in Session : Listener \notin {Ctl(c), Data(c)}
        BY DEF Incoming, Listener, Ctl, Data
      <4>2. ASSUME NEW g, NEW o, fd' = With(g, o) PROVE fd'[f] \in {fd[f], o}
        BY <1>0, <4>2 DEF With
      <4>3. CASE ConstructConnection
        BY <1>0, <4>1, <4>2, <4>3, Names DEF ConstructConnection
      <4>4. CASE AcceptCall
        BY <4>2, <4>4 DEF AcceptCall
      <4>5. CASE AcceptReturn
        BY <1>0, <4>1, <4>5, Names DEF AcceptReturn
      <4>6. CASE Spawn
        BY <1>0, <4>1, <4>2, <4>6, Names DEF Spawn
      <4> QED
        BY <2>2, <4>3, <4>4, <4>5, <4>6 DEF AcceptLoop
    <3> QED
      BY <2>1, <3>1, Distinct DEF ServerKept
  <2>3. CASE UNCHANGED vars
    BY <2>1, <2>3 DEF vars, ServerKept
  <2>4. ASSUME NEW r \in Session, Thread(r) PROVE ServerKept(f)'
    BY <1>8, <2>4, ThreadLost
  <2> QED
    BY <2>2, <2>3, <2>4 DEF Next
<1> QED
  BY <1>6, <1>7, <1>8 DEF LostInv

DescriptorInv == CrossInv /\ LostInv

\* Both invariants together hold throughout.
LEMMA LossInvariant == Spec => []DescriptorInv
<1>1. DescriptorInv /\ [Next]_vars => LostInv'
  BY StepLost DEF DescriptorInv, CrossInv, OwnInv
<1> QED
  BY <1>1, InitLost, InvariantHolds, PTL DEF Spec, DescriptorInv

\* Only sockets that were never connected and data connections are ever lost, in any number
\* of sessions and through any reuse of descriptors.
THEOREM LossesAreSockets == Spec => []OnlySocketsAreLost
<1>1. ASSUME DescriptorInv PROVE OnlySocketsAreLost
  <2> SUFFICES ASSUME NEW f \in Lost, fd[f] # Raw, \A s \in Session : fd[f] # Data(s)
               PROVE  FALSE
    BY DEF OnlySocketsAreLost
  <2>1. f \in Fd \ {0} /\ f \notin Held /\ fd[f] \in Object /\ fd[f][1] \notin {"free", "reserved"}
    BY <1>1 DEF Lost, DescriptorInv, CrossInv, OwnInv, TypeOK
  <2>2. ServerKept(f) /\ \A s \in Session : Kept(f, s)
    BY <1>1, <2>1 DEF DescriptorInv, LostInv
  <2>3. fd[f] = Listener \/ \E s \in Session : fd[f] \in {Ctl(s), Pasv(s), File(s)}
    BY <2>1, <2>2 DEF Object, Holder, ServerKept, Free, Stdin, Listener, Incoming, Ctl, Pasv, File, Data
  <2>4. ASSUME NEW t \in Holder, sock[t] = f, t[2] \in Session => pc[t[2]] # "done"
        PROVE  FALSE
    BY <2>1, <2>4 DEF Held
  <2>5. /\ Incoming \in Holder /\ Listener \in Holder /\ Incoming[2] \notin Session
        /\ Listener[2] \notin Session
        /\ \A s \in Session : /\ {Ctl(s), Pasv(s), File(s)} \subseteq Holder
                              /\ Ctl(s)[2] = s /\ Pasv(s)[2] = s /\ File(s)[2] = s
    BY Names, DescriptorAssumption DEF Incoming, Listener, Ctl, Pasv, File
  <2>6. CASE fd[f] = Listener
    BY <2>2, <2>4, <2>5, <2>6 DEF ServerKept
  <2>7. ASSUME NEW s \in Session, fd[f] \in {Ctl(s), Pasv(s), File(s)} PROVE FALSE
    BY <2>2, <2>4, <2>5, <2>7 DEF Kept
  <2> QED
    BY <2>3, <2>6, <2>7
<1> QED
  BY <1>1, LossInvariant, PTL

\* Closing what some transports hold loses nothing, as long as the others stay what they are.
LEMMA CloseLosesNothing ==
  ASSUME TypeOK, NEW T \in SUBSET Holder, fd' = Closed({sock[t] : t \in T}),
         \A t \in Holder \ T : sock'[t] = sock[t],
         \A s \in Session : pc'[s] = "done" => pc[s] = "done"
  PROVE  Lost' \subseteq Lost
<1>1. Free[1] = "free"
  BY DEF Free
<1>2. \A g \in Fd : fd'[g] = fd[g] \/ fd'[g] = Free
  BY DEF Closed
<1>3. \A t \in T : sock[t] \in Fd => fd'[sock[t]][1] \in {"free", "reserved"}
  BY <1>1 DEF Closed
<1>4. SUFFICES ASSUME NEW f \in Lost', f \in Held PROVE FALSE
  BY <1>1, <1>2 DEF Lost
<1>5. PICK t \in Holder : sock[t] = f /\ (t[2] \in Session => pc[t[2]] # "done")
  BY <1>4 DEF Held
<1>6. f \in Fd /\ f \notin Held' /\ fd'[f][1] \notin {"free", "reserved"}
  BY <1>4 DEF Lost
<1>7. t \notin T
  BY <1>3, <1>5, <1>6
<1> QED
  BY <1>5, <1>6, <1>7 DEF Held

\* A thread that ends gives up its transports: the control channel it closes, and of the
\* others only the data channel holds anything.
LEMMA LeaveLosesData ==
  ASSUME DescriptorInv, NEW s \in Session, Leave(s)
  PROVE  Lost' \subseteq Lost \union {sock[Data(s)]}
<1>1. /\ TypeOK /\ Quiet(s) /\ pc[s] = "idle"
      /\ pc' = [pc EXCEPT ![s] = "done"]
      /\ fd' = Closed({sock[Ctl(s)]})
      /\ sock' = [sock EXCEPT ![Ctl(s)] = 0]
  BY DEF DescriptorInv, CrossInv, OwnInv, LostInv, Leave, Running, Goto, ClosedSocket
<1>2. pc \in [Session -> Phase] /\ sock \in [Holder -> Fd \union {-1}]
  BY <1>1 DEF TypeOK
<1>3. sock[Pasv(s)] = 0 /\ sock[File(s)] = -1
  BY <1>1 DEF Quiet, Passive
<1>4. \A g \in Fd : fd'[g] = fd[g] \/ fd'[g] = Free
  BY <1>1 DEF Closed
<1>5. Free[1] = "free"
  BY DEF Free
<1>6. SUFFICES ASSUME NEW f \in Lost', f \in Held, f # sock[Data(s)] PROVE FALSE
  BY <1>4, <1>5 DEF Lost
<1>7. PICK t \in Holder : sock[t] = f /\ (t[2] \in Session => pc[t[2]] # "done")
  BY <1>6 DEF Held
<1>8. f \in Fd \ {0} /\ f \notin Held' /\ fd'[f][1] \notin {"free", "reserved"}
  BY <1>6 DEF Lost
<1>9. t # Ctl(s)
  BY <1>1, <1>5, <1>7, <1>8 DEF Closed
<1>10. t \notin {Data(s), Pasv(s), File(s)}
  BY <1>3, <1>6, <1>7, <1>8 DEF Fd
<1>11. t[2] # s
  BY <1>9, <1>10, DescriptorAssumption DEF Holder, Ctl, Data, Pasv, File, Incoming, Listener
<1>12. sock'[t] = f /\ (t[2] \in Session => pc'[t[2]] # "done")
  BY <1>1, <1>2, <1>7, <1>9, <1>11
<1> QED
  BY <1>8, <1>12 DEF Held

\* A data command loses nothing at its end, and a thread nothing but its data channel.
THEOREM TransfersCloseTheirs == Spec => TransfersDoNotLeak
<1> DEFINE Tidy == \A s \in Session : pc'[s] # pc[s] =>
                     /\ pc[s] \in {"passiveClose", "reading", "listed", "storing"} => Lost' \subseteq Lost
                     /\ pc'[s] = "done" => Lost' \subseteq Lost \union {sock[Data(s)]}
<1>1. ASSUME DescriptorInv, [Next]_vars PROVE Tidy
  <2> SUFFICES ASSUME NEW s \in Session, pc'[s] # pc[s],
                      pc[s] \in {"passiveClose", "reading", "listed", "storing"} \/ pc'[s] = "done"
               PROVE  /\ pc'[s] # "done" => Lost' \subseteq Lost
                      /\ pc'[s] = "done" => pc[s] = "idle" /\ Lost' \subseteq Lost \union {sock[Data(s)]}
    OBVIOUS
  <2>1. TypeOK /\ pc \in [Session -> Phase] /\ sock \in [Holder -> Fd \union {-1}]
    BY <1>1 DEF DescriptorInv, CrossInv, OwnInv, TypeOK
  <2>2. ~ AcceptLoop /\ ~ UNCHANGED vars
    BY <2>1 DEF AcceptLoop, ConstructConnection, AcceptCall, AcceptReturn, Spawn, Goto, vars
  <2>3. PICK r \in Session : Thread(r)
    BY <1>1, <2>2 DEF Next
  <2>4. r = s /\ (PassiveDone(r) \/ SendListing(r) \/ ListDone(r) \/ StoreDone(r) \/ Leave(r))
    BY <2>1, <2>3 DEF Thread, Running, Goto, Greet, Reply, command_port, connect, command_pasv,
                      BindAttempt, EnterPassive, PassiveAccept, PassiveDone, command_list, SendListing,
                      ListDone, command_stor, StoreDone, Leave
  <2>5. CASE Leave(s)
    BY <1>1, <2>1, <2>5, LeaveLosesData DEF Leave, Running, Goto
  <2>6. ASSUME ~ Leave(s)
        PROVE  \A c \in Session : pc'[c] = "done" => pc[c] = "done"
    BY <2>1, <2>4, <2>6 DEF PassiveDone, SendListing, ListDone, StoreDone, Goto
  <2>7. pc'[s] # "done" \/ Leave(s)
    BY <2>1, <2>4 DEF PassiveDone, SendListing, ListDone, StoreDone, Goto
  <2>8. ASSUME NEW t \in Holder, NEW n, fd' = Closed({sock[t]}), sock' = [sock EXCEPT ![t] = n],
               ~ Leave(s)
        PROVE  Lost' \subseteq Lost
    <3> DEFINE T == {t}
    <3>1. {sock[t]} = {sock[u] : u \in T}
      OBVIOUS
    <3>2. T \in SUBSET Holder /\ (\A u \in Holder \ T : sock'[u] = sock[u])
      BY <2>1, <2>8
    <3> QED
      BY <2>1, <2>6, <2>8, <3>1, <3>2, CloseLosesNothing
  <2>9. CASE PassiveDone(s) \/ ListDone(s) \/ SendListing(s)
    BY <2>7, <2>8, <2>9, <2>5, Names DEF PassiveDone, ListDone, SendListing, ClosedSocket
  <2>10. CASE StoreDone(s)
    <3> DEFINE T == {File(s), Data(s)}
    <3>1. {sock[File(s)], sock[Data(s)]} = {sock[u] : u \in T}
      OBVIOUS
    <3>2. fd' = Closed({sock[u] : u \in T}) /\ \A u \in Holder \ T : sock'[u] = sock[u]
      BY <2>1, <2>10, <3>1 DEF StoreDone
    <3>3. T \in SUBSET Holder
      BY Names
    <3> QED
      BY <2>1, <2>5, <2>6, <2>7, <3>2, <3>3, CloseLosesNothing
  <2> QED
    BY <2>4, <2>5, <2>9, <2>10
<1>2. DescriptorInv /\ [Next]_vars => [Tidy]_vars
  BY <1>1
<1> QED
  BY <1>2, LossInvariant, PTL DEF Spec, TransfersDoNotLeak

=============================================================================
