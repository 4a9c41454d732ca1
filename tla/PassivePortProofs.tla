--------------------------- MODULE PassivePortProofs ---------------------------
(***************************************************************************)
(* Theorems about PassivePort: the port a client is told is its listener's,  *)
(* for any size of a byte and however far the counter has grown.            *)
(***************************************************************************)
EXTENDS PassivePort, TLAPS

-----------------------------------------------------------------------------
(* Two bytes of a number. *)

\* A multiple of m that lies between -m and m is 0.
LEMMA SmallMultiple ==
  ASSUME NEW m \in Nat \ {0}, NEW k \in Int, - m < m * k, m * k < m
  PROVE  k = 0
<1>1. ASSUME k >= 1 PROVE FALSE
  <2>1. m * k = m * (k - 1) + m BY SMT
  <2>2. m * (k - 1) >= 0 BY <1>1, SMT
  <2> QED BY <2>1, <2>2, SMT
<1>2. ASSUME k <= -1 PROVE FALSE
  <2>1. m * k = m * (k + 1) - m BY SMT
  <2>2. m * (k + 1) <= 0 BY <1>2, SMT
  <2> QED BY <2>1, <2>2, SMT
<1> QED BY <1>1, <1>2, SMT

\* What division leaves is the only remainder there is.
LEMMA RemainderUnique ==
  ASSUME NEW m \in Nat \ {0}, NEW q \in Nat, NEW r \in Nat, r < m
  PROVE  (m * q + r) % m = r
<1> DEFINE n == m * q + r
           d == n \div m
           e == n % m
<1>1. n \in Nat BY SMT
<1>2. d \in Nat /\ e \in 0 .. m - 1 /\ n = m * d + e BY <1>1, SMT
<1>3. m * (q - d) = e - r
  <2>1. m * (q - d) = m * q - m * d BY <1>2, SMT
  <2>2. m * q + r = m * d + e BY <1>2
  <2>3. m * q \in Int /\ m * d \in Int BY <1>2, SMT
  <2> HIDE DEF d, e
  <2> QED BY <2>1, <2>2, <2>3, <1>2, SMT
<1>4. q - d = 0
  <2>1. - m < m * (q - d) /\ m * (q - d) < m BY <1>2, <1>3, SMT
  <2>2. q - d \in Int BY <1>2, SMT
  <2> HIDE DEF d, e
  <2> QED BY <2>1, <2>2, SmallMultiple
<1>5. e = r
  <2> HIDE DEF d, e
  <2>1. m * (q - d) = 0 BY <1>4, SMT
  <2> QED BY <2>1, <1>2, <1>3, SMT
<1> QED BY <1>5

\* The two numbers of the reply are the port that htons makes of the counter's value.
LEMMA ToldBytes ==
  ASSUME NEW n \in Nat
  PROVE  PortTold(n) = n % (Byte * Byte)
<1> USE PortAssumption
<1> DEFINE h == n \div Byte
           l == n % Byte
           p == h \div Byte
           t == h % Byte
<1>1. h \in Nat /\ l \in 0 .. Byte - 1 /\ n = Byte * h + l BY SMT
<1>2. p \in Nat /\ t \in 0 .. Byte - 1 /\ h = Byte * p + t BY <1>1, SMT
<1>3. PortTold(n) = t * Byte + l BY DEF PortTold
<1> HIDE DEF h, l, p, t
<1>4. n = (Byte * Byte) * p + (t * Byte + l)
  <2>1. Byte * h = Byte * (Byte * p) + Byte * t BY <1>2, SMT
  <2>2. Byte * (Byte * p) = (Byte * Byte) * p BY <1>2, SMT
  <2>3. Byte * t = t * Byte BY <1>2, SMT
  <2>4. (Byte * Byte) * p \in Int /\ t * Byte \in Int BY <1>2, SMT
  <2> QED BY <2>1, <2>2, <2>3, <2>4, <1>1, SMT
<1>5. t * Byte + l < Byte * Byte /\ t * Byte + l \in Nat
  <2>1. t * Byte <= (Byte - 1) * Byte /\ t * Byte >= 0 BY <1>2, SMT
  <2>2. (Byte - 1) * Byte = Byte * Byte - Byte BY SMT
  <2>3. t * Byte \in Int /\ Byte * Byte \in Int BY <1>2, SMT
  <2> QED BY <2>1, <2>2, <2>3, <1>1, SMT
<1>6. Byte * Byte \in Nat \ {0} BY SMT
<1> QED BY <1>2, <1>3, <1>4, <1>5, <1>6, RemainderUnique

-----------------------------------------------------------------------------
(* The inductive invariant. *)

Listening(s) == pc[s] \in {"reply", "accept"}

\* A thread that binds has attempts left.
AttemptInv == \A s \in Session : pc[s] = "bind" => attempt[s] < PasvAttempts

\* A listener has the port that htons makes of the thread's number, or the kernel's.
ListenerInv ==
  \A s \in Session :
    Listening(s) => port[s] % (Byte * Byte) = 0 \/ bound[s] = port[s] % (Byte * Byte)

\* What a waiting client was told is made of the same number.
ToldInv == \A s \in Session : pc[s] = "accept" => told[s] = PortTold(port[s])

\* No two listeners have one port.
DistinctInv == \A s, t \in Session : s # t /\ bound[s] # 0 => bound[s] # bound[t]

Inv == TypeOK /\ AttemptInv /\ ListenerInv /\ ToldInv /\ DistinctInv

\* What a client may be told is a port or 0.
LEMMA ToldType == ASSUME NEW n \in Nat PROVE PortTold(n) \in Port \union {0}
<1> USE PortAssumption
<1>1. Byte * Byte \in Nat \ {0} BY SMT
<1>2. n % (Byte * Byte) \in 0 .. Byte * Byte - 1 BY <1>1, SMT
<1>3. PortTold(n) = n % (Byte * Byte) BY ToldBytes
<1>4. \A i \in 0 .. Byte * Byte - 1 : i \in Port \union {0} BY <1>1 DEF Port
<1> QED BY <1>2, <1>3, <1>4

\* Steps of a thread without a listener that bind none.
LEMMA UnboundSteps ==
  ASSUME Inv, NEW s \in Session, command_pasv(s) \/ Load(s) \/ Store(s)
  PROVE  Inv'
<1> USE PortAssumption DEF Goto
<1>0. /\ ~ Listening(s) /\ ~ Listening(s)' /\ pc'[s] # "accept"
      /\ UNCHANGED <<bound, told, busy>>
      /\ \A t \in Session \ {s} :
           pc'[t] = pc[t] /\ port'[t] = port[t] /\ attempt'[t] = attempt[t]
  BY DEF Inv, TypeOK, command_pasv, Load, Store, Listening
<1>1. pc' \in [Session -> {"idle", "load", "store", "bind", "reply", "accept"}]
  BY DEF Inv, TypeOK, command_pasv, Load, Store
<1>2. port' \in [Session -> Nat] /\ counter' \in Nat
  <2>1. CASE command_pasv(s) BY <2>1 DEF Inv, TypeOK, command_pasv
  <2>2. CASE Load(s) BY <2>2 DEF Inv, TypeOK, Load
  <2>3. CASE Store(s)
    <3>1. port[s] \in Nat /\ port[s] + 1 \in Nat BY DEF Inv, TypeOK
    <3> QED BY <2>3, <3>1 DEF Inv, TypeOK, Store
  <2> QED BY <2>1, <2>2, <2>3
<1>3. attempt' \in [Session -> 0 .. PasvAttempts]
  <2>1. 0 \in 0 .. PasvAttempts OBVIOUS
  <2> QED BY <2>1 DEF Inv, TypeOK, command_pasv, Load, Store
<1>4. \A t \in Session : bound'[t] # 0 <=> pc'[t] \in {"reply", "accept"}
  BY <1>0 DEF Inv, TypeOK, Listening
<1>5. TypeOK' BY <1>0, <1>1, <1>2, <1>3, <1>4 DEF Inv, TypeOK
<1>6. AttemptInv'
  <2>1. pc'[s] = "bind" => Store(s) /\ attempt' = attempt /\ ~ Exhausted(attempt[s])
    BY DEF Inv, TypeOK, command_pasv, Load, Store
  <2>2. pc'[s] = "bind" => attempt'[s] < PasvAttempts
    <3>1. attempt[s] \in 0 .. PasvAttempts BY DEF Inv, TypeOK
    <3> QED BY <2>1, <3>1 DEF Exhausted
  <2> QED BY <1>0, <2>2 DEF AttemptInv, Inv
<1>7. ListenerInv' BY <1>0 DEF ListenerInv, Listening, Inv
<1>8. ToldInv'
  <2> SUFFICES ASSUME NEW t \in Session, pc'[t] = "accept" PROVE told'[t] = PortTold(port'[t])
    BY DEF ToldInv, PortTold
  <2>1. t # s BY <1>0
  <2> QED BY <1>0, <2>1 DEF ToldInv, Inv
<1>9. DistinctInv' BY <1>0 DEF DistinctInv, Inv
<1> QED BY <1>5, <1>6, <1>7, <1>8, <1>9 DEF Inv

\* A bind that succeeds takes a port that no listener has.
LEMMA BindStep == ASSUME Inv, NEW s \in Session, BindAttempt(s) PROVE Inv'
<1> USE PortAssumption DEF Goto
<1>0. /\ pc[s] = "bind" /\ ~ Listening(s) /\ bound[s] = 0 /\ pc'[s] # "accept" /\ pc'[s] # "bind"
      /\ UNCHANGED <<counter, port, told, busy>>
      /\ attempt[s] \in 0 .. PasvAttempts /\ attempt[s] < PasvAttempts
      /\ \A t \in Session \ {s} :
           pc'[t] = pc[t] /\ bound'[t] = bound[t] /\ attempt'[t] = attempt[t]
  BY DEF Inv, TypeOK, BindAttempt, Listening, AttemptInv
<1>1. \/ \E p \in Usable(port[s]) : /\ bound' = [bound EXCEPT ![s] = p]
                                   /\ pc' = [pc EXCEPT ![s] = "reply"]
                                   /\ attempt' = attempt
      \/ /\ attempt' = [attempt EXCEPT ![s] = @ + 1]
         /\ pc' = [pc EXCEPT ![s] = "load"]
         /\ bound' = bound
  BY DEF BindAttempt
<1>2. CASE bound' = bound
  <2>1. pc'[s] = "load" \/ bound'[s] \in Port
    BY <1>1 DEF Inv, TypeOK, Usable
  <2>2. 0 \notin Port BY DEF Port
  <2>3. /\ pc' = [pc EXCEPT ![s] = "load"]
        /\ attempt' = [attempt EXCEPT ![s] = @ + 1]
    BY <1>0, <1>1, <1>2, <2>2 DEF Usable, Inv, TypeOK
  <2>4. attempt' \in [Session -> 0 .. PasvAttempts]
    <3>1. attempt[s] + 1 \in 0 .. PasvAttempts BY <1>0
    <3> QED BY <2>3, <3>1 DEF Inv, TypeOK
  <2>5. \A t \in Session : bound'[t] # 0 <=> pc'[t] \in {"reply", "accept"}
    BY <1>0, <1>2, <2>3 DEF Inv, TypeOK
  <2>6. pc'[s] = "load" BY <2>3 DEF Inv, TypeOK
  <2>7. TypeOK' BY <1>0, <1>2, <2>3, <2>4, <2>5 DEF Inv, TypeOK
  <2>8. AttemptInv' BY <1>0 DEF AttemptInv, Inv
  <2>9. ListenerInv' BY <1>0, <1>2, <2>6 DEF ListenerInv, Listening, Inv
  <2>10. ToldInv'
    <3> SUFFICES ASSUME NEW t \in Session, pc'[t] = "accept" PROVE told'[t] = PortTold(port'[t])
      BY DEF ToldInv, PortTold
    <3> QED BY <1>0 DEF ToldInv, Inv
  <2>11. DistinctInv' BY <1>2 DEF DistinctInv, Inv
  <2> QED BY <2>7, <2>8, <2>9, <2>10, <2>11 DEF Inv
<1>3. CASE bound' # bound
  <2>1. PICK p \in Usable(port[s]) : bound' = [bound EXCEPT ![s] = p]
                                   /\ pc' = [pc EXCEPT ![s] = "reply"]
                                   /\ attempt' = attempt
    BY <1>1, <1>3
  <2>2. p \in Port /\ ~ InUse(p)
        /\ (port[s] % (Byte * Byte) = 0 \/ p = port[s] % (Byte * Byte))
    BY <2>1 DEF Usable
  <2>3. bound'[s] = p /\ p # 0 /\ pc'[s] = "reply"
    BY <2>1, <2>2 DEF Inv, TypeOK, Port
  <2>4. bound' \in [Session -> Port \union {0}] BY <2>1, <2>2 DEF Inv, TypeOK
  <2>5. \A t \in Session : bound'[t] # 0 <=> pc'[t] \in {"reply", "accept"}
    BY <1>0, <2>3 DEF Inv, TypeOK
  <2>6. TypeOK' BY <1>0, <2>1, <2>4, <2>5 DEF Inv, TypeOK
  <2>7. AttemptInv' BY <1>0 DEF AttemptInv, Inv
  <2>8. ListenerInv'
    <3> SUFFICES ASSUME NEW t \in Session, Listening(t)'
                 PROVE  port'[t] % (Byte * Byte) = 0 \/ bound'[t] = port'[t] % (Byte * Byte)
      BY DEF ListenerInv
    <3>1. CASE t = s BY <3>1, <1>0, <2>2, <2>3
    <3>2. CASE t # s BY <3>2, <1>0 DEF Inv, ListenerInv, Listening
    <3> QED BY <3>1, <3>2
  <2>9. ToldInv'
    <3> SUFFICES ASSUME NEW t \in Session, pc'[t] = "accept" PROVE told'[t] = PortTold(port'[t])
      BY DEF ToldInv, PortTold
    <3> QED BY <1>0 DEF ToldInv, Inv
  <2>10. DistinctInv'
    <3>1. \A t \in Session : bound[t] # p BY <2>2 DEF InUse
    <3> QED BY <1>0, <2>3, <3>1 DEF DistinctInv, Inv
  <2> QED BY <2>6, <2>7, <2>8, <2>9, <2>10 DEF Inv
<1> QED BY <1>2, <1>3

\* 227 tells the two bytes of the number the listener was made with.
LEMMA ReplyStep == ASSUME Inv, NEW s \in Session, EnterPassive(s) PROVE Inv'
<1> USE DEF EnterPassive, Goto
<1>0. /\ pc[s] = "reply" /\ pc'[s] = "accept" /\ told'[s] = PortTold(port[s])
      /\ port[s] \in Nat
      /\ UNCHANGED <<counter, port, attempt, bound, busy>>
      /\ \A t \in Session \ {s} : pc'[t] = pc[t] /\ told'[t] = told[t]
  BY DEF Inv, TypeOK
<1>1. TypeOK'
  <2>1. PortTold(port[s]) \in Port \union {0} BY <1>0, ToldType
  <2>2. told' \in [Session -> Port \union {0}] BY <2>1 DEF Inv, TypeOK
  <2>3. \A t \in Session : bound'[t] # 0 <=> pc'[t] \in {"reply", "accept"}
    BY <1>0 DEF Inv, TypeOK
  <2> QED BY <1>0, <2>2, <2>3 DEF Inv, TypeOK
<1>2. AttemptInv' BY <1>0 DEF AttemptInv, Inv
<1>3. ListenerInv' BY <1>0 DEF ListenerInv, Listening, Inv
<1>4. ToldInv'
  <2> SUFFICES ASSUME NEW t \in Session, pc'[t] = "accept" PROVE told'[t] = PortTold(port'[t])
    BY DEF ToldInv, PortTold
  <2> QED BY <1>0 DEF ToldInv, Inv
<1>5. DistinctInv' BY <1>0 DEF DistinctInv, Inv
<1> QED BY <1>1, <1>2, <1>3, <1>4, <1>5 DEF Inv

\* A listener that is closed gives its port up.
LEMMA DoneStep == ASSUME Inv, NEW s \in Session, PassiveDone(s) PROVE Inv'
<1> USE DEF PassiveDone, Goto
<1>0. /\ pc[s] = "accept" /\ pc'[s] = "idle" /\ bound'[s] = 0 /\ bound[s] \in Port
      /\ UNCHANGED <<counter, port, attempt, told>>
      /\ \A t \in Session \ {s} : pc'[t] = pc[t] /\ bound'[t] = bound[t]
  BY DEF Inv, TypeOK
<1>1. TypeOK'
  <2>1. busy' \subseteq Port BY <1>0 DEF Inv, TypeOK
  <2>2. \A t \in Session : bound'[t] # 0 <=> pc'[t] \in {"reply", "accept"}
    BY <1>0 DEF Inv, TypeOK
  <2> QED BY <1>0, <2>1, <2>2 DEF Inv, TypeOK
<1>2. AttemptInv' BY <1>0 DEF AttemptInv, Inv
<1>3. ListenerInv' BY <1>0 DEF ListenerInv, Listening, Inv
<1>4. ToldInv'
  <2> SUFFICES ASSUME NEW t \in Session, pc'[t] = "accept" PROVE told'[t] = PortTold(port'[t])
    BY DEF ToldInv, PortTold
  <2> QED BY <1>0 DEF ToldInv, Inv
<1>5. DistinctInv' BY <1>0 DEF DistinctInv, Inv
<1> QED BY <1>1, <1>2, <1>3, <1>4, <1>5 DEF Inv

\* Other programs' ports are not the listeners' business, nor is a stuttering step.
LEMMA OtherStep == ASSUME Inv, PortsChange \/ UNCHANGED vars PROVE Inv'
<1>0. UNCHANGED <<counter, pc, port, attempt, bound, told>> BY DEF PortsChange, vars
<1>1. TypeOK'
  <2>1. busy' \subseteq Port BY DEF PortsChange, vars, Inv, TypeOK
  <2> QED BY <1>0, <2>1 DEF Inv, TypeOK
<1>2. AttemptInv' /\ ListenerInv' /\ DistinctInv'
  BY <1>0 DEF AttemptInv, ListenerInv, Listening, DistinctInv, Inv
<1>3. ToldInv' BY <1>0 DEF ToldInv, PortTold, Inv
<1> QED BY <1>1, <1>2, <1>3 DEF Inv

\* The invariant holds before the first PASV.
LEMMA InitInv == Init => Inv
<1> SUFFICES ASSUME Init PROVE Inv OBVIOUS
<1> USE PortAssumption DEF Init
<1>1. TypeOK
  <2>1. 0 \in 0 .. PasvAttempts OBVIOUS
  <2> QED BY <2>1 DEF TypeOK
<1>2. AttemptInv /\ ListenerInv /\ ToldInv /\ DistinctInv
  BY DEF AttemptInv, ListenerInv, Listening, ToldInv, DistinctInv
<1> QED BY <1>1, <1>2 DEF Inv

\* The invariant holds throughout.
LEMMA Invariance == Spec => []Inv
<1>1. Inv /\ [Next]_vars => Inv'
  BY UnboundSteps, BindStep, ReplyStep, DoneStep, OtherStep DEF Next, Thread
<1> QED BY <1>1, InitInv, PTL DEF Spec

-----------------------------------------------------------------------------
(* The theorems. *)

\* Ports, counters and attempts keep their types, and a listener has a port exactly from
\* its bind to its close, for any number of sessions.
THEOREM TypeCorrect == Spec => []TypeOK
<1>1. Inv => TypeOK BY DEF Inv
<1> QED BY <1>1, Invariance, PTL

\* Whoever waits for a data connection was told its listener's port, or port 0.
THEOREM ToldRight == Spec => []ToldWhatIsBound
<1>1. Inv => ToldWhatIsBound
  <2> SUFFICES ASSUME Inv, NEW s \in Session, pc[s] = "accept", told[s] # 0
               PROVE  told[s] = bound[s]
    BY DEF ToldWhatIsBound
  <2>1. port[s] \in Nat BY DEF Inv, TypeOK
  <2>2. told[s] = port[s] % (Byte * Byte) BY <2>1, ToldBytes DEF Inv, ToldInv
  <2>3. port[s] % (Byte * Byte) = 0 \/ bound[s] = port[s] % (Byte * Byte)
    BY DEF Inv, ListenerInv, Listening
  <2> QED BY <2>2, <2>3
<1> QED BY <1>1, Invariance, PTL

\* No two clients are sent to one port, whatever increments of the counter are lost.
THEOREM PortsOwned == Spec => []OwnPort
<1>1. Inv => OwnPort
  <2> SUFFICES ASSUME Inv, NEW s \in Session, NEW t \in Session, s # t,
                      pc[s] = "accept", pc[t] = "accept", told[s] # 0, told[s] = told[t]
               PROVE  FALSE
    BY DEF OwnPort
  <2>1. \A u \in {s, t} :
          /\ told[u] = port[u] % (Byte * Byte)
          /\ port[u] % (Byte * Byte) = 0 \/ bound[u] = port[u] % (Byte * Byte)
    <3> SUFFICES ASSUME NEW u \in {s, t}
                 PROVE  /\ told[u] = port[u] % (Byte * Byte)
                        /\ port[u] % (Byte * Byte) = 0 \/ bound[u] = port[u] % (Byte * Byte)
      OBVIOUS
    <3>1. u \in Session /\ pc[u] = "accept" /\ port[u] \in Nat BY DEF Inv, TypeOK
    <3> QED BY <3>1, ToldBytes DEF Inv, ToldInv, ListenerInv, Listening
  <2>2. bound[s] = told[s] /\ bound[t] = told[t] BY <2>1
  <2> QED BY <2>2 DEF Inv, DistinctInv
<1> QED BY <1>1, Invariance, PTL

-----------------------------------------------------------------------------
(* Answering. *)

\* What a PASV has still to do, for each attempt that is left a load, a store and a bind.
Work(s) ==
  3 * (PasvAttempts - attempt[s]) +
  IF pc[s] = "load" THEN 3 ELSE IF pc[s] = "store" THEN 2 ELSE IF pc[s] = "bind" THEN 1 ELSE 0

Answering(s) == pc[s] \in {"load", "store", "bind", "reply"}
Answered(s)  == pc[s] \in {"accept", "idle"}

\* One of the thread's steps can be taken.  Here the prover does not look into ENABLED.
ThreadCanAct(s) == Answering(s) => ENABLED <<Thread(s)>>_vars

LEMMA WorkType == ASSUME Inv, NEW s \in Session PROVE Work(s) \in Nat
<1>1. attempt[s] \in 0 .. PasvAttempts BY DEF Inv, TypeOK
<1>2. PasvAttempts - attempt[s] \in Nat BY <1>1, PortAssumption
<1> QED BY <1>2 DEF Work

\* A step of the thread answers, or leaves less to do: no attempt is repeated for ever,
\* whatever the counter does meanwhile.
LEMMA ThreadWorks ==
  ASSUME Inv, NEW s \in Session, Thread(s)
  PROVE  Answered(s)' \/ (Answering(s)' /\ Work(s)' < Work(s))
<1> USE PortAssumption DEF Goto
<1>1. attempt[s] \in 0 .. PasvAttempts /\ pc \in [Session -> {"idle", "load", "store", "bind", "reply", "accept"}]
  BY DEF Inv, TypeOK
<1>2. CASE Load(s)
  <2>1. pc[s] = "load" /\ pc'[s] = "store" /\ attempt' = attempt BY <1>1, <1>2 DEF Load
  <2> QED BY <1>1, <2>1 DEF Answering, Work
<1>3. CASE Store(s)
  <2>1. pc[s] = "store" /\ pc'[s] \in {"idle", "bind"} /\ attempt' = attempt BY <1>1, <1>3 DEF Store
  <2> QED BY <1>1, <2>1 DEF Answering, Answered, Work
<1>4. CASE BindAttempt(s)
  <2>1. /\ pc[s] = "bind"
        /\ \/ pc'[s] = "reply" /\ attempt' = attempt
           \/ pc'[s] = "load" /\ attempt'[s] = attempt[s] + 1
    BY <1>1, <1>4 DEF BindAttempt, Inv, TypeOK
  <2> QED BY <1>1, <2>1 DEF Answering, Work
<1>5. CASE EnterPassive(s)
  BY <1>1, <1>5 DEF EnterPassive, Answered
<1> QED BY <1>2, <1>3, <1>4, <1>5 DEF Thread

\* Nobody else gives the thread more to do.
LEMMA OthersLeaveWork ==
  ASSUME Inv, [Next]_vars, NEW s \in Session, Answering(s)
  PROVE  Thread(s) \/ (Answering(s)' /\ Work(s)' = Work(s))
<1>1. pc \in [Session -> {"idle", "load", "store", "bind", "reply", "accept"}]
      /\ attempt \in [Session -> 0 .. PasvAttempts]
  BY DEF Inv, TypeOK
<1>2. CASE pc'[s] = pc[s] /\ attempt'[s] = attempt[s]
  BY <1>2 DEF Answering, Work
<1>3. CASE PortsChange \/ UNCHANGED vars
  BY <1>2, <1>3 DEF PortsChange, vars
<1>4. ASSUME NEW t \in Session, command_pasv(t) \/ Thread(t) \/ PassiveDone(t), t # s
      PROVE  pc'[s] = pc[s] /\ attempt'[s] = attempt[s]
  BY <1>1, <1>4 DEF command_pasv, Thread, Load, Store, BindAttempt, EnterPassive, PassiveDone, Goto
<1>5. ~ command_pasv(s) /\ ~ PassiveDone(s)
  BY DEF Answering, command_pasv, PassiveDone
<1> QED BY <1>2, <1>3, <1>4, <1>5 DEF Next

\* Each PASV comes closer to its answer, by attempts that are not given back: with at most
\* n steps left it is answered or has fewer.  (PasvAnswered follows by induction on n.)
THEOREM AnswersAdvance ==
  \A s \in Session : \A n \in Nat :
    FairSpec /\ []ThreadCanAct(s)
      => ((Answering(s) /\ Work(s) = n) ~> (Answered(s) \/ (Answering(s) /\ Work(s) < n)))
<1> SUFFICES ASSUME NEW s \in Session, NEW n \in Nat
             PROVE  FairSpec /\ []ThreadCanAct(s)
                      => ((Answering(s) /\ Work(s) = n)
                            ~> (Answered(s) \/ (Answering(s) /\ Work(s) < n)))
  OBVIOUS
<1> DEFINE P == Answering(s) /\ Work(s) = n
           Q == Answered(s) \/ (Answering(s) /\ Work(s) < n)
<1>1. Inv /\ P /\ [Next]_vars => P' \/ Q'
  BY ThreadWorks, OthersLeaveWork
<1>2. Inv /\ P /\ <<Thread(s)>>_vars => Q'
  BY ThreadWorks
<1>3. P /\ ThreadCanAct(s) => ENABLED <<Thread(s)>>_vars
  BY DEF ThreadCanAct
<1>4. Fairness => Scheduled(s)
  BY DEF Fairness
<1> HIDE DEF P, Q
<1>5. FairSpec /\ []ThreadCanAct(s) => (P ~> Q)
  BY <1>1, <1>2, <1>3, <1>4, Invariance, PTL DEF FairSpec, Spec, Scheduled
<1> QED BY <1>5 DEF P, Q

=============================================================================
