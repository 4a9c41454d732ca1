--------------------------- MODULE TlsChannelsProofs ---------------------------
(***************************************************************************)
(* Theorems about TlsChannels: no handle dangles, what is marked secure is   *)
(* secure, and closing loses no object, for any number of binds and sockets. *)
(***************************************************************************)
EXTENDS TlsChannels, TLAPS

-----------------------------------------------------------------------------
(* The inductive invariant. *)

Handles(n) == {h \in [Kind -> 0 .. n] : h["session"] \in {0, h["dh"]}}

\* The control connection is open as long as commands are served.
ControlOpen == pc \in {"serving", "crashed"} => socket["control"] # 0

\* The last PROT is in force.
LevelInv == asked # "unset" => level = asked

Inv ==
  /\ TypeOK
  /\ HandlesSound
  /\ SecureOverOwnConnection
  /\ ControlOpen
  /\ CrashNeedsClosedChannel
  /\ LevelInv
  /\ ProtectionAsAsked

\* What TypeOK says of the handles.
LEMMA HandleType == ASSUME TypeOK, NEW c \in Channel PROVE handle[c] \in Handles(binds)
BY DEF TypeOK, Handles

\* No handles refer to nothing.
LEMMA NothingHeld ==
  ASSUME NEW n \in Nat
  PROVE  NoHandles \in Handles(n) /\ Held(NoHandles) = {} /\ NoHandles["session"] = 0
         /\ NoHandles["credentials"] = 0
BY DEF NoHandles, Handles, Held, Kind

\* Handles of an earlier bind are none of a later one.
LEMMA HeldBounded ==
  ASSUME NEW n \in Nat, NEW h \in Handles(n)
  PROVE  Held(h) \subseteq Kind \X (1 .. n) /\ h \in Handles(n + 1)
<1>1. \A k \in Kind : h[k] \in 0 .. n BY DEF Handles
<1>2. Held(h) \subseteq Kind \X (1 .. n) BY <1>1 DEF Held
<1>3. h \in [Kind -> 0 .. n + 1] BY DEF Handles
<1> QED BY <1>2, <1>3 DEF Handles

-----------------------------------------------------------------------------
(* set_tls *)

\* Channel c, which had handles h, holds g and has m_secure = sec after set_tls.
TlsOutcome(c, h, was, g, sec) ==
  /\ handle' = [handle EXCEPT ![c] = g]
  /\ secure' = [secure EXCEPT ![c] = sec]
  /\ \A k \in Kind : g[k] \in {h[k], 0, binds + 1}
  /\ \A k \in Kind : g[k] = binds + 1 => <<k, binds + 1>> \in live'
  /\ g["credentials"] = binds + 1
  /\ \/ sec = was /\ g["session"] = h["session"]
     \/ sec = FALSE
     \/ g["session"] = binds + 1 /\ binds + 1 \in established'

\* What a channel that had handles h may hold after set_tls.
LEMMA SetTlsHandles ==
  ASSUME TypeOK, NEW c \in Channel, NEW f, NEW h \in Handles(binds), NEW was \in BOOLEAN,
         SetTls(c, f, h, was)
  PROVE  \E g \in Handles(binds + 1), sec \in BOOLEAN : TlsOutcome(c, h, was, g, sec)
<1> USE TlsChannelsAssumption DEF Kind
<1>0. binds \in Nat BY DEF TypeOK
<1> DEFINE n == binds + 1
           refused == [h EXCEPT !["credentials"] = n]
           failed  == [[k \in Kind |-> n] EXCEPT !["session"] = 0]
           made    == [k \in Kind |-> n]
<1>1. refused \in Handles(n) /\ failed \in Handles(n) /\ made \in Handles(n)
  <2>1. n \in 0 .. n /\ 0 \in 0 .. n BY <1>0
  <2>2. h \in [Kind -> 0 .. n] /\ h["session"] \in {0, h["dh"]} BY <1>0, HeldBounded DEF Handles
  <2>3. refused \in [Kind -> 0 .. n] BY <2>1, <2>2
  <2>4. failed \in [Kind -> 0 .. n] /\ made \in [Kind -> 0 .. n] BY <2>1
  <2> QED BY <2>2, <2>3, <2>4 DEF Handles
<1>2. \/ /\ handle' = [handle EXCEPT ![c] = refused]
         /\ live' = live \union {<<"credentials", n>>}
         /\ secure' = [secure EXCEPT ![c] = was]
      \/ /\ handle' = [handle EXCEPT ![c] = failed]
         /\ live' = live \union {<<"credentials", n>>, <<"dh", n>>}
         /\ secure' = [secure EXCEPT ![c] = FALSE]
      \/ /\ handle' = [handle EXCEPT ![c] = made]
         /\ live' = live \union (Kind \X {n})
         /\ secure' = [secure EXCEPT ![c] = TRUE]
         /\ n \in established'
  BY DEF SetTls, BoundHandles, AfterFailure
<1>3. \A k \in Kind : h[k] \in 0 .. binds BY DEF Handles
<1>a. h \in [Kind -> 0 .. binds] BY DEF Handles
<1>4. CASE /\ handle' = [handle EXCEPT ![c] = refused]
           /\ live' = live \union {<<"credentials", n>>}
           /\ secure' = [secure EXCEPT ![c] = was]
  <2>1. /\ \A k \in Kind : refused[k] \in {h[k], 0, n}
        /\ \A k \in Kind : refused[k] = n => k = "credentials"
        /\ refused["credentials"] = n /\ refused["session"] = h["session"]
    BY <1>0, <1>3, <1>a
  <2>2. \A k \in Kind : refused[k] = n => <<k, n>> \in live' BY <1>4, <2>1
  <2> HIDE DEF refused
  <2> USE <1>1
  <2> WITNESS refused \in Handles(binds + 1)
  <2> WITNESS was \in BOOLEAN
  <2> QED BY <1>4, <2>1, <2>2 DEF TlsOutcome
<1>5. CASE /\ handle' = [handle EXCEPT ![c] = failed]
           /\ live' = live \union {<<"credentials", n>>, <<"dh", n>>}
           /\ secure' = [secure EXCEPT ![c] = FALSE]
  <2>1. /\ \A k \in Kind : failed[k] \in {h[k], 0, n}
        /\ \A k \in Kind : failed[k] = n => k \in {"credentials", "dh"}
        /\ failed["credentials"] = n
    BY <1>0
  <2>2. \A k \in Kind : failed[k] = n => <<k, n>> \in live' BY <1>5, <2>1
  <2> HIDE DEF failed
  <2> USE <1>1
  <2> WITNESS failed \in Handles(binds + 1)
  <2> WITNESS FALSE \in BOOLEAN
  <2> QED BY <1>5, <2>1, <2>2 DEF TlsOutcome
<1>6. CASE /\ handle' = [handle EXCEPT ![c] = made]
           /\ live' = live \union (Kind \X {n})
           /\ secure' = [secure EXCEPT ![c] = TRUE]
           /\ n \in established'
  <2>1. /\ \A k \in Kind : made[k] \in {h[k], 0, n}
        /\ made["credentials"] = n /\ made["session"] = n
    OBVIOUS
  <2>2. \A k \in Kind : made[k] = n => <<k, n>> \in live' BY <1>6
  <2> HIDE DEF made
  <2> USE <1>1
  <2> WITNESS made \in Handles(binds + 1)
  <2> WITNESS TRUE \in BOOLEAN
  <2> QED BY <1>6, <2>1, <2>2 DEF TlsOutcome
<1> HIDE DEF refused, failed, made
<1> QED BY <1>2, <1>4, <1>5, <1>6

\* What set_tls does besides.
LEMMA SetTlsRest ==
  ASSUME TypeOK, NEW c \in Channel, NEW f, NEW h, NEW was, SetTls(c, f, h, was)
  PROVE  /\ binds + 1 \in 1 .. MaxBinds /\ binds' = binds + 1
         /\ live \subseteq live' /\ live' \subseteq Kind \X (1 .. binds + 1)
         /\ established \subseteq established' /\ established' \subseteq 1 .. binds + 1
         /\ peer' = [peer EXCEPT ![binds + 1] = f]
<1> USE TlsChannelsAssumption
<1>1. binds \in Nat /\ binds + 1 \in 1 .. MaxBinds /\ binds' = binds + 1
      /\ peer' = [peer EXCEPT ![binds + 1] = f]
  BY DEF TypeOK, SetTls
<1>2. \A i \in 1 .. binds : i \in 1 .. binds + 1 BY <1>1
<1>3. binds + 1 \in 1 .. binds + 1 BY <1>1
<1>4. \/ live' = live \union {<<"credentials", binds + 1>>}
      \/ live' = live \union {<<"credentials", binds + 1>>, <<"dh", binds + 1>>}
      \/ live' = live \union (Kind \X {binds + 1})
  BY DEF SetTls
<1>5. live \subseteq live' /\ live' \subseteq Kind \X (1 .. binds + 1)
  <2>1. live \subseteq Kind \X (1 .. binds + 1) BY <1>2 DEF TypeOK
  <2> QED BY <2>1, <1>3, <1>4 DEF Kind
<1>6. established' \in {established, established \union {binds + 1}} BY DEF SetTls
<1>7. established \subseteq established' /\ established' \subseteq 1 .. binds + 1
  BY <1>2, <1>3, <1>6 DEF TypeOK
<1> QED BY <1>1, <1>5, <1>7

\* Handles of a channel d that set_tls is not about stay sound, and apart from the new
\* ones.
LEMMA HeldAfter ==
  ASSUME NEW n \in Nat, NEW h \in Handles(n), NEW g \in Handles(n + 1),
         \A k \in Kind : g[k] \in {h[k], 0, n + 1}
  PROVE  Held(g) \subseteq Held(h) \union {<<k, n + 1>> : k \in {k \in Kind : g[k] = n + 1}}
<1> SUFFICES ASSUME NEW k \in Kind, g[k] # 0, g[k] # n + 1
             PROVE  <<k, g[k]>> \in Held(h)
  BY DEF Held
<1>1. g[k] = h[k] /\ h[k] # 0 OBVIOUS
<1> QED BY <1>1 DEF Held

-----------------------------------------------------------------------------
(* The steps. *)

\* The clauses of TypeOK about TLS.
TlsType ==
  /\ secure \in [Channel -> BOOLEAN]
  /\ binds \in 0 .. MaxBinds
  /\ handle \in [Channel -> [Kind -> 0 .. binds]]
  /\ \A c \in Channel : handle[c]["session"] \in {0, handle[c]["dh"]}
  /\ live \subseteq Kind \X (1 .. binds)
  /\ established \subseteq 1 .. binds
  /\ peer \in [1 .. MaxBinds -> 0 .. sockets]

\* And the others.
RestType ==
  /\ pc \in {"serving", "left", "destroyed", "crashed"}
  /\ sockets \in 2 .. MaxSockets
  /\ socket \in [Channel -> 0 .. sockets]
  /\ level \in Level
  /\ asked \in Level \union {"unset"}
  /\ terms \in Terms

\* The two parts are the whole, before and after a step.
LEMMA TypeSplit == (TypeOK <=> TlsType /\ RestType) /\ (TypeOK' <=> TlsType' /\ RestType')
BY DEF TypeOK, TlsType, RestType

\* set_tls of a channel that keeps its connection and handles, or has just got another.
LEMMA TlsStep ==
  ASSUME Inv, NEW c \in Channel, NEW h \in Handles(binds), NEW was \in BOOLEAN,
         SetTls(c, socket'[c], h, was), pc = "serving", pc' = pc,
         sockets' \in 2 .. MaxSockets, sockets <= sockets',
         socket' \in [Channel -> 0 .. sockets'],
         \A d \in Channel \ {c} : socket'[d] = socket[d],
         h = NoHandles \/ h = handle[c],
         was => secure[c] /\ h = handle[c] /\ socket'[c] = socket[c]
  PROVE  /\ TlsType' /\ HandlesSound' /\ SecureOverOwnConnection'
         /\ \A d \in Channel \ {c} : handle'[d] = handle[d] /\ secure'[d] = secure[d]
         /\ handle'[c]["credentials"] # 0
<1> USE TlsChannelsAssumption
<1>0. /\ TypeOK /\ binds \in Nat /\ sockets \in Nat
      /\ secure \in [Channel -> BOOLEAN]
      /\ handle \in [Channel -> [Kind -> 0 .. binds]]
      /\ peer \in [1 .. MaxBinds -> 0 .. sockets]
      /\ established \subseteq 1 .. binds
  BY DEF Inv, TypeOK
<1>a. PICK f : f = socket'[c] OBVIOUS
<1>b. SetTls(c, f, h, was) BY <1>a
<1>p. PICK g \in Handles(binds + 1), sec \in BOOLEAN : TlsOutcome(c, h, was, g, sec)
  BY <1>0, <1>b, SetTlsHandles
<1>1. /\ handle' = [handle EXCEPT ![c] = g]
      /\ secure' = [secure EXCEPT ![c] = sec]
      /\ \A k \in Kind : g[k] \in {h[k], 0, binds + 1}
      /\ \A k \in Kind : g[k] = binds + 1 => <<k, binds + 1>> \in live'
      /\ g["credentials"] = binds + 1
      /\ \/ sec = was /\ g["session"] = h["session"]
         \/ sec = FALSE
         \/ g["session"] = binds + 1 /\ binds + 1 \in established'
  BY <1>p DEF TlsOutcome
<1>2. /\ binds + 1 \in 1 .. MaxBinds /\ binds' = binds + 1
      /\ live \subseteq live' /\ live' \subseteq Kind \X (1 .. binds + 1)
      /\ established \subseteq established' /\ established' \subseteq 1 .. binds + 1
      /\ peer' = [peer EXCEPT ![binds + 1] = socket'[c]]
  BY <1>0, <1>a, <1>b, SetTlsRest
<1>3. /\ handle'[c] = g /\ secure'[c] = sec
      /\ \A d \in Channel \ {c} : handle'[d] = handle[d] /\ secure'[d] = secure[d]
  BY <1>0, <1>1
<1>4. \A d \in Channel : handle'[d] \in Handles(binds + 1)
  <2> SUFFICES ASSUME NEW d \in Channel, d # c PROVE handle'[d] \in Handles(binds + 1)
    BY <1>3
  <2>1. handle[d] \in Handles(binds) BY <1>0, HandleType
  <2> QED BY <1>0, <1>3, <2>1, HeldBounded
<1>5. TlsType'
  <2>1. secure' \in [Channel -> BOOLEAN] BY <1>0, <1>1
  <2>2. handle' \in [Channel -> [Kind -> 0 .. binds + 1]]
    <3>1. \A d \in Channel : handle'[d] \in [Kind -> 0 .. binds + 1] BY <1>4 DEF Handles
    <3>2. handle' = [d \in Channel |-> handle'[d]] BY <1>0, <1>1
    <3> QED BY <3>1, <3>2
  <2>3. \A d \in Channel : handle'[d]["session"] \in {0, handle'[d]["dh"]} BY <1>4 DEF Handles
  <2>4. peer' \in [1 .. MaxBinds -> 0 .. sockets']
    <3>1. socket'[c] \in 0 .. sockets' OBVIOUS
    <3>2. \A n \in 0 .. sockets : n \in 0 .. sockets' BY <1>0
    <3>3. peer \in [1 .. MaxBinds -> 0 .. sockets'] BY <1>0, <3>2
    <3> QED BY <1>2, <3>1, <3>3
  <2>5. binds' \in 0 .. MaxBinds BY <1>0, <1>2
  <2> QED BY <1>2, <2>1, <2>2, <2>3, <2>4, <2>5 DEF TlsType
<1>6. HandlesSound'
  <2>1. Held(g) \subseteq Held(h) \union {<<k, binds + 1>> : k \in {k \in Kind : g[k] = binds + 1}}
    BY <1>0, <1>1, HeldAfter
  <2>2. Held(h) \subseteq Held(handle[c])
    <3>1. Held(NoHandles) = {} BY <1>0, NothingHeld
    <3> QED BY <3>1
  <2>3. Held(handle[c]) \subseteq live BY DEF Inv, HandlesSound
  <2>4. {<<k, binds + 1>> : k \in {k \in Kind : g[k] = binds + 1}} \subseteq live' BY <1>1
  <2>5. Held(g) \subseteq live' BY <1>2, <2>1, <2>2, <2>3, <2>4
  <2>6. ASSUME NEW d \in Channel \ {c}
        PROVE  Held(handle[d]) \subseteq live' /\ Held(g) \intersect Held(handle[d]) = {}
    <3>1. Held(handle[d]) \subseteq live BY DEF Inv, HandlesSound
    <3>2. Held(handle[c]) \intersect Held(handle[d]) = {}
      BY DEF Inv, HandlesSound, Channel
    <3>3. Held(handle[d]) \subseteq Kind \X (1 .. binds)
      <4>1. handle[d] \in Handles(binds) BY <1>0, HandleType
      <4> QED BY <1>0, <4>1, HeldBounded
    <3>4. \A k : <<k, binds + 1>> \notin Held(handle[d])
      <4>1. binds + 1 \notin 1 .. binds BY <1>0
      <4> QED BY <3>3, <4>1
    <3> QED BY <1>2, <2>1, <2>2, <3>1, <3>2, <3>4
  <2>7. \A d \in Channel : Held(handle[d])' = Held(handle'[d]) BY DEF Held
  <2>8. \A d \in Channel : Held(handle'[d]) \subseteq live' BY <1>3, <2>5, <2>6
  <2>9. Held(handle'["control"]) \intersect Held(handle'["data"]) = {}
    <3>1. CASE c = "control"
      <4>1. "data" \in Channel \ {c} BY <3>1 DEF Channel
      <4> QED BY <1>3, <2>6, <3>1, <4>1
    <3>2. CASE c = "data"
      <4>1. "control" \in Channel \ {c} BY <3>2 DEF Channel
      <4> QED BY <1>3, <2>6, <3>2, <4>1
    <3> QED BY <3>1, <3>2 DEF Channel
  <2> QED BY <2>7, <2>8, <2>9 DEF HandlesSound, Held
<1>7. SecureOverOwnConnection'
  <2> SUFFICES ASSUME NEW d \in Channel, secure'[d], socket'[d] # 0
               PROVE  /\ handle'[d]["session"] \in established'
                      /\ peer'[handle'[d]["session"]] = socket'[d]
    BY DEF SecureOverOwnConnection
  <2>1. ASSUME secure[d], socket'[d] = socket[d], handle'[d]["session"] = handle[d]["session"]
        PROVE  /\ handle'[d]["session"] \in established'
               /\ peer'[handle'[d]["session"]] = socket'[d]
    <3> DEFINE n == handle[d]["session"]
    <3>1. n \in established /\ peer[n] = socket[d]
      BY <2>1 DEF Inv, SecureOverOwnConnection
    <3>2. n \in 1 .. binds BY <1>0, <3>1
    <3>3. n # binds + 1 /\ n \in 1 .. MaxBinds BY <1>0, <1>2, <3>2
    <3>4. peer'[n] = peer[n] BY <1>0, <1>2, <3>3
    <3> QED BY <1>2, <2>1, <3>1, <3>4
  <2>2. CASE d # c BY <1>3, <2>1, <2>2
  <2>3. CASE d = c
    <3>1. CASE sec = was /\ g["session"] = h["session"] BY <1>3, <2>1, <2>3, <3>1
    <3>2. CASE g["session"] = binds + 1 /\ binds + 1 \in established'
      <4>1. peer'[binds + 1] = socket'[c] BY <1>0, <1>2
      <4> QED BY <1>3, <2>3, <3>2, <4>1
    <3> QED BY <1>1, <1>3, <2>3, <3>1, <3>2
  <2> QED BY <2>2, <2>3
<1>8. handle'[c]["credentials"] # 0 BY <1>0, <1>1, <1>3
<1> QED BY <1>3, <1>5, <1>6, <1>7, <1>8

\* AUTH
LEMMA AuthStep == ASSUME Inv, command_auth PROVE Inv'
<1> USE TlsChannelsAssumption DEF command_auth
<1>1. /\ TypeOK /\ RestType /\ socket' = socket /\ "control" \in Channel
      /\ sockets' \in 2 .. MaxSockets /\ sockets <= sockets'
      /\ socket' \in [Channel -> 0 .. sockets'] /\ secure["control"] \in BOOLEAN
  BY DEF Inv, TypeOK, RestType, Channel
<1>2. handle["control"] \in Handles(binds) BY <1>1, HandleType
<1>3. SetTls("control", socket'["control"], handle["control"], secure["control"]) BY <1>1
<1>4. /\ TlsType' /\ HandlesSound' /\ SecureOverOwnConnection'
      /\ handle'["data"] = handle["data"] /\ secure'["data"] = secure["data"]
  <2>1. "data" \in Channel \ {"control"} BY DEF Channel
  <2> QED BY <1>1, <1>2, <1>3, <2>1, TlsStep
<1>5. RestType' BY <1>1 DEF RestType
<1>6. ControlOpen' /\ LevelInv' /\ CrashNeedsClosedChannel'
  BY DEF Inv, ControlOpen, LevelInv, CrashNeedsClosedChannel
<1>7. ProtectionAsAsked' BY <1>4 DEF Inv, ProtectionAsAsked
<1> QED BY <1>4, <1>5, <1>6, <1>7, TypeSplit DEF Inv

\* PROT
LEMMA ProtStep == ASSUME Inv, NEW l \in Level, command_prot(l) PROVE Inv'
<1> USE DEF command_prot, LevelAfter, tlsVars
<1>1. TypeOK' BY DEF Inv, TypeOK
<1>2. HandlesSound' /\ SecureOverOwnConnection' /\ ControlOpen' /\ LevelInv'
  BY DEF Inv, HandlesSound, SecureOverOwnConnection, ControlOpen, LevelInv, Held
<1>3. CrashNeedsClosedChannel' /\ ProtectionAsAsked'
  BY DEF Inv, CrashNeedsClosedChannel, ProtectionAsAsked
<1> QED BY <1>1, <1>2, <1>3 DEF Inv

\* PORT: the data channel is a new one without TLS; its old objects are still allocated.
LEMMA PortStep == ASSUME Inv, command_port PROVE Inv'
<1> USE TlsChannelsAssumption DEF command_port, Cleared
<1>0. /\ TypeOK /\ sockets + 1 \in 2 .. MaxSockets /\ sockets \in Nat
      /\ socket \in [Channel -> 0 .. sockets] /\ binds \in Nat
      /\ secure \in [Channel -> BOOLEAN]
      /\ "control" \in Channel /\ "data" \in Channel
      /\ NoHandles \in Handles(binds) /\ Held(NoHandles) = {} /\ NoHandles["credentials"] = 0
      /\ handle[ "control"] \in Handles(binds)
  <2>1. sockets \in 2 .. MaxSockets BY DEF Inv, TypeOK
  <2>2. sockets + 1 \in 2 .. MaxSockets BY <2>1
  <2>3. /\ TypeOK /\ sockets \in Nat /\ socket \in [Channel -> 0 .. sockets] /\ binds \in Nat
        /\ secure \in [Channel -> BOOLEAN]
        /\ "control" \in Channel /\ "data" \in Channel
    BY DEF Inv, TypeOK, Channel
  <2> QED BY <2>2, <2>3, NothingHeld, HandleType
<1>1. /\ socket' \in [Channel -> 0 .. sockets'] /\ socket'["control"] = socket["control"]
      /\ sockets' = sockets + 1
  BY <1>0
<1>2. /\ handle'["control"] = handle["control"] /\ handle'["data"] = NoHandles
      /\ secure'["control"] = secure["control"] /\ secure'["data"] = FALSE
      /\ secure' \in [Channel -> BOOLEAN]
  BY <1>0 DEF Channel
<1>3. TlsType'
  <2>1. \A c \in Channel : handle'[c] \in Handles(binds) BY <1>0, <1>2 DEF Channel
  <2>2. handle' \in [Channel -> [Kind -> 0 .. binds]]
        /\ \A c \in Channel : handle'[c]["session"] \in {0, handle'[c]["dh"]}
    <3>1. handle' = [c \in Channel |-> handle'[c]] OBVIOUS
    <3> QED BY <2>1, <3>1 DEF Handles
  <2>3. peer \in [1 .. MaxBinds -> 0 .. sockets']
    <3>1. \A n \in 0 .. sockets : n \in 0 .. sockets' BY <1>0, <1>1
    <3> QED BY <3>1 DEF Inv, TypeOK
  <2> QED BY <1>2, <2>2, <2>3 DEF Inv, TypeOK, TlsType
<1>4. RestType'
  <2>1. terms' \in Terms BY <1>0 DEF Inv, TypeOK, Terms
  <2> QED BY <1>0, <1>1, <2>1 DEF Inv, TypeOK, RestType
<1>5. HandlesSound'
  <2>1. Held(handle'["control"]) = Held(handle["control"]) /\ Held(handle'["data"]) = {}
    BY <1>0, <1>2
  <2> QED BY <2>1 DEF Inv, HandlesSound, Held, Channel
<1>6. SecureOverOwnConnection'
  <2> SUFFICES ASSUME NEW d \in Channel, secure'[d], socket'[d] # 0
               PROVE  /\ handle'[d]["session"] \in established
                      /\ peer[handle'[d]["session"]] = socket'[d]
    BY DEF SecureOverOwnConnection
  <2>1. d = "control" BY <1>2 DEF Channel
  <2> QED BY <1>1, <1>2, <2>1 DEF Inv, SecureOverOwnConnection
<1>7. ControlOpen' /\ LevelInv' /\ CrashNeedsClosedChannel'
  BY <1>1 DEF Inv, ControlOpen, LevelInv, CrashNeedsClosedChannel
<1>8. ProtectionAsAsked' BY <1>0, <1>2 DEF ProtectionAsAsked
<1> QED BY <1>3, <1>4, <1>5, <1>6, <1>7, <1>8, TypeSplit DEF Inv

\* PASV: the data channel is the accepted one, or the one before, and TLS is tried on it
\* if PROT P is in force on a secure control channel.
LEMMA PasvStep == ASSUME Inv, NEW accepted \in BOOLEAN, command_pasv(accepted) PROVE Inv'
<1> USE TlsChannelsAssumption
<1> DEFINE h   == IF accepted THEN NoHandles ELSE handle["data"]
           was == SecureAfterAccept(accepted)
<1>0. /\ TypeOK /\ sockets \in 2 .. MaxSockets /\ binds \in Nat
      /\ socket \in [Channel -> 0 .. sockets]
      /\ secure \in [Channel -> BOOLEAN]
      /\ "control" \in Channel /\ "data" \in Channel
      /\ NoHandles \in Handles(binds) /\ Held(NoHandles) = {}
      /\ NoHandles["credentials"] = 0 /\ NoHandles["session"] = 0
      /\ \A c \in Channel : handle[c] \in Handles(binds)
  <2>1. /\ TypeOK /\ sockets \in 2 .. MaxSockets /\ binds \in Nat
        /\ socket \in [Channel -> 0 .. sockets]
        /\ secure \in [Channel -> BOOLEAN]
        /\ "control" \in Channel /\ "data" \in Channel
    BY DEF Inv, TypeOK, Channel
  <2> QED BY <2>1, NothingHeld, HandleType
<1>1. /\ pc = "serving" /\ pc' = pc /\ level' = level /\ asked' = asked
      /\ accepted => sockets < MaxSockets
      /\ sockets' = IF accepted THEN sockets + 1 ELSE sockets
      /\ socket' = IF accepted THEN [socket EXCEPT !["data"] = sockets + 1] ELSE socket
  BY DEF command_pasv
<1>2. /\ sockets' \in 2 .. MaxSockets /\ sockets <= sockets'
      /\ socket' \in [Channel -> 0 .. sockets']
      /\ \A d \in Channel \ {"data"} : socket'[d] = socket[d]
      /\ socket'["control"] = socket["control"]
  <2>1. CASE accepted
    <3>1. sockets' = sockets + 1 /\ sockets' \in 2 .. MaxSockets /\ sockets <= sockets'
      BY <1>0, <1>1, <2>1
    <3>2. sockets' \in 0 .. sockets' /\ \A n \in 0 .. sockets : n \in 0 .. sockets'
      BY <1>0, <3>1
    <3>3. socket' = [socket EXCEPT !["data"] = sockets'] BY <1>1, <2>1, <3>1
    <3>4. socket' \in [Channel -> 0 .. sockets'] BY <1>0, <3>2, <3>3
    <3> QED BY <1>0, <3>1, <3>3, <3>4
  <2>2. CASE ~ accepted BY <1>0, <1>1, <2>2
  <2> QED BY <2>1, <2>2
<1>3. /\ h \in Handles(binds) /\ (h = NoHandles \/ h = handle["data"]) /\ was \in BOOLEAN
      /\ was => secure["data"] /\ h = handle["data"] /\ socket'["data"] = socket["data"]
  BY <1>0, <1>1 DEF SecureAfterAccept
<1>t. terms' = IF accepted \/ Protects
                 THEN [way |-> IF accepted THEN "pasv" ELSE terms.way,
                       asked |-> asked, protected |-> secure["control"]]
                 ELSE terms
  BY DEF command_pasv
<1>4. \/ Protects /\ SetTls("data", socket'["data"], h, was)
      \/ /\ ~ Protects
         /\ handle' = [handle EXCEPT !["data"] = h]
         /\ secure' = [secure EXCEPT !["data"] = was]
         /\ UNCHANGED <<binds, live, established, peer>>
  BY DEF command_pasv
<1> HIDE DEF h, was
<1>5. /\ TlsType' /\ HandlesSound' /\ SecureOverOwnConnection'
      /\ handle'["control"] = handle["control"] /\ secure'["control"] = secure["control"]
      /\ Protects => handle'["data"]["credentials"] # 0
      /\ ~ Protects => handle'["data"] = h
  <2>1. CASE Protects /\ SetTls("data", socket'["data"], h, was)
    <3>1. "control" \in Channel \ {"data"} BY <1>0
    <3> QED BY <1>0, <1>1, <1>2, <1>3, <2>1, <3>1, TlsStep
  <2>2. CASE /\ ~ Protects
             /\ handle' = [handle EXCEPT !["data"] = h]
             /\ secure' = [secure EXCEPT !["data"] = was]
             /\ UNCHANGED <<binds, live, established, peer>>
    <3>0. handle \in [Channel -> [Kind -> 0 .. binds]] BY DEF Inv, TypeOK
    <3>1. /\ handle'["control"] = handle["control"] /\ handle'["data"] = h
          /\ secure'["control"] = secure["control"] /\ secure'["data"] = was
          /\ secure' \in [Channel -> BOOLEAN]
      BY <1>0, <1>3, <2>2, <3>0
    <3>2. TlsType'
      <4>1. \A c \in Channel : handle'[c] \in Handles(binds) BY <1>0, <1>3, <3>1 DEF Channel
      <4>2. handle' \in [Channel -> [Kind -> 0 .. binds]]
            /\ \A c \in Channel : handle'[c]["session"] \in {0, handle'[c]["dh"]}
        <5>1. handle' = [c \in Channel |-> handle'[c]] BY <2>2, <3>0
        <5> QED BY <4>1, <5>1 DEF Handles
      <4>3. peer \in [1 .. MaxBinds -> 0 .. sockets']
        <5>1. \A n \in 0 .. sockets : n \in 0 .. sockets' BY <1>0, <1>2
        <5> QED BY <5>1 DEF Inv, TypeOK
      <4> QED BY <2>2, <3>1, <4>2, <4>3 DEF Inv, TypeOK, TlsType
    <3>3. HandlesSound'
      <4>1. Held(handle'["control"]) = Held(handle["control"])
            /\ Held(handle'["data"]) \subseteq Held(handle["data"])
        BY <1>0, <1>3, <3>1
      <4>2. \A d \in Channel : Held(handle'[d]) \subseteq live
        BY <4>1 DEF Inv, HandlesSound, Channel
      <4>3. Held(handle'["control"]) \intersect Held(handle'["data"]) = {}
        BY <4>1 DEF Inv, HandlesSound
      <4> QED BY <2>2, <4>2, <4>3 DEF HandlesSound, Held
    <3>4. SecureOverOwnConnection'
      <4> SUFFICES ASSUME NEW d \in Channel, secure'[d], socket'[d] # 0
                   PROVE  /\ handle'[d]["session"] \in established
                          /\ peer[handle'[d]["session"]] = socket'[d]
        BY <2>2 DEF SecureOverOwnConnection
      <4>1. secure[d] /\ handle'[d] = handle[d] /\ socket'[d] = socket[d]
        BY <1>2, <1>3, <3>1 DEF Channel
      <4> QED BY <1>1, <4>1 DEF Inv, SecureOverOwnConnection
    <3> QED BY <2>2, <3>1, <3>2, <3>3, <3>4
  <2> QED BY <1>4, <2>1, <2>2
<1>6. RestType'
  <2>1. terms \in Terms /\ terms.way \in {"none", "port", "pasv"}
        /\ asked \in Level \union {"unset"} /\ secure["control"] \in BOOLEAN
    BY <1>0 DEF Inv, TypeOK, Terms
  <2>2. terms' \in Terms BY <1>t, <2>1 DEF Terms
  <2> QED BY <1>1, <1>2, <2>2 DEF Inv, TypeOK, RestType
<1>7. ControlOpen' /\ LevelInv' /\ CrashNeedsClosedChannel'
  BY <1>1, <1>2 DEF Inv, ControlOpen, LevelInv, CrashNeedsClosedChannel
<1>8. ProtectionAsAsked'
  <2> SUFFICES ASSUME socket'["data"] # 0
               PROVE  /\ handle'["data"]["credentials"] # 0 =>
                           terms'.asked \in {"PRIVATE", "unset"} /\ terms'.protected
                      /\ terms' = [way |-> "pasv", asked |-> "PRIVATE", protected |-> TRUE]
                           => handle'["data"]["credentials"] # 0
    BY DEF ProtectionAsAsked
  <2>1. CASE Protects
    <3>1. terms'.asked = asked /\ terms'.protected = secure["control"] BY <1>t, <2>1
    <3>2. asked \in {"PRIVATE", "unset"} /\ secure["control"]
      BY <2>1 DEF Protects, Inv, LevelInv
    <3> QED BY <1>5, <2>1, <3>1, <3>2
  <2>2. CASE ~ Protects /\ accepted
    <3>1. terms' = [way |-> "pasv", asked |-> asked, protected |-> secure["control"]]
      BY <1>t, <2>2
    <3>2. handle'["data"]["credentials"] = 0 BY <1>0, <1>5, <2>2 DEF h
    <3>3. ~ (terms'.asked = "PRIVATE" /\ terms'.protected)
      BY <2>2, <3>1 DEF Protects, Inv, LevelInv
    <3> QED BY <3>2, <3>3
  <2>3. CASE ~ Protects /\ ~ accepted
    <3>1. terms' = terms /\ handle'["data"] = handle["data"] /\ socket' = socket
      BY <1>t, <1>1, <1>5, <2>3 DEF h
    <3> QED BY <1>1, <3>1 DEF Inv, ProtectionAsAsked
  <2> QED BY <2>1, <2>2, <2>3
<1> QED BY <1>5, <1>6, <1>7, <1>8, TypeSplit DEF Inv

\* Channels that free what they hold, and no more, leave the handles sound.
LEMMA FreeSound ==
  ASSUME TypeOK, HandlesSound, NEW C \in SUBSET Channel,
         live' = Freed(C), handle' = Cleared(C)
  PROVE  HandlesSound'
<1>0. binds \in Nat /\ Held(NoHandles) = {}
  <2>1. binds \in Nat BY DEF TypeOK
  <2> QED BY <2>1, NothingHeld
<1>1. \A d \in Channel : handle'[d] = IF d \in C THEN NoHandles ELSE handle[d]
  BY DEF Cleared
<1>2. \A d, e \in Channel : d # e => Held(handle[d]) \intersect Held(handle[e]) = {}
  BY DEF HandlesSound, Channel
<1>3. ASSUME NEW d \in Channel
      PROVE  Held(handle'[d]) \subseteq live' /\ Held(handle'[d]) \subseteq Held(handle[d])
  <2>1. CASE d \in C BY <1>0, <1>1, <2>1
  <2>2. CASE d \notin C
    <3>1. \A c \in C : Held(handle[c]) \intersect Held(handle[d]) = {} BY <1>2, <2>2
    <3>2. Held(handle[d]) \subseteq live BY DEF HandlesSound
    <3>3. Held(handle[d]) \subseteq live' BY <3>1, <3>2 DEF Freed
    <3> QED BY <1>1, <2>2, <3>3
  <2> QED BY <2>1, <2>2
<1>4. Held(handle'["control"]) \intersect Held(handle'["data"]) = {}
  BY <1>3 DEF HandlesSound, Channel
<1> QED BY <1>3, <1>4 DEF HandlesSound, Held

\* What a close of channel c does.
LEMMA CloseStep ==
  ASSUME Inv, NEW c \in Channel, Close(c), pc' = pc \/ (pc' = "left" /\ c = "control"),
         pc = "serving", UNCHANGED <<level, asked, terms>>
  PROVE  /\ TlsType' /\ HandlesSound' /\ SecureOverOwnConnection' /\ ProtectionAsAsked'
         /\ RestType'
<1> USE DEF Close
<1> DEFINE C == IF secure[c] THEN {c} ELSE {}
<1>0. /\ TypeOK /\ binds \in Nat /\ sockets \in Nat
      /\ socket \in [Channel -> 0 .. sockets]
      /\ NoHandles \in Handles(binds) /\ Held(NoHandles) = {}
      /\ \A d \in Channel : handle[d] \in Handles(binds)
  <2>1. TypeOK /\ binds \in Nat /\ sockets \in Nat /\ socket \in [Channel -> 0 .. sockets]
    BY DEF Inv, TypeOK
  <2> QED BY <2>1, NothingHeld, HandleType
<1>1. /\ live' = Freed(C) /\ handle' = Cleared(C) /\ C \subseteq {c}
      /\ socket' = [socket EXCEPT ![c] = 0]
      /\ UNCHANGED <<sockets, secure, binds, established, peer>>
  OBVIOUS
<1> HIDE DEF C
<1>2. \A d \in Channel : handle'[d] = IF d \in C THEN NoHandles ELSE handle[d]
  BY <1>1 DEF Cleared
<1>3. TlsType'
  <2>1. \A d \in Channel : handle'[d] \in Handles(binds) BY <1>0, <1>2
  <2>2. handle' \in [Channel -> [Kind -> 0 .. binds]]
        /\ \A d \in Channel : handle'[d]["session"] \in {0, handle'[d]["dh"]}
    <3>1. handle' = [d \in Channel |-> handle'[d]] BY <1>1 DEF Cleared
    <3> QED BY <2>1, <3>1 DEF Handles
  <2>3. live' \subseteq Kind \X (1 .. binds) BY <1>0, <1>1 DEF TypeOK, Freed
  <2> QED BY <1>0, <1>1, <2>2, <2>3 DEF TypeOK, TlsType
<1>4. HandlesSound' BY <1>0, <1>1, <1>2, FreeSound DEF Inv
<1>5. SecureOverOwnConnection'
  <2> SUFFICES ASSUME NEW d \in Channel, secure[d], socket'[d] # 0
               PROVE  /\ handle'[d]["session"] \in established
                      /\ peer[handle'[d]["session"]] = socket'[d]
    BY <1>1 DEF SecureOverOwnConnection
  <2>1. d # c BY <1>0, <1>1
  <2>2. handle'[d] = handle[d] /\ socket'[d] = socket[d] BY <1>0, <1>1, <1>2, <2>1
  <2> QED BY <2>2 DEF Inv, SecureOverOwnConnection
<1>6. ProtectionAsAsked'
  <2> SUFFICES ASSUME socket'["data"] # 0
               PROVE  handle'["data"] = handle["data"] /\ socket["data"] # 0
    BY DEF Inv, ProtectionAsAsked
  <2>1. "data" \in Channel /\ "data" # c BY <1>0, <1>1 DEF Channel
  <2> QED BY <1>0, <1>1, <1>2, <2>1
<1>7. RestType'
  <2>1. socket' \in [Channel -> 0 .. sockets]
    <3>1. 0 \in 0 .. sockets BY <1>0
    <3> QED BY <1>0, <1>1, <3>1
  <2> QED BY <1>0, <1>1, <2>1 DEF TypeOK, RestType
<1> QED BY <1>3, <1>4, <1>5, <1>6, <1>7

\* LIST and STOR crash only on a data channel that is closed already.
LEMMA TransferStep == ASSUME Inv, Transfer PROVE Inv'
<1>0. "control" \in Channel /\ "data" \in Channel /\ "control" # "data" BY DEF Channel
<1>t. pc = "serving" /\ UNCHANGED <<level, asked, terms>> BY DEF Transfer
<1>1. CASE Close("data") /\ UNCHANGED pc
  <2>1. /\ TlsType' /\ HandlesSound' /\ SecureOverOwnConnection' /\ ProtectionAsAsked'
        /\ RestType'
    <3>1. pc' = pc /\ Close("data") BY <1>1
    <3>2. pc' = pc \/ (pc' = "left" /\ "data" = "control") BY <3>1
    <3>3. "data" \in Channel BY <1>0
    <3> QED BY <1>t, <3>1, <3>2, <3>3, CloseStep
  <2>2. ControlOpen' BY <1>0, <1>1 DEF Inv, TypeOK, Close, ControlOpen
  <2>3. LevelInv' /\ CrashNeedsClosedChannel'
    BY <1>1 DEF Transfer, Inv, LevelInv, CrashNeedsClosedChannel
  <2> QED BY <2>1, <2>2, <2>3, TypeSplit DEF Inv
<1>2. ASSUME NEW c \in Channel, Dangles(c), pc' = "crashed",
             UNCHANGED <<socket, sockets, tlsVars, level, asked, terms>>
      PROVE  Inv'
  <2> USE <1>2 DEF tlsVars
  <2>0. pc = "serving" BY DEF Transfer
  <2>1. TypeOK' BY DEF Inv, TypeOK
  <2>2. HandlesSound' BY DEF Inv, HandlesSound, Held
  <2>3. SecureOverOwnConnection' BY <2>0 DEF Inv, SecureOverOwnConnection
  <2>4. ControlOpen' /\ LevelInv' BY <2>0 DEF Inv, ControlOpen, LevelInv
  <2>5. ProtectionAsAsked' BY <2>0 DEF Inv, ProtectionAsAsked
  <2>6. CrashNeedsClosedChannel'
    <3>1. socket[c] = 0
      <4>1. 0 \notin established
        <5>1. binds \in Nat /\ established \subseteq 1 .. binds BY DEF Inv, TypeOK
        <5> QED BY <5>1
      <4> QED BY <1>2, <2>0, <4>1 DEF Dangles, Inv, SecureOverOwnConnection
    <3>2. c = "data" BY <2>0, <3>1 DEF Inv, ControlOpen, Channel
    <3> QED BY <1>2, <3>1, <3>2 DEF CrashNeedsClosedChannel, Dangles
  <2> QED BY <2>1, <2>2, <2>3, <2>4, <2>5, <2>6 DEF Inv
<1> QED BY <1>1, <1>2 DEF Transfer

\* The thread closes its control channel.
LEMMA LeaveStep == ASSUME Inv, Leave PROVE Inv'
<1>1. /\ TlsType' /\ HandlesSound' /\ SecureOverOwnConnection' /\ ProtectionAsAsked'
      /\ RestType'
  <2>1. "control" \in Channel BY DEF Channel
  <2> QED BY <2>1, CloseStep DEF Leave
<1>2. ControlOpen' /\ LevelInv' /\ CrashNeedsClosedChannel'
  BY DEF Leave, Inv, ControlOpen, LevelInv, CrashNeedsClosedChannel
<1> QED BY <1>1, <1>2, TypeSplit DEF Inv

\* The destructors free what both channels hold.
LEMMA DestroyStep == ASSUME Inv, Destroy PROVE Inv'
<1> USE DEF Destroy
<1>0. /\ TypeOK /\ binds \in Nat /\ NoHandles \in Handles(binds)
  <2>1. TypeOK /\ binds \in Nat BY DEF Inv, TypeOK
  <2> QED BY <2>1, NothingHeld
<1>1. \A d \in Channel : handle'[d] = NoHandles BY DEF Cleared
<1>2. TypeOK'
  <2>1. handle' \in [Channel -> [Kind -> 0 .. binds]]
        /\ \A d \in Channel : handle'[d]["session"] \in {0, handle'[d]["dh"]}
    <3>1. handle' = [d \in Channel |-> handle'[d]] BY DEF Cleared
    <3> QED BY <1>0, <1>1, <3>1 DEF Handles
  <2>2. live' \subseteq Kind \X (1 .. binds) BY <1>0 DEF TypeOK, Freed
  <2> QED BY <1>0, <2>1, <2>2 DEF TypeOK
<1>3. HandlesSound' BY <1>1, FreeSound DEF Inv
<1>4. SecureOverOwnConnection' /\ ControlOpen' /\ LevelInv' /\ CrashNeedsClosedChannel'
      /\ ProtectionAsAsked'
  BY DEF Inv, SecureOverOwnConnection, ControlOpen, LevelInv, CrashNeedsClosedChannel,
         ProtectionAsAsked
<1> QED BY <1>2, <1>3, <1>4 DEF Inv

\* The invariant holds in a new session, whatever m_protection_level was left as.
LEMMA InitInv == Init => Inv
<1> SUFFICES ASSUME Init PROVE Inv OBVIOUS
<1> USE TlsChannelsAssumption DEF Init
<1>1. TypeOK
  <2>1. 2 \in 2 .. MaxSockets /\ sockets = 2 OBVIOUS
  <2>2. socket \in [Channel -> 0 .. sockets] OBVIOUS
  <2>3. handle \in [Channel -> [Kind -> 0 .. binds]]
        /\ \A c \in Channel : handle[c]["session"] \in {0, handle[c]["dh"]}
    BY DEF NoHandles, Kind
  <2>4. peer \in [1 .. MaxBinds -> 0 .. sockets] OBVIOUS
  <2>5. terms \in Terms BY DEF NoTerms, Terms
  <2> QED BY <2>1, <2>2, <2>3, <2>4, <2>5 DEF TypeOK
<1>2. \A c \in Channel : Held(handle[c]) = {} BY NothingHeld
<1>3. HandlesSound BY <1>2 DEF HandlesSound, Channel
<1>4. ProtectionAsAsked
  <2>1. handle["data"]["credentials"] = 0 BY DEF NoHandles, Kind, Channel
  <2> QED BY <2>1 DEF ProtectionAsAsked, NoTerms
<1>5. SecureOverOwnConnection /\ ControlOpen /\ LevelInv /\ CrashNeedsClosedChannel
  BY DEF SecureOverOwnConnection, ControlOpen, LevelInv, CrashNeedsClosedChannel, Channel
<1> QED BY <1>1, <1>3, <1>4, <1>5 DEF Inv

\* The invariant holds throughout.
LEMMA Invariance == Spec => []Inv
<1>1. Inv /\ UNCHANGED vars => Inv'
  <2> SUFFICES ASSUME Inv, UNCHANGED vars PROVE Inv' OBVIOUS
  <2> USE DEF vars, tlsVars
  <2>1. TypeOK' BY DEF Inv, TypeOK
  <2>2. HandlesSound' BY DEF Inv, HandlesSound, Held
  <2>3. SecureOverOwnConnection' /\ ControlOpen' /\ LevelInv'
    BY DEF Inv, SecureOverOwnConnection, ControlOpen, LevelInv
  <2>4. CrashNeedsClosedChannel' /\ ProtectionAsAsked'
    BY DEF Inv, CrashNeedsClosedChannel, ProtectionAsAsked, Dangles
  <2> QED BY <2>1, <2>2, <2>3, <2>4 DEF Inv
<1>2. Inv /\ [Next]_vars => Inv'
  BY <1>1, AuthStep, ProtStep, PortStep, PasvStep, TransferStep, LeaveStep, DestroyStep DEF Next
<1> QED BY <1>2, InitInv, PTL DEF Spec

-----------------------------------------------------------------------------
(* The theorems. *)

\* Sockets, handles and objects keep their types, and a channel's m_session is NULL or
\* of the bind its m_dh_parameters are of.
THEOREM TypeCorrect == Spec => []TypeOK
<1>1. Inv => TypeOK BY DEF Inv
<1> QED BY <1>1, Invariance, PTL

\* No pointer of a channel dangles and no object is freed twice, whatever binds,
\* failures, moves and closes came before.
THEOREM NothingDangles == Spec => []HandlesSound
<1>1. Inv => HandlesSound BY DEF Inv
<1> QED BY <1>1, Invariance, PTL

\* An open channel that claims to be secure is so, to the peer of its own connection.
THEOREM SecurityIsOwn == Spec => []SecureOverOwnConnection
<1>1. Inv => SecureOverOwnConnection BY DEF Inv
<1> QED BY <1>1, Invariance, PTL

\* GnuTLS gets a NULL session only from a data channel that was closed before.
THEOREM CrashesAreRepeats == Spec => []CrashNeedsClosedChannel
<1>1. Inv => CrashNeedsClosedChannel BY DEF Inv
<1> QED BY <1>1, Invariance, PTL

\* The protection of a data channel is the one in force when PASV was answered.
THEOREM ProtectionFollowsProt == Spec => []ProtectionAsAsked
<1>1. Inv => ProtectionAsAsked BY DEF Inv
<1> QED BY <1>1, Invariance, PTL

\* Freeing what channels hold loses nothing that was not lost before.
LEMMA FreedNotLost ==
  ASSUME NEW C \in SUBSET Channel, live' = Freed(C), handle' = Cleared(C)
  PROVE  Lost' \subseteq Lost
<1> SUFFICES ASSUME NEW o \in Lost' PROVE o \in Lost OBVIOUS
<1>1. o \in live' /\ \A c \in Channel : o \notin Held(handle'[c]) BY DEF Lost, Held
<1>2. o \in live /\ \A c \in C : o \notin Held(handle[c]) BY <1>1 DEF Freed
<1>3. \A c \in Channel \ C : o \notin Held(handle[c]) BY <1>1 DEF Cleared
<1> QED BY <1>2, <1>3 DEF Lost

\* Transfers, the end of the thread and the destruction of the session lose no object.
THEOREM ClosingKeepsObjects == Spec => ClosingLosesNothing
<1>1. Inv /\ [Next]_vars =>
        (UNCHANGED binds /\ (socket["data"] = socket'["data"] \/ socket'["data"] = 0)
           => Lost' \subseteq Lost)
  <2> SUFFICES ASSUME Inv, [Next]_vars, UNCHANGED binds,
                      socket["data"] = socket'["data"] \/ socket'["data"] = 0
               PROVE  Lost' \subseteq Lost
    OBVIOUS
  <2>0. /\ binds \in Nat /\ sockets \in Nat /\ socket \in [Channel -> 0 .. sockets]
        /\ handle \in [Channel -> [Kind -> 0 .. binds]] /\ "data" \in Channel
    BY DEF Inv, TypeOK, Channel
  <2>1. CASE UNCHANGED <<live, handle>> BY <2>1 DEF Lost, Held
  <2>2. CASE command_auth BY <2>0, <2>2 DEF command_auth, SetTls
  <2>3. ASSUME NEW l \in Level, command_prot(l) PROVE Lost' \subseteq Lost
    BY <2>1, <2>3 DEF command_prot, tlsVars
  <2>4. CASE command_port
    <3>1. socket'["data"] = sockets + 1 BY <2>0, <2>4 DEF command_port
    <3> QED BY <2>0, <3>1
  <2>5. ASSUME NEW accepted \in BOOLEAN, command_pasv(accepted) PROVE Lost' \subseteq Lost
    <3>1. ~ accepted
      <4>1. accepted => socket'["data"] = sockets + 1 BY <2>0, <2>5 DEF command_pasv
      <4> QED BY <2>0, <4>1
    <3>2. ~ Protects
      <4>1. Protects => binds' = binds + 1 BY <2>5, Zenon DEF command_pasv, SetTls
      <4> QED BY <2>0, <4>1
    <3>3. handle' = handle /\ live' = live BY <2>0, <2>5, <3>1, <3>2 DEF command_pasv
    <3> QED BY <2>1, <3>3
  <2>6. ASSUME NEW c \in Channel, Close(c) PROVE Lost' \subseteq Lost
    <3> DEFINE C == IF secure[c] THEN {c} ELSE {}
    <3>1. live' = Freed(C) /\ handle' = Cleared(C) /\ C \in SUBSET Channel BY <2>6 DEF Close
    <3> HIDE DEF C
    <3> QED BY <3>1, FreedNotLost
  <2>7. CASE Destroy BY <2>7, FreedNotLost DEF Destroy
  <2>8. CASE Transfer
    <3>1. UNCHANGED <<live, handle>> \/ Close("data") BY <2>8 DEF Transfer, tlsVars
    <3> QED BY <2>0, <2>1, <2>6, <3>1
  <2>9. CASE Leave
    <3>1. Close("control") /\ "control" \in Channel BY <2>9 DEF Leave, Channel
    <3> QED BY <2>6, <3>1
  <2>10. CASE UNCHANGED vars BY <2>1, <2>10 DEF vars, tlsVars
  <2> QED BY <2>2, <2>3, <2>4, <2>5, <2>7, <2>8, <2>9, <2>10 DEF Next
<1> QED BY <1>1, Invariance, PTL DEF Spec, ClosingLosesNothing

=============================================================================
