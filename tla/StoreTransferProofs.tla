------------------------- MODULE StoreTransferProofs -------------------------
(***************************************************************************)
(* Theorems about StoreTransfer: what the file holds of an upload is a       *)
(* beginning of what was sent, and when 226 is sent and nothing failed it is  *)
(* all of it, or as much as m_buffer_file_size says.                         *)
(***************************************************************************)
EXTENDS StoreTransfer, TLAPS

-----------------------------------------------------------------------------
(* Sequences of bytes. *)

\* x is somewhere in d.
In(d, x) == \E i \in 1 .. Len(d) : d[i] = x

\* UploadsArePrefixes of any sequence d.
Prefixes(d) ==
  \A i \in DOMAIN d :
    LET s == d[i][1]  c == d[i][2]  k == d[i][3]
    IN  /\ k > 1 => \E j \in 1 .. i - 1 : d[j] = <<s, c, k - 1>>
        /\ \A j \in 1 .. i - 1 : d[j] # d[i]

\* The bytes of connection c of s in d are those from 1 to b.
UpTo(d, s, c, b) ==
  /\ \A k \in 1 .. b : In(d, <<s, c, k>>)
  /\ \A k \in 1 .. MaxBytes : In(d, <<s, c, k>>) => k <= b

\* q continues connection c of s behind byte b.
Continues(q, s, c, b) == \A i \in 1 .. Len(q) : q[i] = <<s, c, b + i>>

\* What is in a concatenation is in one of its parts.
LEMMA InConcat ==
  ASSUME NEW d \in Seq(Byte), NEW q \in Seq(Byte), NEW x
  PROVE  In(d \o q, x) <=> In(d, x) \/ In(q, x)
<1>1. ASSUME In(d, x) PROVE In(d \o q, x)
  <2>1. PICK i \in 1 .. Len(d) : d[i] = x BY <1>1 DEF In
  <2>2. i \in 1 .. Len(d \o q) /\ (d \o q)[i] = x BY <2>1
  <2> QED BY <2>2 DEF In
<1>2. ASSUME In(q, x) PROVE In(d \o q, x)
  <2>1. PICK i \in 1 .. Len(q) : q[i] = x BY <1>2 DEF In
  <2>2. Len(d) + i \in 1 .. Len(d \o q) /\ (d \o q)[Len(d) + i] = x BY <2>1
  <2> QED BY <2>2 DEF In
<1>3. ASSUME In(d \o q, x) PROVE In(d, x) \/ In(q, x)
  <2>1. PICK i \in 1 .. Len(d \o q) : (d \o q)[i] = x BY <1>3 DEF In
  <2>2. CASE i <= Len(d)
    <3>1. i \in 1 .. Len(d) /\ d[i] = x BY <2>1, <2>2
    <3> QED BY <3>1 DEF In
  <2>3. CASE i > Len(d)
    <3>1. i - Len(d) \in 1 .. Len(q) /\ q[i - Len(d)] = x BY <2>1, <2>3
    <3> QED BY <3>1 DEF In
  <2> QED BY <2>1, <2>2, <2>3
<1> QED BY <1>1, <1>2, <1>3

\* A continuation of a continuation is one.
LEMMA Joined ==
  ASSUME NEW p \in Seq(Byte), NEW q \in Seq(Byte), NEW s, NEW c, NEW b \in Nat,
         Continues(p, s, c, b), Continues(q, s, c, b + Len(p))
  PROVE  /\ p \o q \in Seq(Byte)
         /\ Len(p \o q) = Len(p) + Len(q)
         /\ Continues(p \o q, s, c, b)
<1>1. p \o q \in Seq(Byte) /\ Len(p \o q) = Len(p) + Len(q) OBVIOUS
<1>2. ASSUME NEW i \in 1 .. Len(p \o q) PROVE (p \o q)[i] = <<s, c, b + i>>
  <2>1. CASE i <= Len(p)
    <3>1. i \in 1 .. Len(p) /\ (p \o q)[i] = p[i] BY <2>1
    <3> QED BY <3>1 DEF Continues
  <2>2. CASE i > Len(p)
    <3>1. i - Len(p) \in 1 .. Len(q) /\ (p \o q)[i] = q[i - Len(p)] BY <2>2
    <3>2. q[i - Len(p)] = <<s, c, (b + Len(p)) + (i - Len(p))>> BY <3>1 DEF Continues
    <3>3. (b + Len(p)) + (i - Len(p)) = b + i OBVIOUS
    <3> QED BY <3>1, <3>2, <3>3
  <2> QED BY <2>1, <2>2
<1> QED BY <1>1, <1>2 DEF Continues

\* A beginning of a continuation is one.
LEMMA Beginning ==
  ASSUME NEW q \in Seq(Byte), NEW s, NEW c, NEW b \in Nat, Continues(q, s, c, b),
         NEW k \in 0 .. Len(q)
  PROVE  /\ SubSeq(q, 1, k) \in Seq(Byte)
         /\ Len(SubSeq(q, 1, k)) = k
         /\ Continues(SubSeq(q, 1, k), s, c, b)
<1>1. /\ SubSeq(q, 1, k) \in Seq(Byte) /\ Len(SubSeq(q, 1, k)) = k
      /\ \A i \in 1 .. k : SubSeq(q, 1, k)[i] = q[i]
  OBVIOUS
<1> QED BY <1>1 DEF Continues

\* Appending the continuation of one connection keeps every other connection's bytes,
\* and makes that connection's bytes those up to the continuation's end.
LEMMA AppendContents ==
  ASSUME NEW d \in Seq(Byte), NEW q \in Seq(Byte),
         NEW s \in Session, NEW c \in 1 .. MaxLinks, NEW b \in Nat,
         UpTo(d, s, c, b), Continues(q, s, c, b)
  PROVE  /\ UpTo(d \o q, s, c, b + Len(q))
         /\ \A t, e, k : t # s \/ e # c => (In(d \o q, <<t, e, k>>) <=> In(d, <<t, e, k>>))
<1> USE StoreAssumption
<1>1. ASSUME NEW k \in 1 .. b + Len(q) PROVE In(d \o q, <<s, c, k>>)
  <2>1. CASE k <= b BY <2>1, InConcat DEF UpTo
  <2>2. CASE k > b
    <3>1. k - b \in 1 .. Len(q) /\ q[k - b] = <<s, c, k>> BY <2>2 DEF Continues
    <3>2. In(q, <<s, c, k>>) BY <3>1 DEF In
    <3> QED BY <3>2, InConcat
  <2> QED BY <2>1, <2>2
<1>2. ASSUME NEW k \in 1 .. MaxBytes, In(d \o q, <<s, c, k>>) PROVE k <= b + Len(q)
  <2>1. CASE In(d, <<s, c, k>>) BY <2>1 DEF UpTo
  <2>2. CASE In(q, <<s, c, k>>)
    <3>1. PICK i \in 1 .. Len(q) : q[i] = <<s, c, k>> BY <2>2 DEF In
    <3>2. k = b + i BY <3>1 DEF Continues
    <3> QED BY <3>1, <3>2
  <2> QED BY <1>2, <2>1, <2>2, InConcat
<1>3. ASSUME NEW t, NEW e, NEW k, t # s \/ e # c
      PROVE  In(d \o q, <<t, e, k>>) <=> In(d, <<t, e, k>>)
  <2>1. ~ In(q, <<t, e, k>>) BY <1>3 DEF In, Continues
  <2> QED BY <2>1, InConcat
<1> QED BY <1>1, <1>2, <1>3 DEF UpTo

\* Appending the continuation of one connection keeps all uploads prefixes.
LEMMA AppendPrefixes ==
  ASSUME NEW d \in Seq(Byte), NEW q \in Seq(Byte),
         NEW s \in Session, NEW c \in 1 .. MaxLinks, NEW b \in Nat,
         Prefixes(d), UpTo(d, s, c, b), Continues(q, s, c, b)
  PROVE  Prefixes(d \o q)
<1> USE StoreAssumption
<1> DEFINE r == d \o q
<1>a. /\ r \in Seq(Byte) /\ Len(r) = Len(d) + Len(q) /\ DOMAIN r = 1 .. Len(r)
      /\ \A i \in 1 .. Len(d) : r[i] = d[i]
      /\ \A i \in Len(d) + 1 .. Len(r) : r[i] = q[i - Len(d)]
  OBVIOUS
<1> HIDE DEF r
<1> SUFFICES ASSUME NEW i \in 1 .. Len(r)
             PROVE  /\ r[i][3] > 1 => \E j \in 1 .. i - 1 : r[j] = <<r[i][1], r[i][2], r[i][3] - 1>>
                    /\ \A j \in 1 .. i - 1 : r[j] # r[i]
  BY <1>a DEF Prefixes, r
<1>1. CASE i <= Len(d)
  <2>1. i \in DOMAIN d /\ r[i] = d[i] /\ \A j \in 1 .. i - 1 : r[j] = d[j] BY <1>1, <1>a
  <2> QED BY <2>1 DEF Prefixes
<1>2. CASE i > Len(d)
  <2> DEFINE m == i - Len(d)
  <2>1. m \in 1 .. Len(q) /\ r[i] = q[m] BY <1>2, <1>a
  <2>2. r[i] = <<s, c, b + m>> BY <2>1 DEF Continues
  <2>3. b + m \in 1 .. MaxBytes
    <3>1. q[m] \in Byte BY <2>1
    <3> QED BY <3>1, <2>1, <2>2 DEF Byte
  <2>4. ASSUME b + m > 1 PROVE \E j \in 1 .. i - 1 : r[j] = <<s, c, b + m - 1>>
    <3>1. CASE m = 1
      <4>1. In(d, <<s, c, b>>) BY <2>4, <3>1 DEF UpTo
      <4>2. PICK j \in 1 .. Len(d) : d[j] = <<s, c, b>> BY <4>1 DEF In
      <4>3. j \in 1 .. i - 1 /\ r[j] = <<s, c, b + m - 1>> BY <4>2, <3>1, <1>2, <1>a
      <4> QED BY <4>3
    <3>2. CASE m > 1
      <4>1. i - 1 \in Len(d) + 1 .. Len(r) /\ (i - 1) - Len(d) = m - 1 BY <3>2, <1>2, <1>a
      <4>a. m - 1 \in 1 .. Len(q) BY <2>1, <3>2
      <4>2. q[m - 1] = <<s, c, b + (m - 1)>> BY <4>a DEF Continues
      <4>3. r[i - 1] = <<s, c, b + m - 1>> BY <4>1, <4>2, <1>a
      <4>4. i - 1 \in 1 .. i - 1 BY <4>1
      <4> QED BY <4>3, <4>4
    <3> QED BY <2>1, <3>1, <3>2
  <2>5. ASSUME NEW j \in 1 .. i - 1, r[j] = <<s, c, b + m>> PROVE FALSE
    <3>1. CASE j <= Len(d)
      <4>1. j \in 1 .. Len(d) /\ d[j] = <<s, c, b + m>> BY <2>5, <3>1, <1>a
      <4>2. In(d, <<s, c, b + m>>) BY <4>1 DEF In
      <4> QED BY <4>2, <2>1, <2>3 DEF UpTo
    <3>2. CASE j > Len(d)
      <4>1. j - Len(d) \in 1 .. Len(q) /\ r[j] = q[j - Len(d)] BY <3>2, <1>a
      <4>2. r[j] = <<s, c, b + (j - Len(d))>> BY <4>1 DEF Continues
      <4>3. b + (j - Len(d)) = b + m BY <4>2, <2>5
      <4> QED BY <4>3, <1>2
    <3> QED BY <3>1, <3>2, <1>a
  <2> QED BY <2>2, <2>4, <2>5
<1> QED BY <1>1, <1>2, <1>a

-----------------------------------------------------------------------------
(* The inductive invariant. *)

\* How the counters of a transfer hang together with its connection.
Link(s) ==
  /\ link[s] # "none" => linkNo[s] > 0
  /\ link[s] = "none" /\ ~ At(s, "closed") => pulled[s] = 0 /\ sent[s] = 0 /\ pending[s] = <<>>
  /\ At(s, "closed") => link[s] = "none"
  /\ At(s, "idle") => pulled[s] = 0
  /\ At(s, "receiving") /\ Sized(s) => left[s] = size[s] - pulled[s]

\* The file has the first b bytes of the connection, the ofstream's buffer the next
\* ones; unless a write failed, together they are all that was received, and at the end
\* all that was sent or the size, unless a pull failed.
Holds(s, b) ==
  /\ b \in 0 .. pulled[s]
  /\ UpTo(disk, s, linkNo[s], b)
  /\ Continues(pending[s], s, linkNo[s], b)
  /\ b + Len(pending[s]) <= pulled[s]
  /\ At(s, "receiving") /\ good[s] => b + Len(pending[s]) = pulled[s]
  /\ At(s, "closing") /\ good[s] /\ ~ cut[s] =>
       \/ link[s] = "closed" /\ sent[s] = b + Len(pending[s])
       \/ Sized(s) /\ size[s] = b + Len(pending[s])

Upload(s) == link[s] # "none" => \E b \in Nat : Holds(s, b)

\* CompleteWhenAnnounced of one session.
Announced(s) ==
  At(s, "closed") /\ good[s] /\ ~ cut[s] /\ sent[s] > 0 =>
    \E m \in Nat : /\ UpTo(disk, s, linkNo[s], m)
                   /\ (m = sent[s] \/ (Sized(s) /\ m = size[s]))

\* No byte in the file is of a connection that is yet to come.
NumberInv == \A s \in Session, c, k \in Nat : In(disk, <<s, c, k>>) => c <= linkNo[s]

Inv ==
  /\ TypeOK
  /\ NumberInv
  /\ UploadsArePrefixes
  /\ \A s \in Session : Link(s) /\ Upload(s) /\ Announced(s)

\* What is announced is complete in every state of the invariant.
LEMMA InvAnnounces == Inv => CompleteWhenAnnounced
<1> USE StoreAssumption
<1> SUFFICES ASSUME Inv, NEW s \in Session,
                    At(s, "closed"), good[s], ~ cut[s], sent[s] > 0
             PROVE  \/ Stored(s, linkNo[s]) = 1 .. sent[s]
                    \/ Sized(s) /\ Stored(s, linkNo[s]) = 1 .. size[s]
  BY DEF CompleteWhenAnnounced
<1>1. PICK m \in Nat : /\ UpTo(disk, s, linkNo[s], m)
                       /\ m = sent[s] \/ (Sized(s) /\ m = size[s])
  BY DEF Inv, Announced
<1>2. disk \in Seq(Byte) /\ DOMAIN disk = 1 .. Len(disk) BY DEF Inv, TypeOK
<1>3. ASSUME NEW k \in Stored(s, linkNo[s]) PROVE k \in 1 .. m
  <2>1. k \in 1 .. MaxBytes /\ In(disk, <<s, linkNo[s], k>>)
    BY <1>2, <1>3 DEF Stored, In
  <2> QED BY <1>1, <2>1 DEF UpTo
<1>4. ASSUME NEW k \in 1 .. m PROVE k \in Stored(s, linkNo[s])
  <2>1. In(disk, <<s, linkNo[s], k>>) BY <1>1, <1>4 DEF UpTo
  <2>2. PICK i \in 1 .. Len(disk) : disk[i] = <<s, linkNo[s], k>> BY <2>1 DEF In
  <2>3. disk[i] \in Byte BY <1>2, <2>2
  <2>4. k \in 1 .. MaxBytes BY <2>2, <2>3 DEF Byte
  <2> QED BY <1>2, <2>2, <2>4 DEF Stored
<1>5. Stored(s, linkNo[s]) = 1 .. m BY <1>3, <1>4
<1> QED BY <1>1, <1>5

-----------------------------------------------------------------------------
(* Writing to the ofstream. *)

\* What a write or a close may do to the file and the buffer of s, whose connection has
\* b bytes in the file.
LEMMA Flush ==
  ASSUME Inv, NEW s \in Session, link[s] # "none", NEW b \in Nat,
         UpTo(disk, s, linkNo[s], b),
         NEW q \in Seq(Byte), Continues(q, s, linkNo[s], b),
         disk' = disk \o q, linkNo' = linkNo
  PROVE  /\ disk' \in Seq(Byte)
         /\ UpTo(disk', s, linkNo[s], b + Len(q))
         /\ \A t \in Session \ {s} : \A e, k : In(disk', <<t, e, k>>) <=> In(disk, <<t, e, k>>)
         /\ NumberInv'
         /\ UploadsArePrefixes'
<1> USE StoreAssumption
<1>1. linkNo[s] \in 1 .. MaxLinks /\ disk \in Seq(Byte) BY DEF Inv, TypeOK, Link
<1>2. /\ UpTo(disk', s, linkNo[s], b + Len(q))
      /\ \A t, e, k : t # s \/ e # linkNo[s] => (In(disk', <<t, e, k>>) <=> In(disk, <<t, e, k>>))
  BY <1>1, AppendContents
<1>4. NumberInv'
  <2> SUFFICES ASSUME NEW t \in Session, NEW c \in Nat, NEW k \in Nat, In(disk', <<t, c, k>>)
               PROVE  c <= linkNo[t]
    BY DEF NumberInv
  <2>1. CASE t = s /\ c = linkNo[s] BY <1>1, <2>1
  <2>2. CASE t # s \/ c # linkNo[s] BY <1>2, <2>2 DEF NumberInv, Inv
  <2> QED BY <2>1, <2>2
<1>5. UploadsArePrefixes'
  <2>1. Prefixes(disk) BY DEF Inv, UploadsArePrefixes, Prefixes
  <2>2. Prefixes(disk') BY <2>1, <1>1, AppendPrefixes
  <2> QED BY <2>2 DEF UploadsArePrefixes, Prefixes
<1> QED BY <1>1, <1>2, <1>4, <1>5

\* The bytes of a write continue those that are buffered.
LEMMA WriteContinues ==
  ASSUME Inv, NEW s \in Session, link[s] # "none", NEW b \in Nat, Holds(s, b),
         b + Len(pending[s]) = pulled[s],
         NEW n \in Nat, n <= sent[s] - pulled[s]
  PROVE  LET all == pending[s] \o Stretch(s, pulled[s], pulled[s] + n)
         IN  /\ all \in Seq(Byte)
             /\ Continues(all, s, linkNo[s], b)
             /\ Len(all) = Len(pending[s]) + n
<1> USE StoreAssumption
<1> DEFINE new == Stretch(s, pulled[s], pulled[s] + n)
<1>0. /\ linkNo[s] \in 1 .. MaxLinks /\ pending[s] \in Seq(Byte)
      /\ pulled[s] \in Nat /\ sent[s] \in 0 .. MaxBytes
  BY DEF Inv, TypeOK, Link
<1>1. new = [i \in 1 .. n |-> <<s, linkNo[s], pulled[s] + i>>]
  BY <1>0 DEF Stretch
<1>2. \A i \in 1 .. n : <<s, linkNo[s], pulled[s] + i>> \in Byte
  BY <1>0 DEF Byte
<1>3. new \in Seq(Byte) /\ Len(new) = n
      /\ \A i \in 1 .. n : new[i] = <<s, linkNo[s], pulled[s] + i>>
  BY <1>1, <1>2
<1> HIDE DEF new
<1>4. Continues(new, s, linkNo[s], b + Len(pending[s]))
  BY <1>3 DEF Continues
<1>6. Continues(pending[s], s, linkNo[s], b) BY DEF Holds
<1>7. new \in Seq(Byte) /\ Len(new) = n BY <1>3
<1>8. /\ pending[s] \o new \in Seq(Byte)
      /\ Len(pending[s] \o new) = Len(pending[s]) + Len(new)
      /\ Continues(pending[s] \o new, s, linkNo[s], b)
  BY <1>0, <1>4, <1>6, <1>7, Joined
<1> QED BY <1>7, <1>8 DEF new

-----------------------------------------------------------------------------
(* The steps. *)

\* A step that neither touches t nor adds bytes of t to the file.
Untouched(t) ==
  /\ pc'[t] = pc[t] /\ size'[t] = size[t] /\ left'[t] = left[t]
  /\ good'[t] = good[t] /\ pending'[t] = pending[t] /\ link'[t] = link[t]
  /\ cut'[t] = cut[t]
  /\ linkNo'[t] = linkNo[t] /\ sent'[t] = sent[t] /\ pulled'[t] = pulled[t]
  /\ \A k : In(disk', <<t, linkNo[t], k>>) <=> In(disk, <<t, linkNo[t], k>>)

\* A session that a step does not touch keeps its part of the invariant.
LEMMA Frame ==
  ASSUME Inv, NEW t \in Session, Untouched(t)
  PROVE  Link(t)' /\ Upload(t)' /\ Announced(t)'
<1>1. Link(t)' BY DEF Inv, Link, Untouched, At, Sized
<1>2. Upload(t)'
  <2>1. ASSUME NEW b \in Nat, Holds(t, b) PROVE Holds(t, b)'
    BY <2>1 DEF Untouched, Holds, UpTo, Continues, At, Sized
  <2>2. Upload(t) BY DEF Inv
  <2> QED BY <2>1, <2>2 DEF Upload, Untouched
<1>3. Announced(t)'
  BY DEF Inv, Announced, Untouched, UpTo, At, Sized
<1> QED BY <1>1, <1>2, <1>3

\* A step that leaves the file alone and no connection's number decreases.
LEMMA FileKept ==
  ASSUME Inv, disk' = disk, linkNo' \in [Session -> Nat],
         \A t \in Session : linkNo[t] <= linkNo'[t]
  PROVE  NumberInv' /\ UploadsArePrefixes'
<1>1. NumberInv'
  <2> SUFFICES ASSUME NEW t \in Session, NEW c \in Nat, NEW k \in Nat, In(disk, <<t, c, k>>)
               PROVE  c <= linkNo'[t]
    BY DEF NumberInv, In
  <2>1. c <= linkNo[t] BY DEF Inv, NumberInv
  <2>2. linkNo[t] \in Nat BY StoreAssumption DEF Inv, TypeOK
  <2> QED BY <2>1, <2>2
<1>2. UploadsArePrefixes' BY DEF Inv, UploadsArePrefixes
<1> QED BY <1>1, <1>2

\* A step that leaves the file and the connections' numbers alone.
LEMMA FileSame ==
  ASSUME Inv, disk' = disk, linkNo' = linkNo
  PROVE  NumberInv' /\ UploadsArePrefixes'
<1>1. /\ linkNo' \in [Session -> Nat]
      /\ \A t \in Session : linkNo[t] <= linkNo'[t]
  BY StoreAssumption DEF Inv, TypeOK
<1> QED BY <1>1, FileKept

\* What the client sends is only added to sent; a closed upload has no connection.
LEMMA ClientWriteKeeps == ASSUME Inv, NEW s \in Session, ClientWrite(s) PROVE Inv'
<1> USE StoreAssumption DEF ClientWrite, fileVars
<1>1. TypeOK'
  <2>1. PICK n \in 1 .. MaxBytes - sent[s] : sent' = [sent EXCEPT ![s] = @ + n]
    OBVIOUS
  <2>2. sent[s] + n \in 0 .. MaxBytes /\ pulled[s] <= sent[s] + n
    BY DEF Inv, TypeOK
  <2>3. sent' \in [Session -> 0 .. MaxBytes] /\ \A t \in Session : pulled[t] <= sent'[t]
    BY <2>1, <2>2 DEF Inv, TypeOK
  <2> QED BY <2>3 DEF Inv, TypeOK
<1>2. NumberInv' /\ UploadsArePrefixes' BY FileSame
<1>3. ASSUME NEW t \in Session \ {s} PROVE Link(t)' /\ Upload(t)' /\ Announced(t)'
  <2>1. Untouched(t) BY DEF Untouched, Inv, TypeOK, In
  <2> QED BY <2>1, Frame
<1>4. Link(s)' BY DEF Inv, Link, At, Sized
<1>5. Upload(s)'
  <2>1. PICK b \in Nat : Holds(s, b) BY DEF Inv, Upload
  <2>2. Holds(s, b)' BY <2>1 DEF Holds, UpTo, In, Continues, At, Sized
  <2> QED BY <2>2 DEF Upload
<1>6. Announced(s)' BY DEF Inv, Link, Announced, At
<1> QED BY <1>1, <1>2, <1>3, <1>4, <1>5, <1>6 DEF Inv

\* Closing the connection takes nothing from the file or the buffer.
LEMMA ClientCloseKeeps == ASSUME Inv, NEW s \in Session, ClientClose(s) PROVE Inv'
<1> USE StoreAssumption DEF ClientClose, fileVars
<1>1. TypeOK' BY DEF Inv, TypeOK
<1>2. NumberInv' /\ UploadsArePrefixes' BY FileSame
<1>3. ASSUME NEW t \in Session \ {s} PROVE Link(t)' /\ Upload(t)' /\ Announced(t)'
  <2>1. Untouched(t) BY DEF Untouched, Inv, TypeOK, In
  <2> QED BY <2>1, Frame
<1>0. link'[s] = "closed" BY DEF Inv, TypeOK
<1>4. Link(s)' BY <1>0 DEF Inv, Link, At, Sized
<1>5. Upload(s)'
  <2>1. PICK b \in Nat : Holds(s, b) BY DEF Inv, Upload
  <2>2. Holds(s, b)' BY <2>1, <1>0 DEF Holds, UpTo, In, Continues, At, Sized
  <2> QED BY <2>2 DEF Upload
<1>6. Announced(s)' BY DEF Inv, Link, Announced, At
<1> QED BY <1>1, <1>2, <1>3, <1>4, <1>5, <1>6 DEF Inv

\* A new connection has a new number, of which nothing is in the file (NumberInv).
LEMMA OpenDataChannelKeeps == ASSUME Inv, NEW s \in Session, OpenDataChannel(s) PROVE Inv'
<1> USE StoreAssumption DEF OpenDataChannel, fileVars
<1>a. pc[s] = "idle" /\ pending[s] = <<>> BY DEF Inv, TypeOK, At
<1>b. link'[s] = "open" /\ linkNo'[s] = linkNo[s] + 1 BY DEF Inv, TypeOK
<1>c. sent'[s] = 0 /\ pulled'[s] = 0 /\ linkNo[s] \in Nat BY DEF Inv, TypeOK
<1>0. /\ link'[s] = "open" /\ linkNo'[s] = linkNo[s] + 1 /\ linkNo[s] \in Nat
      /\ sent'[s] = 0 /\ pulled'[s] = 0 /\ pc[s] = "idle" /\ pending[s] = <<>>
  BY <1>a, <1>b, <1>c
<1>1. TypeOK' BY DEF Inv, TypeOK
<1>2. NumberInv' /\ UploadsArePrefixes'
  <2>1. linkNo' \in [Session -> Nat] /\ \A t \in Session : linkNo[t] <= linkNo'[t]
    BY DEF Inv, TypeOK
  <2> QED BY <2>1, FileKept
<1>3. ASSUME NEW t \in Session \ {s} PROVE Link(t)' /\ Upload(t)' /\ Announced(t)'
  <2>1. Untouched(t) BY DEF Untouched, Inv, TypeOK, In
  <2> QED BY <2>1, Frame
<1>4. Link(s)' BY <1>0 DEF Inv, Link, At, Sized
<1>5. Upload(s)'
  <2>1. \A k \in 1 .. MaxBytes : ~ In(disk, <<s, linkNo[s] + 1, k>>)
    BY <1>0 DEF Inv, NumberInv
  <2>2. UpTo(disk', s, linkNo'[s], 0) BY <2>1, <1>0 DEF UpTo
  <2>3. Holds(s, 0)' BY <2>2, <1>0 DEF Holds, Continues, At
  <2> QED BY <2>3 DEF Upload
<1>6. Announced(s)' BY <1>0 DEF Announced
<1> QED BY <1>1, <1>2, <1>3, <1>4, <1>5, <1>6 DEF Inv

\* The size is only compared while an upload runs, and ALLO comes between uploads.
LEMMA AlloKeeps == ASSUME Inv, NEW s \in Session, command_allo(s) PROVE Inv'
<1> USE StoreAssumption DEF command_allo, linkVars, fileVars
<1>1. TypeOK' BY DEF Inv, TypeOK
<1>2. NumberInv' /\ UploadsArePrefixes' BY FileSame
<1>3. ASSUME NEW t \in Session \ {s} PROVE Link(t)' /\ Upload(t)' /\ Announced(t)'
  <2>1. Untouched(t) BY DEF Untouched, Inv, TypeOK, In
  <2> QED BY <2>1, Frame
<1>4. Link(s)' BY DEF Inv, Link, At
<1>5. Upload(s)'
  <2>1. ASSUME NEW b \in Nat, Holds(s, b) PROVE Holds(s, b)'
    BY <2>1 DEF Holds, UpTo, In, Continues, At
  <2> QED BY <2>1 DEF Upload, Inv
<1>6. Announced(s)' BY DEF Announced, At
<1> QED BY <1>1, <1>2, <1>3, <1>4, <1>5, <1>6 DEF Inv

\* An upload begins with nothing received and with file_total_size at the full size.
LEMMA StorKeeps == ASSUME Inv, NEW s \in Session, command_stor(s) PROVE Inv'
<1> USE StoreAssumption DEF command_stor, Goto, linkVars
<1>0. /\ pc[s] = "idle" /\ pc'[s] = "receiving" /\ disk' = disk
      /\ left'[s] = size[s] /\ size[s] \in Int /\ pending[s] = <<>> /\ pulled[s] = 0
  BY DEF Inv, TypeOK, Link, At, Opened
<1>1. TypeOK' BY <1>0 DEF Inv, TypeOK
<1>2. NumberInv' /\ UploadsArePrefixes' BY <1>0, FileSame
<1>3. ASSUME NEW t \in Session \ {s} PROVE Link(t)' /\ Upload(t)' /\ Announced(t)'
  <2>1. Untouched(t) BY <1>0 DEF Untouched, Inv, TypeOK, In
  <2> QED BY <2>1, Frame
<1>4. Link(s)' BY <1>0 DEF Inv, Link, At, Sized
<1>5. Upload(s)'
  <2>1. ASSUME NEW b \in Nat, Holds(s, b) PROVE Holds(s, b)'
    <3>1. b = 0 BY <1>0, <2>1 DEF Holds
    <3>2. UpTo(disk', s, linkNo'[s], b) BY <1>0, <2>1 DEF Holds
    <3> QED BY <1>0, <3>1, <3>2 DEF Holds, Continues, At
  <2> QED BY <2>1 DEF Upload, Inv
<1>6. Announced(s)' BY <1>0 DEF Announced, At
<1> QED BY <1>1, <1>2, <1>3, <1>4, <1>5, <1>6 DEF Inv

\* What a write or a close leaves: the bytes q behind those that the file has of s, and
\* an empty buffer.  They are all that were to be written if the stream is still good.
Flushes(s, all, q) ==
  /\ disk' = disk \o q
  /\ pending' = [pending EXCEPT ![s] = <<>>]
  /\ good' \in [Session -> BOOLEAN]
  /\ \A t \in Session \ {s} : good'[t] = good[t]
  /\ good'[s] => Len(q) = Len(all)

\* Bytes that are all written, or that the disk refuses, are flushed up to some point.
LEMMA FlushOrRefuse ==
  ASSUME Inv, NEW s \in Session, NEW c, NEW b \in Nat,
         NEW all \in Seq(Byte), Continues(all, s, c, b),
         \/ disk' = disk \o all /\ pending' = [pending EXCEPT ![s] = <<>>] /\ good' = good
         \/ Refuse(s, all)
  PROVE  \E q \in Seq(Byte) : Continues(q, s, c, b) /\ Len(q) <= Len(all) /\ Flushes(s, all, q)
<1>0. good \in [Session -> BOOLEAN] /\ Len(all) \in Nat BY DEF Inv, TypeOK
<1>1. CASE disk' = disk \o all /\ pending' = [pending EXCEPT ![s] = <<>>] /\ good' = good
  <2>1. Flushes(s, all, all) /\ Len(all) <= Len(all) BY <1>0, <1>1 DEF Flushes
  <2> QED BY <2>1
<1>2. CASE Refuse(s, all)
  <2>1. PICK k \in 0 .. Len(all) - 1 : disk' = disk \o SubSeq(all, 1, k) BY <1>2 DEF Refuse
  <2> DEFINE q == SubSeq(all, 1, k)
  <2>2. k \in 0 .. Len(all) BY <1>0
  <2>3. q \in Seq(Byte) /\ Len(q) = k /\ Continues(q, s, c, b)
    <3> HIDE DEF q
    <3> QED BY <2>2, Beginning DEF q
  <2>4. disk' = disk \o q BY <2>1
  <2> HIDE DEF q
  <2>5. Flushes(s, all, q) BY <1>0, <1>2, <2>4 DEF Flushes, Refuse
  <2>6. Len(q) <= Len(all) BY <1>0, <2>3
  <2> QED BY <2>3, <2>5, <2>6
<1> QED BY <1>1, <1>2

\* A pull that takes n bytes and writes them.
LEMMA PullWriteKeeps ==
  ASSUME Inv, NEW s \in Session, NEW n \in 1 .. Chunk,
         At(s, "receiving"), link[s] # "none", n <= sent[s] - pulled[s],
         pulled' = [pulled EXCEPT ![s] = @ + n],
         Write(s, n),
         left' \in [Session -> Int],
         \A t \in Session \ {s} : left'[t] = left[t],
         Sized(s) => left'[s] = left[s] - n,
         UNCHANGED <<pc, size, link, linkNo, sent, cut>>
  PROVE  Inv'
<1> USE StoreAssumption
<1> DEFINE all == pending[s] \o Stretch(s, pulled[s], pulled[s] + n)
<1>0. /\ pulled'[s] = pulled[s] + n /\ pulled[s] \in Nat /\ sent[s] \in Nat /\ n \in Nat
      /\ pc[s] = "receiving" /\ pending[s] \in Seq(Byte) /\ disk \in Seq(Byte)
      /\ linkNo[s] \in 0 .. MaxLinks /\ left[s] \in Int /\ size[s] \in Int
  BY DEF Inv, TypeOK, At
<1>a. pulled' \in [Session -> 0 .. MaxBytes] /\ \A t \in Session : pulled'[t] <= sent'[t]
  BY <1>0 DEF Inv, TypeOK
<1>1. PICK b \in Nat : Holds(s, b) BY DEF Inv, Upload
<1>2. Len(pending[s]) \in Nat BY <1>0
<1>4. Link(s)'
  <2>0. Sized(s) => left[s] = size[s] - pulled[s] BY DEF Inv, Link, At
  <2>1. Sized(s) => left'[s] = size[s] - pulled'[s]
    <3> SUFFICES ASSUME Sized(s) PROVE left'[s] = size[s] - pulled'[s] OBVIOUS
    <3>1. left'[s] = left[s] - n OBVIOUS
    <3>2. left[s] = size[s] - pulled[s] BY <2>0
    <3>3. pulled'[s] = pulled[s] + n BY <1>0
    <3>4. size[s] \in Int /\ pulled[s] \in Int /\ n \in Int BY <1>0
    <3> QED BY <3>1, <3>2, <3>3, <3>4
  <2>2. linkNo[s] > 0 BY DEF Inv, Link
  <2> QED BY <2>1, <2>2, <1>0 DEF Link, At, Sized
<1>6. Announced(s)' BY <1>0 DEF Announced, At
<1>7. CASE ~ good[s]
  <2> USE <1>7
  <2>1. pending' = pending /\ disk' = disk /\ good' = good BY DEF Write, fileVars
  <2>2. TypeOK' BY <2>1, <1>a DEF Inv, TypeOK
  <2>3. NumberInv' /\ UploadsArePrefixes' BY <2>1, FileSame
  <2>4. ASSUME NEW t \in Session \ {s} PROVE Link(t)' /\ Upload(t)' /\ Announced(t)'
    <3>1. Untouched(t) BY <2>1 DEF Untouched, Inv, TypeOK, In
    <3> QED BY <3>1, Frame
  <2>5. Upload(s)'
    <3>1. UpTo(disk', s, linkNo'[s], b) /\ Continues(pending'[s], s, linkNo'[s], b)
      BY <1>1, <2>1 DEF Holds
    <3>2. b <= pulled[s] /\ b + Len(pending[s]) <= pulled[s] BY <1>0, <1>1 DEF Holds
    <3>3. b \in 0 .. pulled'[s] /\ b + Len(pending[s]) <= pulled'[s] BY <3>2, <1>0, <1>2
    <3>4. Holds(s, b)' BY <3>1, <3>3, <1>0, <2>1 DEF Holds, At
    <3> QED BY <3>4 DEF Upload
  <2> QED BY <2>2, <2>3, <2>4, <2>5, <1>4, <1>6 DEF Inv
<1>8. CASE good[s]
  <2> USE <1>8
  <2>1. b + Len(pending[s]) = pulled[s] BY <1>1, <1>0 DEF Holds, At
  <2>2. /\ all \in Seq(Byte)
        /\ Continues(all, s, linkNo[s], b)
        /\ Len(all) = Len(pending[s]) + n
    <3>1. n \in Nat BY <1>0
    <3> HIDE DEF all
    <3> QED BY <2>1, <1>1, <3>1, WriteContinues DEF all
  <2>3. UpTo(disk, s, linkNo[s], b) BY <1>1 DEF Holds
  <2>w. \/ pending' = [pending EXCEPT ![s] = all] /\ disk' = disk /\ good' = good
        \/ disk' = disk \o all /\ pending' = [pending EXCEPT ![s] = <<>>] /\ good' = good
        \/ Refuse(s, all)
    BY DEF Write
  <2> HIDE DEF all
  <2>s. b + Len(all) = pulled'[s] /\ b + Len(all) \in Nat /\ Len(all) \in Nat
    <3>1. b + Len(pending[s]) = pulled[s] BY <2>1
    <3>2. Len(all) = Len(pending[s]) + n BY <2>2
    <3>3. pulled'[s] = pulled[s] + n BY <1>0
    <3>4. Len(pending[s]) \in Nat /\ n \in Nat /\ b \in Nat /\ pulled[s] \in Nat BY <1>0, <1>2
    <3> QED BY <3>1, <3>2, <3>3, <3>4
  <2>4. CASE pending' = [pending EXCEPT ![s] = all] /\ disk' = disk /\ good' = good
    <3>0. pending'[s] = all /\ pending' \in [Session -> Seq(Byte)] BY <2>2, <2>4 DEF Inv, TypeOK
    <3>1. TypeOK'
      <4>1. \A t \in Session : pending'[t] # <<>> => good'[t] /\ pc'[t] \in {"receiving", "closing"}
        BY <2>4, <1>0 DEF Inv, TypeOK
      <4> QED BY <2>4, <3>0, <4>1, <1>a DEF Inv, TypeOK
    <3>2. NumberInv' /\ UploadsArePrefixes' BY <2>4, FileSame
    <3>3. ASSUME NEW t \in Session \ {s} PROVE Link(t)' /\ Upload(t)' /\ Announced(t)'
      <4>1. Untouched(t) BY <2>4 DEF Untouched, Inv, TypeOK, In
      <4> QED BY <4>1, Frame
    <3>4. Upload(s)'
      <4>1. UpTo(disk', s, linkNo'[s], b) /\ Continues(pending'[s], s, linkNo'[s], b)
        BY <2>2, <2>3, <2>4, <3>0
      <4>2. b + Len(pending'[s]) = pulled'[s] BY <2>s, <3>0
      <4>3. b \in 0 .. pulled'[s] BY <1>0, <1>1 DEF Holds
      <4>4. Holds(s, b)' BY <4>1, <4>2, <4>3, <1>0 DEF Holds, At
      <4> QED BY <4>4 DEF Upload
    <3> QED BY <3>1, <3>2, <3>3, <3>4, <1>4, <1>6 DEF Inv
  <2>5. ASSUME NEW q \in Seq(Byte), Continues(q, s, linkNo[s], b), Len(q) <= Len(all),
               Flushes(s, all, q)
        PROVE  Inv'
    <3> USE <2>5 DEF Flushes
    <3>f. /\ disk' \in Seq(Byte)
          /\ UpTo(disk', s, linkNo[s], b + Len(q))
          /\ \A t \in Session \ {s} : \A e, k : In(disk', <<t, e, k>>) <=> In(disk, <<t, e, k>>)
          /\ NumberInv'
          /\ UploadsArePrefixes'
      BY <2>3, Flush
    <3>0. pending'[s] = <<>> /\ pending' \in [Session -> Seq(Byte)] BY DEF Inv, TypeOK
    <3>1. TypeOK'
      <4>1. \A t \in Session : pending'[t] # <<>> => good'[t] /\ pc'[t] \in {"receiving", "closing"}
        BY DEF Inv, TypeOK
      <4> QED BY <3>f, <3>0, <4>1, <1>a DEF Inv, TypeOK
    <3>3. ASSUME NEW t \in Session \ {s} PROVE Link(t)' /\ Upload(t)' /\ Announced(t)'
      <4>1. Untouched(t) BY <3>f DEF Untouched, Inv, TypeOK
      <4> QED BY <4>1, Frame
    <3>4. Upload(s)'
      <4>0. Len(q) \in Nat OBVIOUS
      <4>a. PICK e \in Nat : e = b + Len(q) BY <4>0
      <4>1. UpTo(disk', s, linkNo'[s], e) BY <3>f, <4>a
      <4>2. e \in 0 .. pulled'[s] /\ e + 0 <= pulled'[s] /\ (good'[s] => e + 0 = pulled'[s])
        BY <2>s, <4>0, <4>a
      <4>3. Len(pending'[s]) = 0 BY <3>0
      <4>4. Continues(pending'[s], s, linkNo'[s], e) BY <4>3 DEF Continues
      <4>5. Holds(s, e)' BY <4>1, <4>2, <4>3, <4>4, <1>0 DEF Holds, At
      <4> QED BY <4>5 DEF Upload
    <3> QED BY <3>f, <3>1, <3>3, <3>4, <1>4, <1>6 DEF Inv
  <2> QED BY <2>w, <2>2, <2>4, <2>5, FlushOrRefuse
<1> QED BY <1>7, <1>8

\* A pull writes what it received, or ends an upload that has the announced size.
LEMMA PullDataKeeps == ASSUME Inv, NEW s \in Session, PullData(s) PROVE Inv'
<1> USE StoreAssumption
<1>1. PICK n \in 1 .. Chunk :
        /\ n <= sent[s] - pulled[s]
        /\ pulled' = [pulled EXCEPT ![s] = @ + n]
        /\ \/ /\ Satisfied(s)
              /\ Goto(s, "closing")
              /\ UNCHANGED <<left, fileVars>>
           \/ /\ ~ Satisfied(s)
              /\ Write(s, n)
              /\ left' = [left EXCEPT ![s] = IF Sized(s) THEN LeftAfter(s, n) ELSE @]
              /\ UNCHANGED pc
  BY DEF PullData
<1>0. /\ At(s, "receiving") /\ link[s] # "none"
      /\ UNCHANGED <<size, link, linkNo, sent, cut>>
  BY DEF PullData
<1>2. left \in [Session -> Int] /\ n \in Int BY DEF Inv, TypeOK
<1>3. CASE /\ Write(s, n)
           /\ left' = [left EXCEPT ![s] = IF Sized(s) THEN LeftAfter(s, n) ELSE @]
           /\ UNCHANGED pc
  <2>1. /\ left' \in [Session -> Int] /\ \A t \in Session \ {s} : left'[t] = left[t]
        /\ Sized(s) => left'[s] = left[s] - n
    BY <1>2, <1>3 DEF LeftAfter
  <2> QED BY <1>0, <1>1, <1>3, <2>1, PullWriteKeeps
<1>5. CASE Satisfied(s) /\ Goto(s, "closing") /\ UNCHANGED <<left, fileVars>>
  <2> USE <1>0, <1>1, <1>5 DEF Goto, fileVars, Satisfied
  <2>0. /\ pc[s] = "receiving" /\ pc'[s] = "closing" /\ pulled'[s] = pulled[s] + n
        /\ pulled[s] = size[s] /\ pulled[s] \in Nat
    BY DEF Inv, TypeOK, Link, At
  <2>1. TypeOK'
    <3>1. pulled' \in [Session -> 0 .. MaxBytes] /\ \A t \in Session : pulled'[t] <= sent'[t]
      BY DEF Inv, TypeOK
    <3>2. pc' \in [Session -> {"idle", "receiving", "closing", "closed"}]
          /\ \A t \in Session : pending'[t] # <<>> => good'[t] /\ pc'[t] \in {"receiving", "closing"}
      BY DEF Inv, TypeOK
    <3> QED BY <3>1, <3>2 DEF Inv, TypeOK
  <2>2. NumberInv' /\ UploadsArePrefixes' BY FileSame
  <2>3. ASSUME NEW t \in Session \ {s} PROVE Link(t)' /\ Upload(t)' /\ Announced(t)'
    <3>1. Untouched(t) BY DEF Untouched, Inv, TypeOK, In
    <3> QED BY <3>1, Frame
  <2>4. Link(s)' BY <2>0 DEF Inv, Link, At, Sized
  <2>5. Upload(s)'
    <3>1. PICK b \in Nat : Holds(s, b) BY DEF Inv, Upload
    <3>2. Len(pending[s]) \in Nat BY DEF Inv, TypeOK
    <3>3. UpTo(disk', s, linkNo'[s], b) /\ Continues(pending'[s], s, linkNo'[s], b)
      BY <3>1 DEF Holds
    <3>4. b \in 0 .. pulled'[s] /\ b + Len(pending'[s]) <= pulled'[s]
      BY <3>1, <3>2, <2>0 DEF Holds
    <3>5. good'[s] => size'[s] = b + Len(pending'[s])
      BY <3>1, <3>2, <2>0 DEF Holds, At
    <3>6. Holds(s, b)' BY <3>3, <3>4, <3>5, <2>0 DEF Holds, At, Sized
    <3> QED BY <3>6 DEF Upload
  <2>6. Announced(s)' BY <2>0 DEF Announced, At
  <2> QED BY <2>1, <2>2, <2>3, <2>4, <2>5, <2>6 DEF Inv
<1> QED BY <1>1, <1>3, <1>5

\* A pull that returns 0 ends an upload that has received all that was sent.
LEMMA PullEndKeeps == ASSUME Inv, NEW s \in Session, PullEnd(s) PROVE Inv'
<1> USE StoreAssumption DEF PullEnd, NoMoreData, Goto, linkVars, fileVars
<1>0. pc[s] = "receiving" /\ pc'[s] = "closing" BY DEF Inv, TypeOK, At
<1>1. TypeOK' BY <1>0 DEF Inv, TypeOK
<1>2. NumberInv' /\ UploadsArePrefixes' BY FileSame
<1>3. ASSUME NEW t \in Session \ {s} PROVE Link(t)' /\ Upload(t)' /\ Announced(t)'
  <2>1. Untouched(t) BY DEF Untouched, Inv, TypeOK, In
  <2> QED BY <2>1, Frame
<1>4. Link(s)' BY <1>0 DEF Inv, Link, At, Sized
<1>5. Upload(s)'
  <2>1. ASSUME NEW b \in Nat, Holds(s, b), link[s] # "none" PROVE Holds(s, b)'
    BY <2>1, <1>0 DEF Holds, UpTo, In, Continues, At
  <2> QED BY <2>1 DEF Upload, Inv
<1>6. Announced(s)' BY <1>0 DEF Announced, At
<1> QED BY <1>1, <1>2, <1>3, <1>4, <1>5, <1>6 DEF Inv

\* So does a pull that fails, whatever it has received.
LEMMA PullFailsKeeps == ASSUME Inv, NEW s \in Session, PullFails(s) PROVE Inv'
<1> USE StoreAssumption DEF PullFails, Goto, linkVars, fileVars
<1>0. pc[s] = "receiving" /\ pc'[s] = "closing" /\ cut'[s] = TRUE BY DEF Inv, TypeOK, At
<1>1. TypeOK' BY <1>0 DEF Inv, TypeOK
<1>2. NumberInv' /\ UploadsArePrefixes' BY FileSame
<1>3. ASSUME NEW t \in Session \ {s} PROVE Link(t)' /\ Upload(t)' /\ Announced(t)'
  <2>1. Untouched(t) BY DEF Untouched, Inv, TypeOK, In
  <2> QED BY <2>1, Frame
<1>4. Link(s)' BY <1>0 DEF Inv, Link, At, Sized
<1>5. Upload(s)'
  <2>1. ASSUME NEW b \in Nat, Holds(s, b) PROVE Holds(s, b)'
    BY <2>1, <1>0 DEF Holds, UpTo, In, Continues, At
  <2> QED BY <2>1 DEF Upload, Inv
<1>6. Announced(s)' BY <1>0 DEF Announced, At
<1> QED BY <1>1, <1>2, <1>3, <1>4, <1>5, <1>6 DEF Inv

\* Closing the file appends the buffer, after which everything received is in the file
\* if the stream is still good.
LEMMA CloseFileKeeps == ASSUME Inv, NEW s \in Session, CloseFile(s) PROVE Inv'
<1> USE StoreAssumption DEF CloseFile, Goto
<1>0. /\ pc[s] = "closing" /\ pc'[s] = "closed" /\ link'[s] = "none"
      /\ pending[s] \in Seq(Byte) /\ disk \in Seq(Byte)
      /\ UNCHANGED <<size, left, linkNo, sent, pulled, cut>>
  BY DEF Inv, TypeOK, At
<1>w. \/ disk' = disk \o pending[s] /\ pending' = [pending EXCEPT ![s] = <<>>] /\ good' = good
      \/ Refuse(s, pending[s])
  OBVIOUS
<1>p. pc' \in [Session -> {"idle", "receiving", "closing", "closed"}]
      /\ link' \in [Session -> {"none", "open", "closed"}]
      /\ \A t \in Session \ {s} : pc'[t] = pc[t] /\ link'[t] = link[t]
  BY DEF Inv, TypeOK
<1>g. ASSUME NEW q \in Seq(Byte), Flushes(s, pending[s], q),
             disk' \in Seq(Byte), NumberInv', UploadsArePrefixes', Announced(s)',
             \A t \in Session \ {s} : \A e, k : In(disk', <<t, e, k>>) <=> In(disk, <<t, e, k>>)
      PROVE  Inv'
  <2> USE <1>g DEF Flushes
  <2>0. pending'[s] = <<>> /\ pending' \in [Session -> Seq(Byte)] BY DEF Inv, TypeOK
  <2>a. \A t \in Session \ {s} : pending'[t] = pending[t] BY DEF Inv, TypeOK
  <2>1. TypeOK'
    <3>1. \A t \in Session : pending'[t] # <<>> => good'[t] /\ pc'[t] \in {"receiving", "closing"}
      BY <2>0, <2>a, <1>p DEF Inv, TypeOK
    <3> QED BY <2>0, <3>1, <1>0, <1>p DEF Inv, TypeOK
  <2>3. ASSUME NEW t \in Session \ {s} PROVE Link(t)' /\ Upload(t)' /\ Announced(t)'
    <3>1. Untouched(t) BY <2>a, <1>0, <1>p DEF Untouched
    <3> QED BY <3>1, Frame
  <2>4. Link(s)' BY <1>0 DEF Link, At
  <2>5. Upload(s)' BY <1>0 DEF Upload
  <2> QED BY <2>1, <2>3, <2>4, <2>5 DEF Inv
<1>2. CASE link[s] = "none"
  <2>1. pending[s] = <<>> /\ sent[s] = 0 BY <1>2, <1>0 DEF Inv, Link, At
  <2>2. Continues(pending[s], s, linkNo[s], 0) BY <2>1 DEF Continues
  <2>3. PICK q \in Seq(Byte) : Len(q) <= Len(pending[s]) /\ Flushes(s, pending[s], q)
    BY <1>0, <1>w, <2>2, FlushOrRefuse
  <2>4. q = <<>> BY <2>1, <2>3
  <2>5. disk' = disk BY <2>3, <2>4, <1>0 DEF Flushes
  <2>6. NumberInv' /\ UploadsArePrefixes' BY <2>5, <1>0, FileSame
  <2>7. Announced(s)' BY <2>1, <1>0 DEF Announced
  <2> QED BY <1>0, <1>g, <2>3, <2>5, <2>6, <2>7
<1>3. CASE link[s] # "none"
  <2>1. PICK b \in Nat : Holds(s, b) BY <1>3 DEF Inv, Upload
  <2>2. UpTo(disk, s, linkNo[s], b) /\ Continues(pending[s], s, linkNo[s], b)
    BY <2>1 DEF Holds
  <2>3. PICK q \in Seq(Byte) : Continues(q, s, linkNo[s], b) /\ Flushes(s, pending[s], q)
    BY <1>0, <1>w, <2>2, FlushOrRefuse
  <2>4. /\ disk' \in Seq(Byte)
        /\ UpTo(disk', s, linkNo[s], b + Len(q))
        /\ \A t \in Session \ {s} : \A e, k : In(disk', <<t, e, k>>) <=> In(disk, <<t, e, k>>)
        /\ NumberInv'
        /\ UploadsArePrefixes'
    BY <1>0, <1>3, <2>2, <2>3, Flush DEF Flushes
  <2>5. Announced(s)'
    <3> SUFFICES ASSUME good'[s], ~ cut[s]
                 PROVE  \E m \in Nat : /\ UpTo(disk', s, linkNo[s], m)
                                       /\ m = sent[s] \/ (Sized(s) /\ m = size[s])
      BY <1>0 DEF Announced, Sized
    <3>1. Len(q) = Len(pending[s]) /\ Len(q) \in Nat BY <2>3 DEF Flushes
    <3>2. good[s]
      <4>1. CASE Refuse(s, pending[s])
        <5>1. good'[s] = FALSE BY <4>1 DEF Refuse, Inv, TypeOK
        <5> QED BY <5>1
      <4>2. CASE good' = good BY <4>2
      <4> QED BY <1>w, <4>1, <4>2
    <3>3. \/ sent[s] = b + Len(q)
          \/ Sized(s) /\ size[s] = b + Len(q)
      BY <2>1, <3>1, <3>2, <1>0 DEF Holds, At
    <3>4. b + Len(q) \in Nat BY <3>1
    <3> QED BY <2>4, <3>3, <3>4
  <2> QED BY <1>g, <2>3, <2>4, <2>5
<1> QED BY <1>2, <1>3

\* After 226 the counters start again; the connection is gone already.
LEMMA CompleteKeeps == ASSUME Inv, NEW s \in Session, Complete(s) PROVE Inv'
<1> USE StoreAssumption DEF Complete, Goto
<1>0. /\ pc[s] = "closed" /\ pc'[s] = "idle" /\ link[s] = "none" /\ pulled'[s] = 0
      /\ sent'[s] = 0 /\ pending[s] = <<>>
  BY DEF Inv, TypeOK, Link, At
<1>1. TypeOK' BY <1>0 DEF Inv, TypeOK
<1>2. NumberInv' /\ UploadsArePrefixes' BY FileSame
<1>3. ASSUME NEW t \in Session \ {s} PROVE Link(t)' /\ Upload(t)' /\ Announced(t)'
  <2>1. Untouched(t) BY DEF Untouched, Inv, TypeOK, In
  <2> QED BY <2>1, Frame
<1>4. Link(s)' BY <1>0 DEF Link, At
<1>5. Upload(s)' BY <1>0 DEF Upload
<1>6. Announced(s)' BY <1>0 DEF Announced, At
<1> QED BY <1>1, <1>2, <1>3, <1>4, <1>5, <1>6 DEF Inv

-----------------------------------------------------------------------------
(* The theorems. *)

\* Before any upload the file is empty.
LEMMA InitInv == Init => Inv
<1> USE StoreAssumption
<1> SUFFICES ASSUME Init PROVE Inv OBVIOUS
<1> USE DEF Init
<1>1. TypeOK
  <2>1. \A s \in Session : pulled[s] <= sent[s]
    <3> SUFFICES ASSUME NEW s \in Session PROVE pulled[s] <= sent[s] OBVIOUS
    <3>1. pulled[s] = 0 /\ sent[s] = 0 OBVIOUS
    <3>2. 0 <= 0 OBVIOUS
    <3> QED BY <3>1, <3>2
  <2>2. \A s \in Session : pending[s] = <<>> OBVIOUS
  <2>3. pending \in [Session -> Seq(Byte)] /\ disk \in Seq(Byte) OBVIOUS
  <2>4. /\ size \in [Session -> Int] /\ left \in [Session -> Int]
        /\ linkNo \in [Session -> 0 .. MaxLinks]
    <3>1. size \in [Session -> InitialSize] /\ InitialSize \subseteq Int OBVIOUS
    <3>2. size \in [Session -> Int] BY <3>1
    <3>3. left \in [Session -> Int] OBVIOUS
    <3>4. linkNo \in [Session -> 0 .. MaxLinks] OBVIOUS
    <3> QED BY <3>2, <3>3, <3>4
  <2>5. sent \in [Session -> 0 .. MaxBytes] /\ pulled \in [Session -> 0 .. MaxBytes]
    OBVIOUS
  <2> QED BY <2>1, <2>2, <2>3, <2>4, <2>5 DEF TypeOK
<1>2. Len(disk) = 0 /\ disk = <<>> OBVIOUS
<1>3. NumberInv BY <1>2 DEF NumberInv, In
<1>4. UploadsArePrefixes BY <1>2 DEF UploadsArePrefixes
<1>5. ASSUME NEW s \in Session PROVE Link(s) /\ Upload(s) /\ Announced(s)
  BY DEF Link, Upload, Announced, At
<1> QED BY <1>1, <1>3, <1>4, <1>5 DEF Inv

\* Every step of a client or of a session keeps the invariant.
LEMMA StepInv == Inv /\ [Next]_vars => Inv'
<1> SUFFICES ASSUME Inv, [Next]_vars PROVE Inv' OBVIOUS
<1>1. CASE UNCHANGED vars
  <2> USE <1>1 DEF vars, linkVars, fileVars
  <2>1. TypeOK' BY DEF Inv, TypeOK
  <2>2. NumberInv' /\ UploadsArePrefixes' BY DEF Inv, NumberInv, UploadsArePrefixes, In
  <2>3. ASSUME NEW t \in Session PROVE Link(t)' /\ Upload(t)' /\ Announced(t)'
    <3>1. Untouched(t) BY DEF Untouched, In
    <3> QED BY <3>1, Frame
  <2> QED BY <2>1, <2>2, <2>3 DEF Inv
<1>2. ASSUME NEW s \in Session,
             \/ ClientWrite(s) \/ ClientClose(s) \/ OpenDataChannel(s)
             \/ command_allo(s) \/ command_stor(s) \/ Transfer(s) \/ PullFails(s)
      PROVE  Inv'
  <2>1. CASE ClientWrite(s) BY <2>1, ClientWriteKeeps
  <2>2. CASE ClientClose(s) BY <2>2, ClientCloseKeeps
  <2>3. CASE OpenDataChannel(s) BY <2>3, OpenDataChannelKeeps
  <2>4. CASE command_allo(s) BY <2>4, AlloKeeps
  <2>5. CASE command_stor(s) BY <2>5, StorKeeps
  <2>6. CASE PullData(s) BY <2>6, PullDataKeeps
  <2>7. CASE PullEnd(s) BY <2>7, PullEndKeeps
  <2>8. CASE CloseFile(s) BY <2>8, CloseFileKeeps
  <2>9. CASE Complete(s) BY <2>9, CompleteKeeps
  <2>10. CASE PullFails(s) BY <2>10, PullFailsKeeps
  <2> QED BY <1>2, <2>1, <2>2, <2>3, <2>4, <2>5, <2>6, <2>7, <2>8, <2>9, <2>10 DEF Transfer
<1> QED BY <1>1, <1>2 DEF Next

\* The invariant holds throughout.
LEMMA Invariance == Spec => []Inv
BY InitInv, StepInv, PTL DEF Spec

\* The variables of command_stor and of the data connections keep their types: nothing
\* is received that was not sent, and only an upload with an open file has bytes in its
\* buffer.
THEOREM TypeCorrect == Spec => []TypeOK
<1>1. Inv => TypeOK BY DEF Inv
<1> QED BY <1>1, Invariance, PTL

\* However uploads to one file interleave, and wherever the library flushes, the file
\* holds of each data connection a beginning of what the client sent over it, each byte
\* once and in order.
THEOREM StoredPrefixes == Spec => []UploadsArePrefixes
<1>1. Inv => UploadsArePrefixes BY DEF Inv
<1> QED BY <1>1, Invariance, PTL

\* When 226 is sent and no open, write or pull of the upload has failed, the file has
\* exactly what was sent or, if m_buffer_file_size was positive, exactly that much of it,
\* however the uploads to that file interleave.
THEOREM AnnouncedComplete == Spec => []CompleteWhenAnnounced
BY InvAnnounces, Invariance, PTL

-----------------------------------------------------------------------------
(* StoreTransfer implements UploadLog. *)

\* Bytes that continue what the file has of a connection extend the log.
LEMMA Extends ==
  ASSUME Inv, NEW s \in Session, link[s] # "none", NEW b \in Nat,
         UpTo(disk, s, linkNo[s], b),
         NEW q \in Seq(Byte), Continues(q, s, linkNo[s], b), b + Len(q) <= MaxBytes,
         disk' = disk \o q
  PROVE  [Log!Next]_disk
<1> USE StoreAssumption
<1>0. /\ linkNo[s] \in 1 .. MaxLinks /\ disk \in Seq(Byte)
      /\ Len(q) \in Nat
  BY DEF Inv, TypeOK, Link
<1>1. CASE q = <<>>
  <2>1. disk \o q = disk BY <1>0, <1>1
  <2> QED BY <2>1
<1>2. CASE q # <<>>
  <2> DEFINE c == linkNo[s]
             upto == b + Len(q)
  <2>1. Len(q) > 0 BY <1>2
  <2>2. /\ b \in 0 .. MaxBytes /\ upto \in 0 .. MaxBytes
        /\ b < upto /\ upto - b = Len(q)
    BY <1>0, <2>1
  <2>3. q = [i \in 1 .. upto - b |-> <<s, c, b + i>>]
    <3>1. q = [i \in 1 .. Len(q) |-> q[i]] OBVIOUS
    <3>2. \A i \in 1 .. Len(q) : q[i] = <<s, c, b + i>> BY DEF Continues
    <3> QED BY <3>1, <3>2, <2>2
  <2>4. Log!HasFirst(s, c, b)
    <3> SUFFICES ASSUME NEW k \in 1 .. MaxBytes
                 PROVE  k <= b <=> \E i \in DOMAIN disk : disk[i] = <<s, c, k>>
      BY DEF Log!HasFirst
    <3>1. DOMAIN disk = 1 .. Len(disk) BY <1>0
    <3>2. k <= b => In(disk, <<s, c, k>>) BY DEF UpTo
    <3>3. In(disk, <<s, c, k>>) => k <= b BY DEF UpTo
    <3> QED BY <3>1, <3>2, <3>3 DEF In
  <2>5. Log!Continue(s, c) BY <2>2, <2>3, <2>4 DEF Log!Continue
  <2> QED BY <1>0, <2>5 DEF Log!Next
<1> QED BY <1>1, <1>2

\* So does the part of them that the disk takes.
LEMMA RefuseExtends ==
  ASSUME Inv, NEW s \in Session, link[s] # "none", NEW b \in Nat,
         UpTo(disk, s, linkNo[s], b),
         NEW q \in Seq(Byte), Continues(q, s, linkNo[s], b), b + Len(q) <= MaxBytes,
         Refuse(s, q)
  PROVE  [Log!Next]_disk
<1> USE StoreAssumption
<1>1. PICK k \in 0 .. Len(q) - 1 : disk' = disk \o SubSeq(q, 1, k) BY DEF Refuse
<1> DEFINE p == SubSeq(q, 1, k)
<1>2. Len(q) \in Nat /\ k \in 0 .. Len(q) OBVIOUS
<1>3. p \in Seq(Byte) /\ Len(p) = k /\ Continues(p, s, linkNo[s], b)
  <2> HIDE DEF p
  <2> QED BY <1>2, Beginning DEF p
<1>4. disk' = disk \o p BY <1>1
<1> HIDE DEF p
<1>5. b + Len(p) <= MaxBytes BY <1>2, <1>3
<1> QED BY <1>3, <1>4, <1>5, Extends

\* A pull that makes the library write its buffer extends the log.
LEMMA PullExtends == ASSUME Inv, NEW s \in Session, PullData(s) PROVE [Log!Next]_disk
<1> USE StoreAssumption
<1>1. At(s, "receiving") /\ link[s] # "none" BY DEF PullData
<1>2. PICK n \in 1 .. Chunk :
        /\ n <= sent[s] - pulled[s]
        /\ UNCHANGED disk \/ Write(s, n)
  BY DEF PullData, fileVars
<1>3. CASE UNCHANGED disk BY <1>3
<1>4. CASE Write(s, n) /\ disk' # disk
  <2> DEFINE all == pending[s] \o Stretch(s, pulled[s], pulled[s] + n)
  <2>1. good[s] /\ (disk' = disk \o all \/ Refuse(s, all)) BY <1>4 DEF Write, fileVars
  <2>2. PICK b \in Nat : Holds(s, b) BY <1>1 DEF Inv, Upload
  <2>3. b + Len(pending[s]) = pulled[s] BY <1>1, <2>1, <2>2 DEF Holds
  <2>4. n \in Nat OBVIOUS
  <2>5. /\ all \in Seq(Byte)
        /\ Continues(all, s, linkNo[s], b)
        /\ Len(all) = Len(pending[s]) + n
    BY <1>1, <1>2, <2>2, <2>3, <2>4, WriteContinues
  <2> HIDE DEF all
  <2>6. b + Len(all) <= MaxBytes
    <3>1. /\ pending[s] \in Seq(Byte) /\ sent[s] \in 0 .. MaxBytes
          /\ pulled[s] \in 0 .. MaxBytes
      BY DEF Inv, TypeOK
    <3>2. Len(pending[s]) \in Nat BY <3>1
    <3>3. Len(all) = Len(pending[s]) + n BY <2>5
    <3>4. b + Len(all) = pulled[s] + n BY <3>2, <3>3, <2>3, <2>4
    <3>5. pulled[s] + n <= sent[s] BY <3>1, <1>2, <2>4
    <3> QED BY <3>1, <3>4, <3>5, <2>4
  <2>7. UpTo(disk, s, linkNo[s], b) BY <2>2 DEF Holds
  <2>8. CASE disk' = disk \o all
    BY <1>1, <2>5, <2>6, <2>7, <2>8, Extends
  <2>9. CASE Refuse(s, all)
    BY <1>1, <2>5, <2>6, <2>7, <2>9, RefuseExtends
  <2> QED BY <2>1, <2>8, <2>9
<1> QED BY <1>2, <1>3, <1>4

\* So does closing the file.
LEMMA CloseExtends == ASSUME Inv, NEW s \in Session, CloseFile(s) PROVE [Log!Next]_disk
<1> USE StoreAssumption
<1>0. /\ disk' = disk \o pending[s] \/ Refuse(s, pending[s])
      /\ At(s, "closing")
      /\ pending[s] \in Seq(Byte) /\ disk \in Seq(Byte)
  BY DEF CloseFile, Inv, TypeOK
<1>1. CASE link[s] = "none"
  <2>1. pending[s] = <<>> BY <1>0, <1>1 DEF Inv, Link, At
  <2>2. ~ Refuse(s, pending[s])
    <3>1. Len(pending[s]) = 0 BY <2>1
    <3>2. 0 .. 0 - 1 = {} OBVIOUS
    <3> QED BY <3>1, <3>2 DEF Refuse
  <2> QED BY <1>0, <2>1, <2>2
<1>2. CASE link[s] # "none"
  <2>1. PICK b \in Nat : Holds(s, b) BY <1>2 DEF Inv, Upload
  <2>2. UpTo(disk, s, linkNo[s], b) /\ Continues(pending[s], s, linkNo[s], b)
    BY <2>1 DEF Holds
  <2>3. b + Len(pending[s]) <= MaxBytes
    <3>1. pulled[s] \in 0 .. MaxBytes /\ Len(pending[s]) \in Nat BY <1>0 DEF Inv, TypeOK
    <3>2. b + Len(pending[s]) <= pulled[s] BY <2>1 DEF Holds
    <3> QED BY <3>1, <3>2
  <2>4. CASE disk' = disk \o pending[s] BY <1>0, <1>2, <2>2, <2>3, <2>4, Extends
  <2>5. CASE Refuse(s, pending[s]) BY <1>0, <1>2, <2>2, <2>3, <2>5, RefuseExtends
  <2> QED BY <1>0, <2>4, <2>5
<1> QED BY <1>1, <1>2

\* The uploads of all sessions implement an append-only log: every change of the file
\* is the addition of the next bytes of one data connection.
THEOREM LogImplemented == Spec => ImplementsLog
<1>1. Init => Log!Init BY DEF Init, Log!Init
<1>2. Inv /\ [Next]_vars => [Log!Next]_disk
  <2> SUFFICES ASSUME Inv, [Next]_vars PROVE [Log!Next]_disk OBVIOUS
  <2>1. CASE UNCHANGED vars BY <2>1 DEF vars, fileVars
  <2>2. ASSUME NEW s \in Session,
               \/ ClientWrite(s) \/ ClientClose(s) \/ OpenDataChannel(s)
               \/ command_allo(s) \/ PullEnd(s) \/ PullFails(s) \/ Complete(s)
        PROVE  [Log!Next]_disk
    BY <2>2 DEF ClientWrite, ClientClose, OpenDataChannel, command_allo, PullEnd, PullFails,
                Complete, fileVars
  <2>3. ASSUME NEW s \in Session, command_stor(s) PROVE [Log!Next]_disk
    BY <2>3 DEF command_stor, Opened
  <2>4. ASSUME NEW s \in Session, PullData(s) PROVE [Log!Next]_disk
    BY <2>4, PullExtends
  <2>5. ASSUME NEW s \in Session, CloseFile(s) PROVE [Log!Next]_disk
    BY <2>5, CloseExtends
  <2> QED BY <2>1, <2>2, <2>3, <2>4, <2>5 DEF Next, Transfer
<1> QED BY <1>1, <1>2, Invariance, PTL DEF Spec, ImplementsLog, Log!Spec

-----------------------------------------------------------------------------
(* The end of an upload. *)

\* An upload that will end without another step of its client.
Ending(s) == (At(s, "receiving") /\ Answered(s)) \/ At(s, "closing") \/ At(s, "closed")

\* What it has still to do: a pull for each byte at most, one if it wants no more.
Work(s) ==
  IF At(s, "receiving")
  THEN IF Satisfied(s) /\ pulled[s] < sent[s] THEN 2 ELSE sent[s] - pulled[s] + 2
  ELSE IF At(s, "closing") THEN 1 ELSE 0

\* One of the thread's steps can be taken.  Here the prover does not look into ENABLED.
ThreadCanAct(s) == Ending(s) => ENABLED <<Transfer(s)>>_vars

\* A step of the thread, or a failing pull, leaves less to do.
LEMMA TransferWorks ==
  ASSUME TypeOK, NEW s \in Session, Ending(s), Transfer(s) \/ PullFails(s)
  PROVE  At(s, "idle")' \/ (Ending(s)' /\ Work(s)' < Work(s))
<1> USE StoreAssumption DEF At, Goto
<1>1. /\ pc \in [Session -> {"idle", "receiving", "closing", "closed"}]
      /\ sent[s] \in Nat /\ pulled[s] \in Nat /\ pulled[s] <= sent[s]
      /\ pulled \in [Session -> 0 .. MaxBytes]
  BY DEF TypeOK
<1>a. pc[s] = "receiving" => Work(s) \in Nat /\ Work(s) >= 2 BY <1>1 DEF Work
<1>b. pc'[s] = "closing" => Ending(s)' /\ Work(s)' = 1 BY DEF Ending, Work
<1>2. CASE PullData(s)
  <2>0. /\ pc[s] = "receiving" /\ link' = link /\ sent' = sent
        /\ pc'[s] \in {"receiving", "closing"}
    BY <1>1, <1>2 DEF PullData
  <2>1. CASE pc'[s] = "closing" BY <1>a, <1>b, <2>0, <2>1
  <2>2. CASE pc'[s] = "receiving"
    <3>1. ~ Satisfied(s) BY <1>1, <1>2, <2>0, <2>2 DEF PullData
    <3>2. link[s] # "open" BY <2>0, <3>1 DEF Ending, Answered
    <3>3. PICK n \in 1 .. Chunk : n <= sent[s] - pulled[s] /\ pulled' = [pulled EXCEPT ![s] = @ + n]
      BY <1>2 DEF PullData
    <3>4. pulled'[s] = pulled[s] + n BY <1>1, <3>3
    <3>5. Ending(s)' BY <2>0, <2>2, <3>2 DEF Ending, Answered
    <3>6. Work(s) = sent[s] - pulled[s] + 2 BY <2>0, <3>1 DEF Work
    <3>7. Work(s)' < sent[s] - pulled[s] + 2
      BY <1>1, <2>0, <2>2, <3>3, <3>4 DEF Work
    <3> QED BY <3>5, <3>6, <3>7
  <2> QED BY <2>0, <2>1, <2>2
<1>3. CASE PullEnd(s) \/ PullFails(s)
  <2>1. pc[s] = "receiving" /\ pc'[s] = "closing" BY <1>1, <1>3 DEF PullEnd, PullFails
  <2> QED BY <1>a, <1>b, <2>1
<1>4. CASE CloseFile(s)
  <2>1. pc[s] = "closing" /\ pc'[s] = "closed" BY <1>1, <1>4 DEF CloseFile
  <2> QED BY <2>1 DEF Ending, Work
<1>5. CASE Complete(s)
  BY <1>1, <1>5 DEF Complete
<1> QED BY <1>2, <1>3, <1>4, <1>5 DEF Transfer

\* Neither its client nor another session gives the thread more to do.
LEMMA OthersLeaveWork ==
  ASSUME TypeOK, [Next]_vars, NEW s \in Session, Ending(s)
  PROVE  Transfer(s) \/ PullFails(s) \/ (Ending(s)' /\ Work(s)' = Work(s))
<1> USE StoreAssumption DEF At, Goto
<1>1. /\ pc \in [Session -> {"idle", "receiving", "closing", "closed"}]
      /\ link \in [Session -> {"none", "open", "closed"}]
      /\ sent \in [Session -> 0 .. MaxBytes] /\ pulled \in [Session -> 0 .. MaxBytes]
      /\ size \in [Session -> Int] /\ left \in [Session -> Int]
      /\ pulled[s] <= sent[s]
  BY DEF TypeOK
<1>2. CASE /\ pc'[s] = pc[s] /\ link'[s] = link[s] /\ sent'[s] = sent[s] /\ pulled'[s] = pulled[s]
           /\ size'[s] = size[s] /\ left'[s] = left[s]
  BY <1>2 DEF Ending, Work, Answered, Satisfied, Sized
<1>3. CASE UNCHANGED vars
  BY <1>2, <1>3 DEF vars, linkVars
<1>4. ASSUME NEW t \in Session, t # s,
             \/ ClientWrite(t) \/ ClientClose(t) \/ OpenDataChannel(t) \/ command_allo(t)
             \/ command_stor(t) \/ Transfer(t) \/ PullFails(t)
      PROVE  /\ pc'[s] = pc[s] /\ link'[s] = link[s] /\ sent'[s] = sent[s] /\ pulled'[s] = pulled[s]
             /\ size'[s] = size[s] /\ left'[s] = left[s]
  <2>1. CASE ClientWrite(t) \/ ClientClose(t) \/ OpenDataChannel(t) \/ command_allo(t) \/ command_stor(t)
    BY <1>1, <1>4, <2>1 DEF ClientWrite, ClientClose, OpenDataChannel, command_allo, command_stor, linkVars
  <2>2. CASE PullData(t)
    BY <1>1, <1>4, <2>2 DEF PullData
  <2>3. CASE PullEnd(t) \/ PullFails(t) \/ CloseFile(t) \/ Complete(t)
    BY <1>1, <1>4, <2>3 DEF PullEnd, PullFails, CloseFile, Complete, linkVars
  <2> QED BY <1>4, <2>1, <2>2, <2>3 DEF Transfer
<1>5. ~ OpenDataChannel(s) /\ ~ command_allo(s) /\ ~ command_stor(s)
  BY DEF Ending, OpenDataChannel, command_allo, command_stor
<1>6. CASE ClientWrite(s)
  <2>1. PICK n \in 1 .. MaxBytes - sent[s] : sent' = [sent EXCEPT ![s] = @ + n]
    BY <1>6 DEF ClientWrite
  <2>2. sent'[s] = sent[s] + n /\ sent[s] \in Nat /\ pulled[s] \in Nat BY <1>1, <2>1
  <2>3. link[s] = "open" /\ UNCHANGED <<pc, size, left, link, pulled>> BY <1>6 DEF ClientWrite
  <2>4. CASE pc[s] = "receiving"
    <3>1. Satisfied(s) /\ pulled[s] < sent[s] BY <2>3, <2>4 DEF Ending, Answered
    <3>2. Satisfied(s)' /\ pulled'[s] < sent'[s] BY <2>2, <2>3, <3>1 DEF Satisfied, Sized
    <3> QED BY <2>3, <2>4, <3>1, <3>2 DEF Ending, Answered, Work
  <2>5. CASE pc[s] # "receiving" BY <2>3, <2>5 DEF Ending, Work
  <2> QED BY <2>4, <2>5
<1>7. CASE ClientClose(s)
  <2>1. /\ UNCHANGED <<pc, size, left, sent, pulled>> /\ link[s] = "open" /\ link'[s] = "closed"
    BY <1>1, <1>7 DEF ClientClose
  <2> QED BY <2>1 DEF Ending, Answered, Work, Satisfied, Sized
<1> QED BY <1>2, <1>3, <1>4, <1>5, <1>6, <1>7 DEF Next

\* An upload that needs nothing more of its client comes closer to its end with every
\* pull: with at most n steps left it is over or has fewer.  (UploadEnds follows by
\* induction on n.)
THEOREM UploadsAdvance ==
  \A s \in Session : \A n \in Nat :
    FairSpec /\ []ThreadCanAct(s)
      => ((Ending(s) /\ Work(s) = n) ~> (At(s, "idle") \/ (Ending(s) /\ Work(s) < n)))
<1> SUFFICES ASSUME NEW s \in Session, NEW n \in Nat
             PROVE  FairSpec /\ []ThreadCanAct(s)
                      => ((Ending(s) /\ Work(s) = n)
                            ~> (At(s, "idle") \/ (Ending(s) /\ Work(s) < n)))
  OBVIOUS
<1> DEFINE P == Ending(s) /\ Work(s) = n
           Q == At(s, "idle") \/ (Ending(s) /\ Work(s) < n)
<1>1. TypeOK /\ P /\ [Next]_vars => P' \/ Q'
  BY TransferWorks, OthersLeaveWork
<1>2. TypeOK /\ P /\ <<Transfer(s)>>_vars => Q'
  BY TransferWorks
<1>3. P /\ ThreadCanAct(s) => ENABLED <<Transfer(s)>>_vars
  BY DEF ThreadCanAct
<1>4. Fairness => Scheduled(s)
  BY DEF Fairness
<1> HIDE DEF P, Q
<1>5. FairSpec /\ []ThreadCanAct(s) => (P ~> Q)
  BY <1>1, <1>2, <1>3, <1>4, TypeCorrect, PTL DEF FairSpec, Spec, Scheduled
<1> QED BY <1>5 DEF P, Q

=============================================================================
