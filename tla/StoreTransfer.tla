----------------------------- MODULE StoreTransfer -----------------------------
(***************************************************************************)
(* STOR (ftp_session::command_stor) with ALLO, the data connection, the      *)
(* output file and the observers.  Several sessions append to one file, the *)
(* case in which uploads can disturb each other.  A byte is named by its    *)
(* session, its data connection and its place in the stream.  A disk that    *)
(* refused a write of an upload is taken to refuse the rest of that upload.  *)
(***************************************************************************)
EXTENDS Integers, Sequences

CONSTANTS
  Session,      \* sessions that upload to the file
  Size,         \* the sizes clients announce with ALLO
  InitialSize,  \* what m_buffer_file_size may hold before any ALLO; it is not initialised
  Chunk,        \* the receive buffer's length (2000 in command_stor)
  MaxBytes,     \* bound: bytes a client sends over one connection
  MaxLinks      \* bound: data connections of a session

ASSUME StoreAssumption ==
  /\ Size \subseteq Int
  /\ InitialSize \subseteq Int
  /\ Chunk \in Nat \ {0}
  /\ MaxBytes \in Nat
  /\ MaxLinks \in Nat

VARIABLES
  pc,       \* where each session's thread is in command_stor
  size,     \* m_buffer_file_size
  left,     \* file_total_size
  good,     \* the output file is open and no write to it has failed
  pending,  \* bytes written to the ofstream and still in its buffer
  disk,     \* the file
  link,     \* the data connection: "none", "open", or "closed" by the client
  linkNo,   \* the number of the data connection
  sent,     \* bytes the client has sent over it
  pulled,   \* bytes the server has received from it
  cut       \* history: a pull of this upload failed on its connection

linkVars == <<link, linkNo, sent, pulled>>
fileVars == <<good, pending, disk>>
vars     == <<pc, size, left, fileVars, linkVars, cut>>

Byte == Session \X (1 .. MaxLinks) \X (1 .. MaxBytes)

TypeOK ==
  /\ pc \in [Session -> {"idle", "receiving", "closing", "closed"}]
  /\ size \in [Session -> Int]
  /\ left \in [Session -> Int]
  /\ good \in [Session -> BOOLEAN]
  /\ pending \in [Session -> Seq(Byte)]
  /\ disk \in Seq(Byte)
  /\ link \in [Session -> {"none", "open", "closed"}]
  /\ linkNo \in [Session -> 0 .. MaxLinks]
  /\ sent \in [Session -> 0 .. MaxBytes]
  /\ pulled \in [Session -> 0 .. MaxBytes]
  /\ cut \in [Session -> BOOLEAN]
  /\ \A s \in Session : pulled[s] <= sent[s]
  /\ \A s \in Session : pending[s] # <<>> => good[s] /\ pc[s] \in {"receiving", "closing"}

Init ==
  /\ pc = [s \in Session |-> "idle"]
  /\ size \in [Session -> InitialSize]
  /\ left = [s \in Session |-> 0]
  /\ good = [s \in Session |-> FALSE]
  /\ pending = [s \in Session |-> <<>>]
  /\ disk = <<>>
  /\ link = [s \in Session |-> "none"]
  /\ linkNo = [s \in Session |-> 0]
  /\ sent = [s \in Session |-> 0]
  /\ pulled = [s \in Session |-> 0]
  /\ cut = [s \in Session |-> FALSE]

-----------------------------------------------------------------------------
(* The client's end of the data connection. *)

ClientWrite(s) ==
  /\ link[s] = "open"
  /\ \E n \in 1 .. MaxBytes - sent[s] : sent' = [sent EXCEPT ![s] = @ + n]
  /\ UNCHANGED <<pc, size, left, fileVars, link, linkNo, pulled, cut>>

ClientClose(s) ==
  /\ link[s] = "open"
  /\ link' = [link EXCEPT ![s] = "closed"]
  /\ UNCHANGED <<pc, size, left, fileVars, linkNo, sent, pulled, cut>>

-----------------------------------------------------------------------------
(* The session's thread. *)

At(s, label) == pc[s] = label

Goto(s, label) == pc' = [pc EXCEPT ![s] = label]

\* PASV or PORT succeeded: whatever was left on the connection before is lost.
OpenDataChannel(s) ==
  /\ At(s, "idle")
  /\ linkNo[s] < MaxLinks
  /\ link' = [link EXCEPT ![s] = "open"]
  /\ linkNo' = [linkNo EXCEPT ![s] = @ + 1]
  /\ sent' = [sent EXCEPT ![s] = 0]
  /\ pulled' = [pulled EXCEPT ![s] = 0]
  /\ UNCHANGED <<pc, size, left, fileVars, cut>>

command_allo(s) ==
  /\ At(s, "idle")
  /\ \E n \in Size : size' = [size EXCEPT ![s] = n]
  /\ UNCHANGED <<pc, left, fileVars, linkVars, cut>>

\* The file's content when an upload opens it.
Truncated(content) == <<>>   \* mutant: std::ofstream::app is missing
Opened(content) == content

\* The result of opening the file is not looked at.
command_stor(s) ==
  /\ At(s, "idle")
  /\ \E ok \in BOOLEAN :
       /\ good' = [good EXCEPT ![s] = ok]
       /\ disk' = IF ok THEN Opened(disk) ELSE disk
  /\ left' = [left EXCEPT ![s] = size[s]]
  /\ Goto(s, "receiving")
  /\ UNCHANGED <<size, pending, linkVars, cut>>

Sized(s) == size[s] > 0

\* file_total_size after n received bytes; it passes 0 when n is more than it was.
LeftByBuffer(s, n) == left[s] - Chunk   \* mutant: the buffer's length is counted
LeftAfter(s, n) == left[s] - n

\* A sized upload that wants nothing more.
Satisfied(s) == Sized(s) /\ left[s] = 0

\* The bytes from to up to of the data connection.
Stretch(s, from, upto) == [i \in 1 .. upto - from |-> <<s, linkNo[s], from + i>>]

\* The disk takes a part of what the ofstream gives it, and the stream fails.
Refuse(s, bytes) ==
  /\ \E k \in 0 .. Len(bytes) - 1 : disk' = disk \o SubSeq(bytes, 1, k)
  /\ pending' = [pending EXCEPT ![s] = <<>>]
  /\ good' = [good EXCEPT ![s] = FALSE]

\* ofstream::write of n received bytes: they stay in the buffer, or all of it goes to
\* the end of the file, or only a part; a stream that is not good does nothing.
Write(s, n) ==
  LET all == pending[s] \o Stretch(s, pulled[s], pulled[s] + n)
  IN  \/ good[s] /\ pending' = [pending EXCEPT ![s] = all] /\ UNCHANGED <<disk, good>>
      \/ good[s] /\ pending' = [pending EXCEPT ![s] = <<>>] /\ disk' = disk \o all /\ UNCHANGED good
      \/ good[s] /\ Refuse(s, all)
      \/ ~ good[s] /\ UNCHANGED fileVars

\* A pull that returns data.  The size is compared after the pull, so what a satisfied
\* upload still receives is dropped.
PullData(s) ==
  /\ At(s, "receiving")
  /\ link[s] # "none"
  /\ pulled[s] < sent[s]
  /\ \E n \in 1 .. Chunk :
       /\ n <= sent[s] - pulled[s]
       /\ pulled' = [pulled EXCEPT ![s] = @ + n]
       /\ \/ /\ Satisfied(s)
             /\ Goto(s, "closing")
             /\ UNCHANGED <<left, fileVars>>
          \/ /\ ~ Satisfied(s)
             /\ Write(s, n)
             /\ left' = [left EXCEPT ![s] = IF Sized(s) THEN LeftAfter(s, n) ELSE @]
             /\ UNCHANGED pc
  /\ UNCHANGED <<size, link, linkNo, sent, cut>>

\* A pull that returns 0 because the client closed, or an error because there is no
\* connection.
EndOnError(s) == link[s] = "none"   \* mutant: the loops go on while pull returns >= 0
NoMoreData(s) == link[s] = "none" \/ (link[s] = "closed" /\ pulled[s] = sent[s])

PullEnd(s) ==
  /\ At(s, "receiving")
  /\ NoMoreData(s)
  /\ Goto(s, "closing")
  /\ UNCHANGED <<size, left, fileVars, linkVars, cut>>

\* A pull that returns an error of recv or of gnutls_record_recv, whatever the client
\* has sent: the loops end as they do when it has closed.
PullFails(s) ==
  /\ At(s, "receiving")
  /\ link[s] # "none"
  /\ cut' = [cut EXCEPT ![s] = TRUE]
  /\ Goto(s, "closing")
  /\ UNCHANGED <<size, left, fileVars, linkVars>>

\* Mutant: the observers are notified and 226 is sent before the file is closed.
ReplyBeforeClose(s) ==
  /\ At(s, "closing")
  /\ link' = [link EXCEPT ![s] = "none"]
  /\ Goto(s, "closed")
  /\ UNCHANGED <<size, left, fileVars, linkNo, sent, pulled, cut>>

\* file_transfer.close() writes what is buffered, or a part of it; m_data_channel.close().
CloseFile(s) ==
  /\ At(s, "closing")
  /\ \/ /\ disk' = disk \o pending[s]
        /\ pending' = [pending EXCEPT ![s] = <<>>]
        /\ UNCHANGED good
     \/ Refuse(s, pending[s])
  /\ link' = [link EXCEPT ![s] = "none"]
  /\ Goto(s, "closed")
  /\ UNCHANGED <<size, left, linkNo, sent, pulled, cut>>

\* 226 and notify_observers, whatever happened before.  m_buffer_file_size stays; the
\* stream is gone, and the counters of the closed connection are of no more use.
Complete(s) ==
  /\ At(s, "closed")
  /\ good' = [good EXCEPT ![s] = FALSE]
  /\ sent' = [sent EXCEPT ![s] = 0]
  /\ pulled' = [pulled EXCEPT ![s] = 0]
  /\ cut' = [cut EXCEPT ![s] = FALSE]
  /\ Goto(s, "idle")
  /\ UNCHANGED <<size, left, pending, disk, link, linkNo>>

-----------------------------------------------------------------------------
Transfer(s) == PullData(s) \/ PullEnd(s) \/ CloseFile(s) \/ Complete(s)

Next ==
  \E s \in Session :
    \/ ClientWrite(s)
    \/ ClientClose(s)
    \/ OpenDataChannel(s)
    \/ command_allo(s)
    \/ command_stor(s)
    \/ Transfer(s)
    \/ PullFails(s)

Spec == Init /\ [][Next]_vars

\* A thread in a transfer is scheduled; nothing obliges a client to send or to close, or
\* a pull to fail.
Scheduled(s) == WF_vars(Transfer(s))

Fairness == \A s \in Session : Scheduled(s)

FairSpec == Spec /\ Fairness

-----------------------------------------------------------------------------
(* Properties. *)

\* The bytes of one data connection that reached the file.
Stored(s, c) == {k \in 1 .. MaxBytes : \E i \in DOMAIN disk : disk[i] = <<s, c, k>>}

\* What the file holds of an upload is a beginning of what its client sent, each byte
\* once and in the client's order, whatever other uploads append in between.
UploadsArePrefixes ==
  \A i \in DOMAIN disk :
    LET s == disk[i][1]  c == disk[i][2]  k == disk[i][3]
    IN  /\ k > 1 => \E j \in 1 .. i - 1 : disk[j] = <<s, c, k - 1>>
        /\ \A j \in 1 .. i - 1 : disk[j] # disk[i]

\* The file is a log of uploads: whatever the threads write and flush in between each
\* other, it only grows, by the next bytes of one connection at a time.
Log == INSTANCE UploadLog WITH log <- disk

ImplementsLog == Log!Spec

\* When 226 is sent and the observers hear of the file, and no call of the upload has
\* failed, its bytes are on the disk: all that its client sent before it closed or, if
\* m_buffer_file_size was positive, exactly that many.  A failed open, write or pull is
\* announced with 226 as well; what the size is, and from when, nobody asks.
CompleteWhenAnnounced ==
  \A s \in Session :
    At(s, "closed") /\ good[s] /\ ~ cut[s] /\ sent[s] > 0 =>
      LET got == Stored(s, linkNo[s])
      IN  got = 1 .. sent[s] \/ (Sized(s) /\ got = 1 .. size[s])

\* A pull of this upload will return: its client has closed, or there is none, or it
\* has sent more than the upload wants.
Answered(s) == link[s] # "open" \/ (Satisfied(s) /\ pulled[s] < sent[s])

\* The receive loops end once the client has closed, or has sent a byte more than the
\* announced size when exactly that many were received.  Without that byte the thread
\* pulls once more and waits.
UploadEnds == \A s \in Session : At(s, "receiving") /\ Answered(s) ~> At(s, "idle")

=============================================================================
