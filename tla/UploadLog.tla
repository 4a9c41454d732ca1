------------------------------- MODULE UploadLog -------------------------------
(***************************************************************************)
(* What a file promises to the sessions that upload to it: it only grows,    *)
(* and each time by bytes of one data connection, the ones that follow what *)
(* it already has of that connection.                                      *)
(***************************************************************************)
EXTENDS Integers, Sequences

CONSTANTS Session, MaxBytes, MaxLinks

VARIABLE log

Init == log = <<>>

\* The bytes of connection c of session s that are in the log are the first n.
HasFirst(s, c, n) ==
  \A k \in 1 .. MaxBytes : k <= n <=> \E i \in DOMAIN log : log[i] = <<s, c, k>>

Continue(s, c) ==
  \E from, upto \in 0 .. MaxBytes :
    /\ from < upto
    /\ HasFirst(s, c, from)
    /\ log' = log \o [i \in 1 .. upto - from |-> <<s, c, from + i>>]

Next == \E s \in Session, c \in 1 .. MaxLinks : Continue(s, c)

Spec == Init /\ [][Next]_log

=============================================================================
