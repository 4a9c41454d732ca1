---------------------------- MODULE MCFileCommands ----------------------------
(* Trees of two directories and a file, and of three directories.            *)
EXTENDS FileCommands, TLC

CONSTANTS a, b, d1, d2, d3, f1, s2

MCTree == (d1 :> <<<<a>>>>) @@ (d2 :> <<<<b>>>>) @@ (f1 :> <<<<a>>, <<b>>>>)

MCFullTree == (d1 :> <<<<a>>>>) @@ (d2 :> <<<<b>>>>) @@ (d3 :> <<<<a>>, <<b>>>>)

MCHome == [s \in Session |-> <<>>]

MCFullHome == [s \in Session |-> IF s = s2 THEN <<<<a>>>> ELSE <<>>]

\* What two sessions name, and what one does.
MCRooted == [kind : {"rooted"}, names : {<<<<a>>>>, <<<<b>>>>}]

MCArguments ==
  [kind : {"rooted", "relative"}, names : {<<<<a>>>>, <<<<b>>>>, <<<<a>>, <<b>>>>}]
    \union [kind : {"homed"}, names : {<<<<a>>>>}]

\* All sessions give all commands, and only s2 changes its folder.
MCAll  == [s \in Session |-> Verb]
MCMost == [s \in Session |-> IF s = s2 THEN Verb ELSE Verb \ {"CWD"}]
=============================================================================
