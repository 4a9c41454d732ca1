---------------------------- MODULE MCFtpSession ----------------------------
(* Values of FtpSession's constants for TLC. *)
EXTENDS FtpSession

CONSTANTS alice, bob, pwAlice, pwBob, word, number, address, homeA, homeB

MCArg   == {Empty, Tls, alice, bob, pwAlice, pwBob, word, number, address, Tilde}
MCUsers == [u \in {alice, bob} |->
              IF u = alice THEN [password |-> pwAlice, folder |-> homeA]
                           ELSE [password |-> pwBob, folder |-> homeB]]

Lines(verbs, args) == [verb : verbs, arg : args]

\* Two users, right and wrong passwords, an unknown login.
LoginLines == Lines({"USER"}, {alice, bob, word}) \union Lines({"PASS"}, {pwAlice, pwBob})
                \union Lines({"QUIT"}, {Empty})

\* The same amid TLS upgrades and lines of every other kind.
SessionLines == LoginLines \union Lines({"AUTH"}, {Tls}) \union Lines({"ALLO"}, {number})
                  \union Lines({"PORT"}, {address, word}) \union Lines({"CWD"}, {Tilde})
                  \union Lines({"PASV"}, {Empty})
=============================================================================
