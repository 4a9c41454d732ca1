----------------------------- MODULE MCCommandLine -----------------------------
(* Lines of a few cells: a verb alone, with and without need of an argument, PORT  *)
(* with all its numbers, with one too few and with an empty one.                   *)
EXTENDS CommandLine, Bitwise

Letter == <<"letter", 0>>
D(n)   == <<"digit", n>>

\* BitOr is the bitwise or of the community modules.
ASSUME BitOrAssumption == \A x, y \in 0 .. 20 : BitOr[<<x, y>>] = x | y

MCLine ==
  { <<Spell("QUIT"), Sep>>,
    <<Spell("STOR"), Sep>>,
    <<Spell("STOR"), Sep, Letter, Letter, Sep>>,
    <<Port, Sep, D(1), Comma, D(3), Comma, D(2), Sep>>,
    <<Port, Sep, D(1), Comma, D(3), Sep>>,
    <<Port, Sep, D(1), Comma, Comma, D(3), Sep>> }

\* A stack of zeros, and one that is full of other bytes up to a zero behind the buffer.
MCGarbage == {[i \in 1 .. BufferSize + 2 |-> IF i = BufferSize + 2 THEN Nul ELSE c] : c \in {Nul, Letter}}
=============================================================================
