------------------------------ MODULE CommandLine ------------------------------
(***************************************************************************)
(* From the bytes of a control connection to a command: the receive buffer   *)
(* of ftp_session::client_session_thread, which is neither cleared nor ended *)
(* by a zero, and the parser in ftp_command's constructor.                  *)
(*                                                                         *)
(* A line is a sequence of cells: a whole verb, a letter, a digit, a comma,  *)
(* a separator (blanks and line ends alike) or the zero byte.               *)
(***************************************************************************)
EXTENDS Integers, Sequences, SequencesExt

CONSTANTS
  Verb,           \* keys of FTP_MAP_COMMAND, without PORT and SITE UTIME, which is no word
  ArgumentVerb,   \* those whose next word is taken as an argument
  Line,           \* what clients send
  Garbage,        \* what the memory from the buffer on may hold before anything was received
  AddressFields,  \* numbers of an address in PORT (4)
  ByteBits,       \* bits of a byte (8)
  BufferSize,     \* 2000 in client_session_thread
  MaxWire,        \* bound: cells on their way to the server
  MaxPulls        \* bound: pulls of the thread

Sep   == <<"sep", 0>>
Nul   == <<"nul", 0>>
Comma == <<"comma", 0>>
Port  == <<"verb", "PORT">>
Spell(v) == <<"verb", v>>

Cell == ({"sep", "nul", "comma", "letter"} \X {0}) \union
        ({"verb"} \X (Verb \union {"PORT"})) \union ({"digit"} \X Nat)

ASSUME LineAssumption ==
  /\ ArgumentVerb \subseteq Verb
  /\ {"PORT", "UNKNOWN", "INCOMPLETE", "throws", "none"} \intersect Verb = {}
  /\ Line \subseteq Seq(Cell) \ {<<>>}
  /\ \A line \in Line : Last(line) = Sep
  /\ Garbage \subseteq Seq(Cell)
  /\ \A g \in Garbage : Len(g) > BufferSize /\ Last(g) = Nul
  /\ AddressFields \in Nat \ {0} /\ ByteBits \in Nat
  /\ BufferSize \in Nat /\ MaxWire \in Nat /\ MaxPulls \in Nat

VARIABLES
  wire,    \* cells sent and not yet received
  buffer,  \* client_message and the stack behind it up to a zero
  chunk,   \* what the last pull received
  parsed,  \* the command it was taken for
  pulls    \* pulls so far

vars == <<wire, buffer, chunk, parsed, pulls>>

None(verb) == [verb |-> verb, argument |-> <<>>, port |-> -1]

Init ==
  /\ wire = <<>>
  /\ buffer \in Garbage
  /\ chunk = <<>>
  /\ parsed = None("none")
  /\ pulls = 0

TypeOK ==
  /\ wire \in Seq(Cell) /\ Len(wire) <= MaxWire
  /\ buffer \in Seq(Cell) /\ \E g \in Garbage : Len(buffer) = Len(g)
  /\ chunk \in Seq(Cell) /\ Len(chunk) <= BufferSize
  /\ pulls \in 0 .. MaxPulls
  /\ parsed \in [verb : Verb \union {"PORT", "UNKNOWN", "INCOMPLETE", "throws", "none"},
                 argument : Seq(Cell), port : Int]
  /\ parsed.verb = "PORT" <=> parsed.port # -1

-----------------------------------------------------------------------------
(* Streams of cells. *)

\* The cells of s before the first c, and those after it.
Before(s, c) ==
  LET i == SelectInSeq(s, LAMBDA d : d = c) IN IF i = 0 THEN s ELSE SubSeq(s, 1, i - 1)

After(s, c) ==
  LET i == SelectInSeq(s, LAMBDA d : d = c) IN IF i = 0 THEN <<>> ELSE SubSeq(s, i + 1, Len(s))

Trim(s) ==
  LET i == SelectInSeq(s, LAMBDA d : d # Sep) IN IF i = 0 THEN <<>> ELSE SubSeq(s, i, Len(s))

\* What stream >> word reads of s, and what it leaves.
Word(s) == Before(Trim(s), Sep)
Left(s) == LET t == Trim(s) IN SubSeq(t, Len(Word(s)) + 1, Len(t))

\* std::stoi of the leading digits; without any it throws.
Digits(s) == LET i == SelectInSeq(s, LAMBDA c : c[1] # "digit") IN IF i = 0 THEN s ELSE SubSeq(s, 1, i - 1)
Number(s) ==
  LET value[k \in 0 .. Len(Digits(s))] == IF k = 0 THEN 0 ELSE 10 * value[k - 1] + Digits(s)[k][2]
  IN  value[Len(Digits(s))]
IsNumber(s) == Digits(s) # <<>>

-----------------------------------------------------------------------------
(* ftp_command::ftp_command *)

\* The number that std::getline has left of a PORT argument after n numbers.
Rest(s, n) == LET r[k \in 0 .. n] == IF k = 0 THEN s ELSE After(r[k - 1], Comma) IN r[n]

\* The bitwise or, and the number of values of a byte.
BitOr[p \in Nat \X Nat] ==
  IF p[2] = 0 THEN p[1]
  ELSE 2 * BitOr[<<p[1] \div 2, p[2] \div 2>>] + (IF p[1] % 2 = 1 \/ p[2] % 2 = 1 THEN 1 ELSE 0)

Two[n \in Nat] == IF n = 0 THEN 1 ELSE 2 * Two[n - 1]
Byte == Two[ByteBits]

PortNumberSwapped(high, low) == BitOr[<<low * Byte, high>>]   \* mutant
PortNumber(high, low) == BitOr[<<high * Byte, low>>]

\* The last number is read by >>, which leaves the one before in place when nothing
\* follows.  A word with which the text ends has set eofbit, and no getline succeeds.
\* (Empty numbers at the front of an address, which assign drops, are kept here.)
PortCommand(s) ==
  LET a     == Word(s)
      high  == Before(Rest(a, AddressFields), Comma)
      after == After(Rest(a, AddressFields), Comma)
      low   == IF after = <<>> THEN high ELSE after
  IN  IF Left(s) = <<>> \/ Rest(a, AddressFields) = <<>> THEN None("INCOMPLETE")
      ELSE IF ~ IsNumber(high) \/ ~ IsNumber(low) THEN None("throws")
      ELSE [verb     |-> "PORT",
            argument |-> SubSeq(a, 1, Len(a) - Len(Rest(a, AddressFields)) - 1),
            port     |-> PortNumber(Number(high), Number(low))]

\* The verb is looked up as a whole word; most verbs take the next word, or "".
Command(s) ==
  LET word == Word(s)
      verb == {v \in Verb : word = <<Spell(v)>>}
  IN  IF word = <<Port>> THEN PortCommand(Left(s))
      ELSE IF verb = {} THEN None("UNKNOWN")
      ELSE LET v == CHOOSE v \in verb : TRUE
           IN  [None(v) EXCEPT !.argument = IF v \in ArgumentVerb THEN Word(Left(s)) ELSE <<>>]

-----------------------------------------------------------------------------
(* The client and the thread. *)

ClientWrite(line) ==
  /\ pulls < MaxPulls
  /\ Len(wire) + Len(line) <= MaxWire
  /\ wire' = wire \o line
  /\ UNCHANGED <<buffer, chunk, parsed, pulls>>

\* Mutants: what was received is put in front, or behind what was there.
BufferGrown(r)    == r \o buffer
BufferAppended(r) == SubSeq(Before(buffer, Nul) \o r \o buffer, 1, Len(buffer))

\* The buffer after recv stored the cells r in it.
BufferAfter(r) == r \o SubSeq(buffer, Len(r) + 1, Len(buffer))

\* One pull: some of what the kernel has, a part of a line, a line, or several; the
\* string is made of the buffer, not of message_length cells, and parsed once.
Pull ==
  /\ parsed.verb # "throws"
  /\ pulls < MaxPulls
  /\ pulls' = pulls + 1
  /\ \E n \in 1 .. BufferSize :
       /\ n <= Len(wire)
       /\ chunk' = SubSeq(wire, 1, n)
       /\ wire' = SubSeq(wire, n + 1, Len(wire))
  /\ buffer' = BufferAfter(chunk')
  /\ parsed' = Command(Before(buffer', Nul))

Next == Pull \/ \E line \in Line : ClientWrite(line)

Spec == Init /\ [][Next]_vars

-----------------------------------------------------------------------------
(* Properties. *)

\* A line with all that its verb takes is parsed as if it were alone, whatever earlier
\* commands, or other threads, left behind it in the buffer and whatever was received
\* with it.  (A line without its argument takes a word that was left there, and one
\* with a zero byte ends there.)
IsComplete(line) ==
  /\ \A i \in DOMAIN line : line[i] # Nul
  /\ Word(Left(line)) # <<>> \/ \E v \in Verb \ ArgumentVerb : Word(line) = <<Spell(v)>>

LeftoverIgnored ==
  \A line \in Line :
    IsPrefix(line, chunk) /\ IsComplete(line) => parsed = Command(line)

\* A PORT with two numbers below 256 behind its address names the port that RFC 959
\* makes of them, in any surroundings: the parser's shift and bitwise or lose nothing.
PortAsSent ==
  \A line \in Line :
    IsPrefix(line, chunk) /\ IsComplete(line) /\ Word(line) = <<Port>> =>
      \A h, l \in 0 .. Byte - 1 :
        Rest(Word(Left(line)), AddressFields) = <<<<"digit", h>>, Comma, <<"digit", l>>>>
        => parsed.verb = "PORT" /\ parsed.port = h * Byte + l

=============================================================================
