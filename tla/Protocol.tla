------------------------------ MODULE Protocol ------------------------------
(***************************************************************************)
(* The encoding of commands and the incremental parser of                  *)
(* distcache/protocol.py.  A byte is a string of one symbol.               *)
(***************************************************************************)
EXTENDS Integers, Sequences, SequencesExt, FiniteSetsExt

CRLF == <<"CR", "LF">>

-----------------------------------------------------------------------------
(* Integers, as str() writes and int() reads them. *)
Digits == <<"0", "1", "2", "3", "4", "5", "6", "7", "8", "9">>
Digit(b) == CHOOSE d \in 0 .. 9 : Digits[d + 1] = b
Unsigned(s) == IF s # << >> /\ Head(s) = "-" THEN Tail(s) ELSE s
IsInt(s) == Unsigned(s) # << >> /\ Range(Unsigned(s)) \subseteq Range(Digits)
IntOf(s) ==
  LET n == FoldLeft(LAMBDA acc, b : 10 * acc + Digit(b), 0, Unsigned(s))
  IN IF Head(s) = "-" THEN - n ELSE n
Str(n) ==
  LET str[k \in 0 .. n] ==
        IF k < 10 THEN <<Digits[k + 1]>> ELSE Append(str[k \div 10], Digits[(k % 10) + 1])
  IN str[n]

(* encode_command: the client's side of the protocol. *)
EncodeArg(a) == <<"$">> \o Str(Len(a)) \o CRLF \o a \o CRLF
EncodeCommand(args) ==
  <<"*">> \o Str(Len(args)) \o CRLF \o FlattenSeq([i \in DOMAIN args |-> EncodeArg(args[i])])

-----------------------------------------------------------------------------
(* parse_one: it waits for more bytes, raises ProtocolError, or returns    *)
(* the arguments of a command and how many bytes it takes from the buffer. *)
Wait == [kind |-> "wait", args |-> << >>, used |-> 0]
Raise == [kind |-> "error", args |-> << >>, used |-> 0]
Parsed(args, used) == [kind |-> "args", args |-> args, used |-> used]

(* The positions where a byte, or the end of a line, is found from i on. *)
LineFeeds(s) == {j \in DOMAIN s : s[j] = "LF"}
LineEnds(s, i) == {j \in i .. Len(s) - 1 : s[j] = "CR" /\ s[j + 1] = "LF"}

(* bytes.split: the words between blanks. *)
Words(line) ==
  LET blank(b) == b \in {"SP", "CR"}
      starts == {i \in DOMAIN line : ~ blank(line[i]) /\ (i = 1 \/ blank(line[i - 1]))}
      stop(i) == Min({j \in i .. Len(line) + 1 : j = Len(line) + 1 \/ blank(line[j])})
  IN [w \in 1 .. Cardinality(starts) |->
        LET i == CHOOSE x \in starts : Cardinality({y \in starts : y <= x}) = w
        IN SubSeq(line, i, stop(i) - 1)]

ParseInline(s) ==
  IF LineFeeds(s) = {} THEN Wait
  ELSE LET end == Min(LineFeeds(s)) IN Parsed(Words(SubSeq(s, 1, end - 1)), end)

(* Mutant of Arrived: the end of the value's line is not waited for. *)
ArrivedEarly(s, end) == Len(s) >= end

(* The value that ends at end has arrived, and the CRLF behind it. *)
Arrived(s, end) == Len(s) >= end + 2

(* One more argument behind those of p. *)
ParseBulk(s, p) ==
  LET at == p.used + 1 IN
  IF at > Len(s) THEN Wait
  ELSE IF s[at] # "$" THEN Raise
  ELSE IF LineEnds(s, at) = {} THEN Wait
  ELSE LET lidx == Min(LineEnds(s, at))
           header == SubSeq(s, at + 1, lidx - 1)
           end == lidx + 1 + IntOf(header)
       IN IF ~ IsInt(header) THEN Raise
          ELSE IF ~ Arrived(s, end) THEN Wait
          ELSE Parsed(Append(p.args, SubSeq(s, lidx + 2, end)), end + 2)

(* Mutant of NoCommand: the line stays in the buffer. *)
NoCommandKept(idx) == Parsed(<< >>, 0)

(* *-1 is dropped, as a command of no arguments. *)
NoCommand(idx) == Parsed(<< >>, idx + 1)

ParseArray(s) ==
  IF LineEnds(s, 1) = {} THEN Wait
  ELSE LET idx == Min(LineEnds(s, 1))
           header == SubSeq(s, 2, idx - 1)
           bulks[i \in 0 .. IntOf(header)] ==
             IF i = 0 THEN Parsed(<< >>, idx + 1)
             ELSE IF bulks[i - 1].kind # "args" THEN bulks[i - 1]
             ELSE ParseBulk(s, bulks[i - 1])
       IN IF ~ IsInt(header) THEN Raise
          ELSE IF IntOf(header) < 0 THEN NoCommand(idx)
          ELSE bulks[IntOf(header)]

ParseOne(s) ==
  IF s = << >> THEN Wait
  ELSE IF s[1] = "*" THEN ParseArray(s)
  ELSE ParseInline(s)
=============================================================================
