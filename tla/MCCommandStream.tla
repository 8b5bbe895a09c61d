--------------------------- MODULE MCCommandStream ---------------------------
(* Commands of both forms with values that look like the protocol's own    *)
(* bytes, commands that are none, and malformed ones.                      *)
EXTENDS CommandStream

G == <<"G">>
SyncName == <<"S">>
Array(args) == Good(EncodeCommand(args), args)
Inline(line, args) == Good(line \o <<"LF">>, args)

SomeMessages ==
  { Array(<<G>>), Array(<<G, CRLF>>), Array(<<G, << >>, <<"*", "2">> \o CRLF>>), Array(<<SyncName>>),
    Inline(<<"G", "SP", "SP", "$", "1", "CR">>, <<G, <<"$", "1">>>>), Inline(<<"SP", "G">>, <<G>>),
    Inline(<<"CR">>, << >>), Good(<<"*", "0">> \o CRLF, << >>), Good(<<"*", "-", "1">> \o CRLF, << >>),
    Bad(<<"*", "G">> \o CRLF, 4), Bad(<<"*", "1">> \o CRLF \o G \o CRLF, 5),
    Bad(<<"*", "2">> \o CRLF \o <<"$", "G">> \o CRLF, 8) }
=============================================================================
