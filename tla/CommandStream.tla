---------------------------- MODULE CommandStream ----------------------------
(***************************************************************************)
(* A connection of a node: the bytes a client sends, the parser and the    *)
(* loop that answers one command after the other (Node._handle_client).    *)
(* The name of a command is one byte.  The bytes arrive in chunks of any   *)
(* size.                                                                   *)
(***************************************************************************)
EXTENDS Protocol

CONSTANTS
  Messages,    \* what a client may send: [bytes, answer, decided], see below
  MaxMessages, \* bound: messages on the connection
  Sync         \* the name of the command that turns it into a replica's

ASSUME MaxMessages \in Nat \ {0}

VARIABLES
  sent,     \* the messages the client puts on the connection
  arrived,  \* how many of their bytes the node has read
  buf,      \* Parser.buf
  answers,  \* what the node answered: a command it executed, or Error
  pc,       \* "reading", "parsing", "replica" or "closed"
  lost      \* auxiliary: an error threw away bytes of a later message

vars == <<sent, arrived, buf, answers, pc, lost>>

Error == << <<"error">> >>

-----------------------------------------------------------------------------
(* A message is its bytes, the answer it should get (none for an empty     *)
(* command), and after how many of its bytes the node can tell.            *)
Good(bytes, args) == [bytes |-> bytes, answer |-> args, decided |-> Len(bytes)]
Bad(bytes, decided) == [bytes |-> bytes, answer |-> Error, decided |-> decided]

Stream == FlattenSeq([i \in DOMAIN sent |-> sent[i].bytes])
Start(i) == FoldLeft(LAMBDA acc, m : acc + Len(m.bytes), 0, SubSeq(sent, 1, i - 1))

(* The messages the node can tell from what it has read, and of them those *)
(* it answers: none behind a SYNC, and no empty ones.                      *)
Decided == SelectSeq([i \in DOMAIN sent |-> i], LAMBDA i : arrived >= Start(i) + sent[i].decided)
SyncsAmong(idx) == {j \in DOMAIN idx : sent[idx[j]].answer = <<Sync>>}
ToAnswer ==
  LET idx == IF SyncsAmong(Decided) = {} THEN Decided
             ELSE SubSeq(Decided, 1, Min(SyncsAmong(Decided)) - 1)
  IN SelectSeq([j \in DOMAIN idx |-> sent[idx[j]].answer], LAMBDA a : a # << >>)

Init ==
  /\ sent \in SeqOf(Messages, MaxMessages)
  /\ arrived = 0
  /\ buf = << >>
  /\ answers = << >>
  /\ pc = "reading"
  /\ lost = FALSE

(* reader.read returns what has come in, and the parser is fed with it. *)
Read ==
  /\ pc = "reading"
  /\ \E n \in arrived + 1 .. Len(Stream) :
       /\ arrived' = n
       /\ buf' = buf \o SubSeq(Stream, arrived + 1, n)
  /\ pc' = "parsing"
  /\ UNCHANGED <<sent, answers, lost>>

(* The client has gone: read returns nothing, or raises. *)
Eof ==
  /\ pc = "reading"
  /\ pc' = "closed"
  /\ UNCHANGED <<sent, arrived, buf, answers, lost>>

(* Not even the beginning of a command that could be told: read again. *)
NeedMore ==
  /\ pc = "parsing"
  /\ ParseOne(buf).kind = "wait"
  /\ pc' = "reading"
  /\ UNCHANGED <<sent, arrived, buf, answers, lost>>

(* Writing an answer may raise, which ends the connection. *)
Reply(a, next) ==
  /\ answers' = Append(answers, a)
  /\ pc' \in {next, "closed"}

(* The error is answered, and the whole buffer is cleared: with it goes    *)
(* what has been read of the messages behind the malformed one.            *)
Malformed ==
  /\ pc = "parsing"
  /\ ParseOne(buf).kind = "error"
  /\ Reply(Error, "reading")
  /\ buf' = << >>
  /\ lost' = (lost \/ \E i \in DOMAIN sent :
                        Start(i) \in arrived - Len(buf) + 1 .. arrived - 1)
  /\ UNCHANGED <<sent, arrived>>

(* Mutant of Consume: the wrong end of the buffer is deleted. *)
ConsumeEnd == buf' = SubSeq(buf, 1, Len(buf) - ParseOne(buf).used)

Consume == buf' = SubSeq(buf, ParseOne(buf).used + 1, Len(buf))

(* A blank line or an array of no arguments gets no answer. *)
Skip ==
  /\ pc = "parsing"
  /\ ParseOne(buf).kind = "args" /\ ParseOne(buf).args = << >>
  /\ Consume
  /\ UNCHANGED <<sent, arrived, answers, pc, lost>>

(* _dispatch runs the command without an await and returns its reply. *)
Execute ==
  /\ pc = "parsing"
  /\ ParseOne(buf).kind = "args" /\ ParseOne(buf).args # << >> /\ ParseOne(buf).args[1] # Sync
  /\ Consume
  /\ Reply(ParseOne(buf).args, "parsing")
  /\ UNCHANGED <<sent, arrived, lost>>

(* SYNC hands the connection to handle_replica; what is left in the        *)
(* buffer is not looked at any more.                                       *)
Hijack ==
  /\ pc = "parsing"
  /\ ParseOne(buf).kind = "args" /\ ParseOne(buf).args # << >> /\ ParseOne(buf).args[1] = Sync
  /\ Consume
  /\ pc' = "replica"
  /\ UNCHANGED <<sent, arrived, answers, lost>>

Parse == NeedMore \/ Malformed \/ Skip \/ Execute \/ Hijack
Next == Read \/ Eof \/ Parse

Spec == Init /\ [][Next]_vars

-----------------------------------------------------------------------------
TypeOK ==
  /\ sent \in Seq(Messages)
  /\ arrived \in 0 .. Len(Stream)
  /\ buf = SubSeq(Stream, arrived - Len(buf) + 1, arrived)
  /\ answers \in Seq({Error} \union Seq(Seq(Range(Stream))))
  /\ pc \in {"reading", "parsing", "replica", "closed"}
  /\ lost \in BOOLEAN

(* However the bytes are cut into chunks, the node answers exactly what    *)
(* was sent, in turn: it never waits for more when a command is complete,  *)
(* makes no command of half of one or of the bytes of a value, and goes on *)
(* behind a malformed command whose error came before the next was read.   *)
AnswersInOrder ==
  ~ lost => /\ IsPrefix(answers, ToAnswer)
            /\ pc \in {"reading", "replica"} => answers = ToAnswer

(* The inner loop ends, on the messages modelled, whose values have        *)
(* lengths of zero and more: what it takes for a command, it takes off the *)
(* buffer.  A round that does not would stop the whole event loop, as an   *)
(* empty command is skipped without an await.                              *)
ParsingConsumes == pc = "parsing" /\ ParseOne(buf).kind = "args" => ParseOne(buf).used > 0
=============================================================================
