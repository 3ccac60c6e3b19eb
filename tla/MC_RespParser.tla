---------------------------- MODULE MC_RespParser ----------------------------
(***************************************************************************)
(* Byte streams for RespParser: canonical frames of every kind (arrays of  *)
(* bulk strings, as the encoder and the AOF write them), malformed lines,  *)
(* and truncated endings.                                                   *)
(***************************************************************************)
EXTENDS RespParser

A == <<"a">>

\* Frames the parser decodes as spec 4.A says, including a bulk body that
\* holds CR LF (binary safe) and an inline command.
GoodItems ==
    {FrameItem(Frame("simple", A)), FrameItem(Frame("error", A)),
     FrameItem(Frame("int", 1)), FrameItem(Frame("int", -1)),
     FrameItem(Frame("bulk", A)), FrameItem(Frame("bulk", CRLF)), FrameItem(Frame("bulk", Nil)),
     FrameItem(Frame("array", <<>>)), FrameItem(Frame("array", <<A, <<"a", " ", "a">>>>)),
     Item(<<"a", " ", "a">> \o CRLF, <<Frame("array", <<A, A>>)>>)}

\* Malformed lines: each is one protocol error.
JunkItems ==
    {Item(<<"a", "LF">>, <<Frame("proto", Nil)>>),
     Item(<<":", "a">> \o CRLF, <<Frame("proto", Nil)>>),
     Item(<<"*", "a">> \o CRLF, <<Frame("proto", Nil)>>),
     Item(<<"$", "0">> \o CRLF, <<Frame("proto", Nil)>>)}

\* Truncated last frames: a cut after an array header and a cut inside a
\* bulk body (io.ReadFull then returns UnexpectedEOF).
MCTails ==
    {<<>>,
     SubSeq(Encode(Frame("array", <<A>>)), 1, 4),
     SubSeq(Encode(Frame("bulk", CRLF)), 1, 5)}

MCItems == GoodItems \cup JunkItems

NoTail == {<<>>}

\* A bulk string argument that is empty but not the last one, as in
\* SET "" v written to the AOF.
EmptyArgItems == {FrameItem(Frame("array", <<<<>>, A>>))}

\* An empty bulk string, and an array whose last argument is empty.
EmptyBulkItems == {FrameItem(Frame("bulk", <<>>)), FrameItem(Frame("array", <<A, <<>>>>))}

\* A bulk string whose body starts with '$'.
DollarItems == {FrameItem(Frame("bulk", <<"$", "1">>))}
\* The null array.
NullArrayItems == {FrameItem(Frame("array", Nil))}
\* An AOF record cut short by a failed or interrupted write, followed by a
\* whole record appended after it: every cut point of the first record.
AofRecord == Frame("array", <<A, A>>)
TornItems ==
    {Item(SubSeq(Encode(AofRecord), 1, k) \o Encode(AofRecord), <<>>) :
        k \in 1..(Len(Encode(AofRecord)) - 1)}
=============================================================================
