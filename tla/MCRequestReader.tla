--------------------------- MODULE MCRequestReader ---------------------------
(* Requests for RequestReader: with and without a body, with more bytes than   *)
(* announced, in one chunk and in several, with data that looks like an end,   *)
(* and not well-formed.                                                        *)
EXTENDS RequestReader, SequencesExt

MCByte == {"CR", "LF", "x"} \cup ToSet(HexDigits)

crlf == <<"CR", "LF">>

Plain(headerSize, coding, length, payload) ==
    [headerSize |-> headerSize, coding |-> coding, length |-> length,
     payload |-> payload, data |-> <<>>, whole |-> Least(length, Len(payload)),
     chunks |-> <<>>, framed |-> FALSE]

(* A chunked body from its size lines and data; extra bytes may follow it.     *)
Chunked(headerSize, parts, extra) ==
    LET add(q, part) ==
          LET at == Len(q.payload)
          IN  [q EXCEPT
                 !.payload = @ \o part.line \o crlf \o part.data \o crlf,
                 !.data = @ \o part.data,
                 !.chunks = Append(@, [at |-> at, line |-> Len(part.line),
                                       size |-> Len(part.data),
                                       from |-> Len(q.data)]),
                 !.whole = at + Len(part.line) + Len(part.data) + 4]
        all == FoldLeft(add, Plain(headerSize, "chunked", 0, <<>>), parts)
    IN  [all EXCEPT !.payload = @ \o extra, !.framed = TRUE]

Part(line, data) == [line |-> line, data |-> data]
End == Part(<<"0">>, <<>>)

Broken(payload) == Plain(2, "chunked", Len(payload), payload)

MCRequests ==
    {Plain(h, "none", 0, p) : h \in {1, 8, 9}, p \in {<<>>, <<"x">>}}
    \cup {Plain(2, "bad", 0, <<>>)}
    \cup {Plain(3, "length", l, <<"x", "1", "CR", "LF", "0", "x">>) :
             l \in {0, 1, 3, 6}}
    \cup {Chunked(h, <<End>>, e) : h \in {1, 4}, e \in {<<>>, <<"x", "x">>}}
    \cup {Chunked(2, <<Part(<<"1">>, <<"x">>), End>>, <<>>),
          Chunked(3, <<Part(<<"2">>, <<"x", "CR">>), End>>, <<>>),
          Chunked(2, <<Part(<<"2">>, <<"x", "1">>), Part(<<"1">>, <<"0">>), End>>,
                  <<"x">>),
          Chunked(2, <<Part(<<"0", "3">>, <<"0", "CR", "LF">>), End>>, <<>>),
          Chunked(1, <<Part(<<"5">>, Terminator), End>>, <<>>),
          Chunked(1, <<Part(<<"2">>, <<"x", "x">>), Part(<<"4">>, <<"1", "CR", "LF", "x">>),
                       End>>, <<>>)}
    \cup {Broken(<<"1", "CR", "LF", "x", "x", "x">> \o Terminator),
          Broken(<<"f", "f", "f", "CR", "LF", "x">> \o Terminator),
          Broken(<<"f", "b", "CR", "LF", "x">> \o Terminator)}
=============================================================================
