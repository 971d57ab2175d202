---------------------------- MODULE RequestReader ----------------------------
(* How one request reaches the server: Connection::handleRead over a stream    *)
(* that recv() cuts anywhere, and Request::processBodySlice, which takes the   *)
(* chunks off the body.  The header is a length and what _typeOfReq finds in   *)
(* it; the bytes after it count one by one, for chunks are framed with them.   *)
EXTENDS Integers, Sequences

CONSTANTS
    Byte,            \* names of bytes, "CR", "LF" and the digits among them
    Requests,        \* what clients send
    MaxBodySizes,    \* client_max_body_size, 0 for no limit
    MaxHeaderSize,   \* MAX_HEADER_SIZE, also what one recv() takes
    BufferLimit,     \* BUFFERLIMIT: a longer body is kept in a file
    ParseByteSlice,  \* PARSE_BYTE_SLICE
    Word             \* a size_t is less than this

Terminator == <<"0", "CR", "LF", "CR", "LF">>

(* "\r\n" i bytes after the beginning.                                         *)
CrlfAt(s, i) == i + 2 <= Len(s) /\ s[i + 1] = "CR" /\ s[i + 2] = "LF"

HexDigits == <<"0", "1", "2", "3", "4", "5", "6", "7", "8", "9",
               "a", "b", "c", "d", "e", "f">>

(* The number that the digits at the front of a line make.                     *)
HexValue(line) ==
    LET digit(c)  == CHOOSE d \in 0..15 : HexDigits[d + 1] = c
        isHex(c)  == \E d \in 0..15 : HexDigits[d + 1] = c
        prefix[n \in 0..Len(line)] ==
            n = 0 \/ (isHex(line[n]) /\ prefix[n - 1])
        value[n \in 0..Len(line)] ==
            IF n = 0 THEN 0
            ELSE IF prefix[n] THEN 16 * value[n - 1] + digit(line[n])
            ELSE value[n - 1]
    IN  value[Len(line)]

(* strtoul(line, NULL, 16): the largest number for one that is too large.      *)
(* What follows a ";" is cut off before.                                       *)
Strtoul(line) ==
    IF HexValue(line) \in 0..(Word - 1) THEN HexValue(line) ELSE Word - 1

(* A well-formed chunked body: where each chunk begins, the length of its size *)
(* line, its size, and which part of the data it carries.                      *)
Framed(q) ==
    /\ q.chunks \in Seq([at : Nat, line : Nat, size : Nat, from : Nat])
    /\ Len(q.chunks) > 0
    /\ q.chunks[1].at = 0 /\ q.chunks[1].from = 0
    /\ \A k \in 1..Len(q.chunks) :
         LET c == q.chunks[k]
         IN  /\ CrlfAt(q.payload, c.at + c.line)
             /\ \A i \in c.at..(c.at + c.line - 1) : ~CrlfAt(q.payload, i)
             /\ Strtoul(SubSeq(q.payload, c.at + 1, c.at + c.line)) = c.size
             /\ CrlfAt(q.payload, c.at + c.line + 2 + c.size)
             /\ c.line + c.size + 4 < Word
             /\ c.from + c.size <= Len(q.data)
             /\ SubSeq(q.payload, c.at + c.line + 3, c.at + c.line + 2 + c.size)
                  = SubSeq(q.data, c.from + 1, c.from + c.size)
             /\ IF k = Len(q.chunks)
                THEN c.size = 0 /\ c.from = Len(q.data)
                     /\ q.whole = c.at + c.line + 4
                ELSE c.size > 0
                     /\ q.chunks[k + 1].at = c.at + c.line + c.size + 4
                     /\ q.chunks[k + 1].from = c.from + c.size

(* A request: the length of its header, how its body is delimited, the bytes   *)
(* that follow the header, how many of them are the body, and its data.        *)
ASSUME RequestsAssumption ==
    \A q \in Requests :
        /\ q.headerSize \in Nat \ {0}
        /\ q.coding \in {"none", "length", "chunked", "bad"}
        /\ q.length \in Nat
        /\ q.payload \in Seq(Byte) /\ q.data \in Seq(Byte)
        /\ q.whole \in Nat
        /\ q.framed \in BOOLEAN
        /\ q.framed => /\ q.coding = "chunked" /\ Framed(q)
                       /\ q.whole <= Len(q.payload) /\ 5 <= q.whole
                       /\ SubSeq(q.payload, q.whole - 4, q.whole) = Terminator

ASSUME LimitsAssumption ==
    /\ MaxBodySizes \subseteq Nat
    /\ MaxHeaderSize \in Nat \ {0} /\ BufferLimit \in Nat
    /\ ParseByteSlice \in Nat \ {0} /\ Word \in Nat \ {0}

VARIABLES
    request,      \* what this client sends
    maxBodySize,  \* _maxBodySize
    filesFail,    \* open(), read() and write() of files may fail
    received,     \* bytes that recv() returned, _totalBytesRead of Connection
    state,        \* Connection::_state; BUILDING: the response gets the request
    reqState,     \* _reqState
    statusCode,   \* of the error page, or 200
    body,         \* _body
    readOffset,   \* how much of _body was read
    chunkBuffer,  \* _chunkBuffer
    decodedBody,  \* _decodedBody
    decoding,     \* in the loop of processBodySlice
    cut           \* recv() cut the terminator in two

input  == <<request, maxBodySize, filesFail>>
decode == <<readOffset, chunkBuffer, decodedBody, decoding>>
vars == <<input, received, state, reqState, statusCode, body, decode, cut>>

TypeOK ==
    /\ request \in Requests /\ maxBodySize \in MaxBodySizes /\ filesFail \in BOOLEAN
    /\ received \in Nat
    /\ state \in {"READING", "PROCESSING", "BUILDING", "WRITING", "FINISHED"}
    /\ reqState \in {"REQ_HEADERS", "REQ_BODY", "REQ_CHUNKED", "REQ_DONE",
                     "REQ_ERROR"}
    /\ statusCode \in {200, 400, 408, 413, 431, 500}
    /\ body \in Seq(Byte) /\ readOffset \in 0..Len(body)
    /\ chunkBuffer \in Seq(Byte) /\ decodedBody \in Seq(Byte)
    /\ decoding \in BOOLEAN /\ cut \in BOOLEAN

Init ==
    /\ request \in Requests /\ maxBodySize \in MaxBodySizes /\ filesFail \in BOOLEAN
    /\ received = 0 /\ state = "READING" /\ reqState = "REQ_HEADERS"
    /\ statusCode = 200
    /\ body = <<>> /\ readOffset = 0
    /\ chunkBuffer = <<>> /\ decodedBody = <<>>
    /\ decoding = FALSE /\ cut = FALSE

Least(a, b) == IF a < b THEN a ELSE b

-----------------------------------------------------------------------------
(* Reading.                                                                    *)

(* triggerError of the connection.                                             *)
TriggerError(code) == state' = "WRITING" /\ statusCode' = code

(* How many bytes of the payload are among the first n of the stream.          *)
Arrived(n) == IF n > request.headerSize THEN n - request.headerSize ELSE 0

(* The bytes of the payload among the next n.                                  *)
Piece(n) == SubSeq(request.payload, Arrived(received) + 1, Arrived(received + n))

IsChunkedDone_AtStart(piece) ==
    Len(piece) >= 5 /\ SubSeq(piece, 1, 5) = Terminator

(* isChunkedDone(): in what one recv() brought.                                *)
IsChunkedDone(piece) ==
    \E i \in 1..Len(piece) :
        i + 4 <= Len(piece) /\ SubSeq(piece, i, i + 4) = Terminator

BodyDone_Early(bytes) == Len(bytes) + 1 >= request.length

BodyDone(bytes) == Len(bytes) >= request.length

(* handleRead() gets n more bytes.                                             *)
Recv(n) ==
    /\ state = "READING"
    /\ n \in 1..Least(MaxHeaderSize,
                      request.headerSize + Len(request.payload) - received)
    /\ received' = received + n
    /\ cut' = (cut \/ Arrived(received + n) \in (request.whole - 4)..(request.whole - 1))

(* _readHeaders, more bytes than a header may have.                            *)
HeadersTooLarge(n) ==
    /\ Recv(n) /\ reqState = "REQ_HEADERS"
    /\ received + n > MaxHeaderSize
    /\ TriggerError(431)
    /\ UNCHANGED <<input, reqState, body, decode>>

(* parseHeaders finds no end yet.                                              *)
HeadersGoOn(n) ==
    /\ Recv(n) /\ reqState = "REQ_HEADERS"
    /\ received + n <= MaxHeaderSize /\ received + n < request.headerSize
    /\ UNCHANGED <<input, state, reqState, statusCode, body, decode>>

HeadersEnd(n) ==
    /\ Recv(n) /\ reqState = "REQ_HEADERS"
    /\ received + n <= MaxHeaderSize /\ received + n >= request.headerSize

TooLong(length) == maxBodySize > 0 /\ length > maxBodySize

(* _parseRequestLine and _typeOfReq.                                           *)
HeadersRejected(n) ==
    /\ HeadersEnd(n)
    /\ \/ request.coding = "bad" /\ TriggerError(400)
       \/ /\ request.coding = "length" /\ TooLong(request.length)
          /\ TriggerError(413)
    /\ reqState' = "REQ_ERROR"
    /\ UNCHANGED <<input, body, decode>>

(* No body is announced: what came after the header is dropped.                *)
HeadersAlone(n) ==
    /\ HeadersEnd(n)
    /\ \/ request.coding = "none"
       \/ request.coding = "length" /\ request.length = 0
    /\ reqState' = "REQ_DONE" /\ state' = "PROCESSING"
    /\ UNCHANGED <<input, statusCode, body, decode>>

(* _typeOfReq finds a body to come.                                            *)
BodyAnnounced ==
    \/ request.coding = "chunked" /\ reqState' = "REQ_CHUNKED"
    \/ /\ request.coding = "length" /\ request.length > 0
       /\ ~TooLong(request.length) /\ reqState' = "REQ_BODY"

HeadersThenBody_DropsRest(n) ==
    /\ HeadersEnd(n)
    /\ BodyAnnounced
    /\ UNCHANGED <<input, statusCode, body, decode, state>>

(* A body follows, and its first bytes may have come with the header.          *)
HeadersThenBody(n) ==
    /\ HeadersEnd(n)
    /\ BodyAnnounced
    /\ body' = Piece(n)
    /\ state' = IF \/ reqState' = "REQ_CHUNKED" /\ IsChunkedDone(Piece(n))
                   \/ reqState' = "REQ_BODY" /\ BodyDone(Piece(n))
                THEN "PROCESSING" ELSE state
    /\ UNCHANGED <<input, statusCode, decode>>

(* _readBody and _readChunked.                                                 *)
ReadBody(n) ==
    /\ Recv(n) /\ reqState = "REQ_BODY"
    /\ body' = body \o Piece(n)
    /\ state' = IF BodyDone(body') THEN "PROCESSING" ELSE state
    /\ UNCHANGED <<input, reqState, statusCode, decode>>

ReadChunked(n) ==
    /\ Recv(n) /\ reqState = "REQ_CHUNKED"
    /\ body' = body \o Piece(n)
    /\ state' = IF IsChunkedDone(Piece(n)) THEN "PROCESSING" ELSE state
    /\ UNCHANGED <<input, reqState, statusCode, decode>>

InBody == reqState \in {"REQ_BODY", "REQ_CHUNKED"}

(* A store that holds these bytes holds them in a file.                        *)
InFile(bytes) == Len(bytes) > BufferLimit

(* append() to a body that is or becomes a file throws, or the                 *)
(* resetReadPosition() after its last byte does: _handleConnection answers 500 *)
(* and the body is not looked at again.                                        *)
StoreFails(n) ==
    /\ filesFail
    /\ \/ HeadersEnd(n) /\ BodyAnnounced
       \/ Recv(n) /\ InBody /\ UNCHANGED reqState
    /\ InFile(body \o Piece(n))
    /\ TriggerError(500)
    /\ UNCHANGED <<input, body, decode>>

(* recv() returns 0 or -1.                                                     *)
RecvEnds ==
    /\ state = "READING" /\ state' = "FINISHED"
    /\ UNCHANGED <<input, received, reqState, statusCode, body, decode, cut>>

(* The sweep finds the connection idle.                                        *)
Timeout ==
    /\ state \in {"READING", "PROCESSING"} /\ ~decoding
    /\ TriggerError(408)
    /\ UNCHANGED <<input, received, reqState, body, decode, cut>>

Read ==
    \E n \in 1..MaxHeaderSize :
        \/ HeadersTooLarge(n) \/ HeadersGoOn(n) \/ HeadersRejected(n)
        \/ HeadersAlone(n) \/ HeadersThenBody(n)
        \/ ReadBody(n) \/ ReadChunked(n) \/ StoreFails(n)

-----------------------------------------------------------------------------
(* Processing: process() up to buildResponse().                                *)

(* The body is used as it came.                                                *)
HandOn ==
    /\ state = "PROCESSING" /\ reqState \in {"REQ_BODY", "REQ_DONE"}
    /\ state' = "BUILDING"
    /\ UNCHANGED <<input, received, reqState, statusCode, body, decode, cut>>

(* The next slice of the body.  One in a file is read from its first byte too: *)
(* _handleConnection reset the position when the last byte had come.           *)
TakeSlice ==
    /\ state = "PROCESSING" /\ reqState = "REQ_CHUNKED" /\ ~decoding
    /\ readOffset' = Least(readOffset + ParseByteSlice, Len(body))
    /\ chunkBuffer' = chunkBuffer \o SubSeq(body, readOffset + 1, readOffset')
    /\ decoding' = TRUE
    /\ UNCHANGED <<input, received, state, reqState, statusCode, body,
                   decodedBody, cut>>

HasCrlf == \E i \in 0..Len(chunkBuffer) : CrlfAt(chunkBuffer, i)

CrlfPos ==
    CHOOSE i \in 0..Len(chunkBuffer) :
        /\ CrlfAt(chunkBuffer, i)
        /\ \A j \in 0..(i - 1) : ~CrlfAt(chunkBuffer, j)

ChunkSize == Strtoul(SubSeq(chunkBuffer, 1, CrlfPos))

TotalBytesNeeded == (CrlfPos + 2 + ChunkSize + 2) % Word

Enough_More(have, need) == have > need

Enough(have, need) == have >= need

(* A chunk is in the buffer, as far as the loop can tell.                      *)
ChunkThere == HasCrlf /\ Enough(Len(chunkBuffer), TotalBytesNeeded)

ChunkEnd == (CrlfPos + 2 + ChunkSize) % Word

DataOfChunk_FromCrlf == SubSeq(chunkBuffer, CrlfPos + 1, CrlfPos + ChunkSize)

DataOfChunk ==
    SubSeq(chunkBuffer, CrlfPos + 3,
           Least(CrlfPos + 2 + ChunkSize, Len(chunkBuffer)))

Erase == SubSeq(chunkBuffer, TotalBytesNeeded + 1, Len(chunkBuffer))

(* The next slice has to bring more.                                           *)
ChunkIncomplete ==
    /\ decoding /\ ~ChunkThere
    /\ decoding' = FALSE
    /\ UNCHANGED <<input, received, state, reqState, statusCode, body,
                   readOffset, chunkBuffer, decodedBody, cut>>

(* No "\r\n" after the data: 400.  substr() throws beyond the end, which is    *)
(* the 500 of process().                                                       *)
ChunkMalformed ==
    /\ decoding /\ ChunkThere /\ ~CrlfAt(chunkBuffer, ChunkEnd)
    /\ decoding' = FALSE
    /\ \/ /\ ChunkEnd > Len(chunkBuffer) /\ TriggerError(500)
          /\ UNCHANGED reqState
       \/ /\ ChunkEnd <= Len(chunkBuffer) /\ TriggerError(400)
          /\ reqState' = "REQ_ERROR"
    /\ UNCHANGED <<input, received, body, readOffset, chunkBuffer, decodedBody,
                   cut>>

LastChunk_KeepsOffset ==
    /\ decoding /\ ChunkThere /\ CrlfAt(chunkBuffer, ChunkEnd) /\ ChunkSize = 0
    /\ decoding' = FALSE /\ state' = "BUILDING"
    /\ body' = decodedBody /\ chunkBuffer' = <<>>
    /\ UNCHANGED <<input, received, reqState, statusCode, readOffset, decodedBody, cut>>

(* The last chunk: the decoded body takes the place of the raw one.            *)
LastChunk ==
    /\ decoding /\ ChunkThere /\ CrlfAt(chunkBuffer, ChunkEnd) /\ ChunkSize = 0
    /\ decoding' = FALSE /\ state' = "BUILDING"
    /\ body' = decodedBody /\ readOffset' = 0 /\ chunkBuffer' = <<>>
    /\ UNCHANGED <<input, received, reqState, statusCode, decodedBody, cut>>

OverLimit_OrEqual(size) == maxBodySize > 0 /\ size >= maxBodySize

(* _decodedBody is too large.                                                  *)
OverLimit(size) == maxBodySize > 0 /\ size > maxBodySize

TakeChunk ==
    /\ decoding /\ ChunkThere /\ CrlfAt(chunkBuffer, ChunkEnd) /\ ChunkSize > 0
    /\ decodedBody' = decodedBody \o DataOfChunk
    /\ IF OverLimit(Len(decodedBody'))
       THEN /\ TriggerError(413) /\ reqState' = "REQ_ERROR"
            /\ decoding' = FALSE /\ UNCHANGED chunkBuffer
       ELSE /\ chunkBuffer' = Erase
            /\ UNCHANGED <<state, statusCode, reqState, decoding>>
    /\ UNCHANGED <<input, received, body, readOffset, cut>>

(* The read() of a body in a file throws; or so does the append() to the       *)
(* decoded body, or the copy that takes the place of the raw one: process()    *)
(* answers 500.                                                                *)
DecodingFails ==
    /\ filesFail
    /\ state = "PROCESSING" /\ reqState = "REQ_CHUNKED"
    /\ \/ ~decoding /\ InFile(body) /\ readOffset < Len(body)
       \/ /\ decoding /\ ChunkThere /\ CrlfAt(chunkBuffer, ChunkEnd)
          /\ InFile(decodedBody \o DataOfChunk)
    /\ decoding' = FALSE /\ TriggerError(500)
    /\ UNCHANGED <<input, received, reqState, body, readOffset, chunkBuffer,
                   decodedBody, cut>>

Process ==
    \/ HandOn \/ TakeSlice
    \/ ChunkIncomplete \/ ChunkMalformed \/ LastChunk \/ TakeChunk \/ DecodingFails

Next == Read \/ RecvEnds \/ Timeout \/ Process

Spec == Init /\ [][Next]_vars

(* A connection in PROCESSING gets its slices (Served of EventLoop).  Nothing  *)
(* is assumed of the client.                                                   *)
FairSpec == Spec /\ WF_vars(Process)

-----------------------------------------------------------------------------
(* The stored body is what arrived after the header, no byte lost or twice,    *)
(* however the end of the header is cut (_readHeaders, _readBody,              *)
(* _readChunked).                                                              *)
BodyIsPayload ==
    InBody /\ state \in {"READING", "PROCESSING"}
        => body = SubSeq(request.payload, 1, Arrived(received))

(* A body with a length is handed on when all of it is there, and never with   *)
(* more than one recv() beyond it (_readHeaders, _readBody).                   *)
LengthReached ==
    reqState = "REQ_BODY" /\ state \in {"PROCESSING", "BUILDING"}
        => /\ request.length <= Len(body)
           /\ Len(body) < request.length + MaxHeaderSize

(* The header of a request that is served has no more than MAX_HEADER_SIZE     *)
(* bytes, and a served body no more than client_max_body_size, but for the     *)
(* bytes sent beyond its length (_readHeaders, _typeOfReq, processBodySlice).  *)
LimitsKept ==
    state \in {"PROCESSING", "BUILDING"} =>
        /\ request.headerSize <= MaxHeaderSize
        /\ reqState = "REQ_BODY" => ~TooLong(request.length)
        /\ reqState = "REQ_CHUNKED" /\ state = "BUILDING" => ~TooLong(Len(body))

(* The data of a well-formed chunked body comes out whole and in order,        *)
(* whatever recv() and the slices cut, in memory or in a file                  *)
(* (processBodySlice).                                                         *)
Decoded ==
    request.framed /\ reqState = "REQ_CHUNKED" =>
        /\ decodedBody = SubSeq(request.data, 1, Len(decodedBody))
        /\ state = "BUILDING" => body = request.data

WellFormed == request.coding \in {"none", "length"} \/ request.framed

(* An error is sent for the reason it gives (_readHeaders, _typeOfReq,         *)
(* processBodySlice): a well-formed request that keeps the limits gets none,   *)
(* but for a header that fits and gets 431 when bytes of the body came with    *)
(* its end, and for a 500 when files fail and more of the body had come than   *)
(* is kept in memory.                                                          *)
StatusTrue ==
    /\ statusCode = 431 =>
         MaxHeaderSize < request.headerSize \/ request.headerSize < received
    /\ statusCode = 413 =>
         \/ request.coding = "length" /\ TooLong(request.length)
         \/ request.framed => TooLong(Len(request.data))
    /\ statusCode = 400 => ~WellFormed
    /\ statusCode = 500 /\ WellFormed => filesFail /\ BufferLimit < Arrived(received)

(* What is served keeps the limits, and what gets an error breaks one, is      *)
(* malformed, or met a file that fails (_readHeaders, _typeOfReq,              *)
(* processBodySlice, and the catch clauses of _handleConnection and process).  *)
ErrorsMeant == LimitsKept /\ StatusTrue

(* The end of a chunked body is seen in the recv() that brings it, unless that *)
(* brings a part of the terminator only: then it is never seen (_readHeaders,  *)
(* _readChunked), though includes/Request.hpp:4 speaks of "fragmented data     *)
(* streams".                                                                   *)
EndSeen ==
    request.framed /\ state = "READING" /\ reqState = "REQ_CHUNKED"
      /\ Arrived(received) >= request.whole
        => cut

(* A well-formed chunked body that is all there is decoded in finitely many    *)
(* slices, in memory or in a file (process, processBodySlice).                 *)
DecodingEnds ==
    (/\ state = "PROCESSING" /\ request.framed
     /\ Arrived(received) >= request.whole)
        ~> state # "PROCESSING"
=============================================================================
