--------------------------- MODULE ResponseSender ---------------------------
(* How one Response reaches its client: Response::sendSlice and what it calls. *)
(* A byte is the pair of the response it belongs to and its position in it, so *)
(* that a byte sent twice, left out or of an earlier page can be told apart.   *)
EXTENDS Integers, Sequences, FiniteSets

CONSTANTS
    HeaderSizes,      \* possible lengths of _headerBuffer
    BodySizes,        \* possible lengths of a body kept in _responseDataStore
    WriteBufferSize,  \* _writeBufferSize (RESPONSE_SEND_CHUNK)
    BufferLimit,      \* BUFFERLIMIT: a store longer than this is a file
    MaxFile,          \* bound on the length of the served file
    MaxBuilds,        \* bound on the pages built for one connection
    MaxReceived       \* bound on what a body in a file sends, which may be endless

ASSUME SizesAssumption ==
    /\ HeaderSizes \subseteq Nat \ {0}
    /\ BodySizes \subseteq Nat
    /\ WriteBufferSize \in Nat \ {0}
    /\ BufferLimit \in Nat
    /\ MaxFile \in Nat
    /\ {MaxBuilds, MaxReceived} \subseteq Nat

VARIABLES
    state,           \* Connection::_state, from PROCESSING on
    slice,           \* where sendSlice is: outside, in the body, before send()
    builds,          \* number of pages built so far, names the current one
    responseState,   \* _responseState
    headerSize,      \* _headerBuffer.size()
    storeSize,       \* _responseDataStore.getSize()
    fileOpen,        \* _fileFd # -1
    fileSize,        \* _fileSize, what stat() said
    fileOffset,      \* offset of _fileFd
    streamFirst,     \* position in the body of the first byte of _streamBuf
    streamBuild,     \* the page whose bytes _streamBuf holds
    streamBufLen, streamBufSent, totalBytesSent,
    fileLength,      \* the served file as it is on the disk now
    received,        \* what the client received since the page was built
    refused,         \* send() or read() failed since the page was built
    shrunk, grown    \* the file became shorter, longer, than _fileSize

response == <<builds, responseState, headerSize, storeSize, fileSize>>
stream   == <<streamFirst, streamBuild, streamBufLen, streamBufSent>>
disk     == <<fileLength, shrunk, grown>>
vars == <<state, slice, response, fileOpen, fileOffset, stream, totalBytesSent,
          disk, received, refused>>

(* DataStore::append switches to a file above the limit.                       *)
StoreMode == IF storeSize > BufferLimit THEN "FILE_MODE" ELSE "RAM"

(* What Content-Length announces: one of the two is 0.                         *)
BodySize == fileSize + storeSize

Least(a, b) == IF a < b THEN a ELSE b

(* Bytes first .. first + n - 1 of the page named build.                       *)
Bytes(build, first, n) == [i \in 1..n |-> <<build, first + i - 1>>]

TypeOK ==
    /\ state \in {"PROCESSING", "WRITING", "FINISHED"}
    /\ slice \in {"idle", "body", "send"}
    /\ responseState \in {"SENDING_RES_HEAD", "SENDING_BODY_STATIC"}
    /\ builds \in Nat /\ streamBuild \in Nat
    /\ headerSize \in Nat /\ storeSize \in Nat
    /\ fileSize \in Nat /\ fileLength \in Nat /\ fileOffset \in Nat
    /\ streamFirst \in Nat /\ streamBufLen \in Nat /\ streamBufSent \in Nat
    /\ totalBytesSent \in Nat
    /\ fileOpen \in BOOLEAN /\ refused \in BOOLEAN
    /\ shrunk \in BOOLEAN /\ grown \in BOOLEAN
    /\ received \in Seq(Nat \X Nat)

Init ==
    /\ state = "PROCESSING" /\ slice = "idle" /\ builds = 0
    /\ responseState = "SENDING_RES_HEAD"
    /\ headerSize = 0 /\ storeSize = 0 /\ fileSize = 0
    /\ fileOpen = FALSE /\ fileOffset = 0
    /\ streamFirst = 0 /\ streamBuild = 0
    /\ streamBufLen = 0 /\ streamBufSent = 0
    /\ totalBytesSent = 0 /\ received = <<>>
    /\ fileLength \in 0..MaxFile
    /\ refused = FALSE /\ shrunk = FALSE /\ grown = FALSE

-----------------------------------------------------------------------------
(* Building.                                                                   *)

(* _headerBuffer is made and nothing of it is sent yet.                        *)
StartHeader ==
    /\ headerSize' \in HeaderSizes
    /\ responseState' = "SENDING_RES_HEAD"
    /\ builds' = builds + 1
    /\ state' = "WRITING" /\ slice' = "idle"
    /\ received' = <<>>
    /\ refused' = FALSE /\ shrunk' = FALSE /\ grown' = FALSE
    /\ UNCHANGED fileLength

(* A page in the store: a listing, an upload's answer, a redirect, the output  *)
(* of a CGI script, or nothing at all for DELETE.                              *)
FinalizeSuccess ==
    /\ state = "PROCESSING"
    /\ storeSize' \in BodySizes
    /\ StartHeader
    /\ UNCHANGED <<fileOpen, fileSize, fileOffset, stream, totalBytesSent>>

(* _serveFile: stat() gives the length, the descriptor stays open.             *)
ServeFile ==
    /\ state = "PROCESSING"
    /\ fileOpen' = TRUE /\ fileSize' = fileLength /\ fileOffset' = 0
    /\ streamBufLen' = 0 /\ streamBufSent' = 0
    /\ StartHeader
    /\ UNCHANGED <<storeSize, streamFirst, streamBuild, totalBytesSent>>

BuildErrorPage_KeepsTotal ==
    /\ storeSize' \in BodySizes
    /\ fileOpen' = FALSE /\ fileSize' = 0
    /\ streamBufLen' = 0 /\ streamBufSent' = 0
    /\ StartHeader
    /\ UNCHANGED <<totalBytesSent, fileOffset, streamFirst, streamBuild>>

(* buildErrorPage: everything of the page under way is dropped.                *)
BuildErrorPage ==
    /\ storeSize' \in BodySizes
    /\ totalBytesSent' = 0
    /\ fileOpen' = FALSE /\ fileSize' = 0
    /\ streamBufLen' = 0 /\ streamBufSent' = 0
    /\ StartHeader
    /\ UNCHANGED <<fileOffset, streamFirst, streamBuild>>

(* The request is wrong, or the 408 sweep finds the connection idle: then the  *)
(* error page replaces a page that may be half sent.                           *)
TriggerError ==
    /\ state # "FINISHED" /\ slice = "idle" /\ builds < MaxBuilds
    /\ BuildErrorPage

-----------------------------------------------------------------------------
(* Sending.                                                                    *)

(* sendSlice returns true: handleWrite ends the connection.                    *)
Finish == state' = "FINISHED" /\ slice' = "idle"

(* sendSlice returns false.                                                    *)
More == slice' = "idle" /\ UNCHANGED state

InHeader ==
    state = "WRITING" /\ slice = "idle" /\ responseState = "SENDING_RES_HEAD"

InBody ==
    /\ state = "WRITING"
    /\ responseState = "SENDING_BODY_STATIC"
    /\ slice \in {"idle", "body"}

FromFile  == InBody /\ fileOpen
FromRam   == InBody /\ ~fileOpen /\ StoreMode = "RAM"
FromStore == InBody /\ ~fileOpen /\ StoreMode = "FILE_MODE"

(* send() takes n of the toSend bytes that start at the given position.        *)
Sent(build, first, n) ==
    /\ received' = received \o Bytes(build, first, n)
    /\ totalBytesSent' = totalBytesSent + n

(* _sendHeader, the last bytes of the header not among those sent.             *)
SendHeaderPart ==
    /\ InHeader
    /\ \E n \in 1..Least(headerSize - totalBytesSent, WriteBufferSize) :
         /\ totalBytesSent + n < headerSize
         /\ Sent(builds, totalBytesSent, n)
    /\ More
    /\ UNCHANGED <<response, fileOpen, fileOffset, stream, disk, refused>>

(* The header is out.  The same slice goes on with the body, if there is one.  *)
SendHeaderEnd ==
    /\ InHeader
    /\ headerSize - totalBytesSent <= WriteBufferSize
    /\ Sent(builds, totalBytesSent, headerSize - totalBytesSent)
    /\ IF storeSize = 0 /\ ~fileOpen
       THEN Finish /\ UNCHANGED responseState
       ELSE /\ responseState' = "SENDING_BODY_STATIC"
            /\ slice' = "body" /\ UNCHANGED state
    /\ UNCHANGED <<builds, headerSize, storeSize, fileSize, fileOpen,
                   fileOffset, stream, disk, refused>>

(* _sendBodyDataStore over a body in memory.                                   *)
SendRam ==
    /\ FromRam
    /\ LET offset == totalBytesSent - headerSize
       IN  \E n \in 1..Least(storeSize - offset, WriteBufferSize) :
             /\ Sent(builds, headerSize + offset, n)
             /\ IF totalBytesSent + n = headerSize + storeSize
                THEN Finish ELSE More
    /\ UNCHANGED <<response, fileOpen, fileOffset, stream, disk, refused>>

(* _streamBuf gets n bytes of the body.                                        *)
Fill(first, n) ==
    /\ streamFirst' = first /\ streamBuild' = builds
    /\ streamBufLen' = n /\ streamBufSent' = 0
    /\ slice' = "send" /\ UNCHANGED state

(* What read() finds in the file after fileOffset.                             *)
Available ==
    IF fileOffset < fileLength
    THEN Least(fileLength - fileOffset, WriteBufferSize) ELSE 0

ReadFile_WaitsForMore ==
    /\ FromFile /\ streamBufLen = 0
    /\ IF Available > 0
       THEN /\ Fill(fileOffset, Available)
            /\ fileOffset' = fileOffset + Available
       ELSE /\ More
            /\ UNCHANGED <<fileOffset, stream>>
    /\ UNCHANGED <<response, fileOpen, totalBytesSent, disk, received, refused>>

(* _sendBodyFile with an empty buffer: at the end of the file it gives up.     *)
ReadFile ==
    /\ FromFile /\ streamBufLen = 0
    /\ IF Available > 0
       THEN /\ Fill(fileOffset, Available)
            /\ fileOffset' = fileOffset + Available
            /\ UNCHANGED fileOpen
       ELSE /\ Finish
            /\ fileOpen' = FALSE
            /\ UNCHANGED <<fileOffset, stream>>
    /\ UNCHANGED <<response, totalBytesSent, disk, received, refused>>

ReadFileFails_TestsForZero ==
    /\ FromFile /\ streamBufLen = 0
    /\ refused' = TRUE /\ Fill(fileOffset, -1)
    /\ UNCHANGED <<response, fileOpen, fileOffset, totalBytesSent, disk, received>>

(* The disk fails: the same end.                                               *)
ReadFileFails ==
    /\ FromFile /\ streamBufLen = 0
    /\ refused' = TRUE /\ fileOpen' = FALSE /\ Finish
    /\ UNCHANGED <<response, fileOffset, stream, totalBytesSent, disk, received>>

(* _sendBodyStatic sets the read position of the store back before each slice. *)
ReadStore ==
    /\ FromStore /\ streamBufLen = 0
    /\ Fill(0, Least(storeSize, WriteBufferSize))
    /\ UNCHANGED <<response, fileOpen, fileOffset, totalBytesSent, disk,
                   received, refused>>

(* The buffer is ready, now or since an earlier slice.                         *)
Buffered ==
    /\ state = "WRITING"
    /\ \/ slice = "send"
       \/ (FromFile \/ FromStore) /\ streamBufLen > 0

FileEnd_Exact(total) == total - headerSize = fileSize

FileEnd_ForgetsHeader(total) == total >= fileSize

(* _sendBodyFile is done when Content-Length bytes are out, or more.           *)
FileEnd(total) == total - headerSize >= fileSize

StreamSent(n) ==
    /\ Sent(streamBuild, headerSize + streamFirst + streamBufSent, n)
    /\ streamBufSent' = streamBufSent + n
    /\ streamBufLen' = IF streamBufSent + n = streamBufLen
                       THEN 0 ELSE streamBufLen
    /\ UNCHANGED <<streamFirst, streamBuild>>

(* _sendBodyFile, what it sends of the buffer.                                 *)
SendFile ==
    /\ Buffered /\ fileOpen
    /\ \E n \in 1..(streamBufLen - streamBufSent) :
         /\ StreamSent(n)
         /\ IF FileEnd(totalBytesSent + n)
            THEN Finish /\ fileOpen' = FALSE
            ELSE More /\ UNCHANGED fileOpen
    /\ UNCHANGED <<response, fileOffset, disk, refused>>

(* _sendBodyDataStore over a temporary file: done when the count is exact.     *)
SendStore ==
    /\ Buffered /\ ~fileOpen
    /\ \E n \in 1..(streamBufLen - streamBufSent) :
         /\ Len(received) + n <= MaxReceived
         /\ StreamSent(n)
         /\ IF totalBytesSent + n = headerSize + storeSize
            THEN Finish ELSE More
    /\ UNCHANGED <<response, fileOpen, fileOffset, disk, refused>>

(* The three calls of send().                                                  *)
AtSend == InHeader \/ FromRam \/ Buffered

(* send() returns -1, EAGAIN for one: the response is taken for finished.      *)
SendRefused ==
    /\ AtSend
    /\ refused' = TRUE
    /\ fileOpen' = (fileOpen /\ InHeader)
    /\ Finish
    /\ UNCHANGED <<response, fileOffset, stream, totalBytesSent, disk, received>>

(* SIGPIPE: throwIfSigpipe throws, and the loop answers with a 502 page.       *)
SendBroken ==
    /\ AtSend /\ builds < MaxBuilds
    /\ BuildErrorPage

Progress ==
    \/ SendHeaderPart \/ SendHeaderEnd \/ SendRam
    \/ ReadFile \/ SendFile
    \/ ReadStore \/ SendStore

Failure == ReadFileFails \/ SendRefused \/ SendBroken

(* Somebody writes or truncates the file that is served.                       *)
ResizeFile ==
    /\ fileLength' \in 0..MaxFile
    /\ shrunk' = (shrunk \/ (fileOpen /\ fileLength' < fileSize))
    /\ grown' = (grown \/ (fileOpen /\ fileLength' > fileSize))
    /\ UNCHANGED <<state, slice, response, fileOpen, fileOffset, stream,
                   totalBytesSent, received, refused>>

Next == \/ FinalizeSuccess \/ ServeFile \/ TriggerError
     \/ Progress \/ Failure \/ ResizeFile

Spec == Init /\ [][Next]_vars

(* The descriptor stays writable, because the client goes on reading.  Nothing *)
(* is assumed of the calls that fail.                                          *)
FairSpec == Spec /\ WF_vars(Progress)

-----------------------------------------------------------------------------
(* What the client received since the page was built is the beginning of that  *)
(* page: nothing twice, nothing left out, nothing of an earlier page, however  *)
(* send() cuts it (sendSlice, buildErrorPage; not for a body in a temporary    *)
(* file).                                                                      *)
CurrentPrefix ==
    StoreMode = "RAM" => received = Bytes(builds, 0, Len(received))

(* When sendSlice returns true the client has the whole page, unless a system  *)
(* call failed or the file was truncated.                                      *)
EntireUnlessCut ==
    state = "FINISHED" /\ StoreMode = "RAM" /\ ~refused /\ ~shrunk
        => Len(received) >= headerSize + BodySize

(* The client gets no more than Content-Length, unless the served file grew,   *)
(* and then at most one buffer more (_sendBodyFile).                           *)
LengthKept ==
    StoreMode = "RAM"
        => \/ Len(received) <= headerSize + BodySize
           \/ grown /\ Len(received) <= headerSize + BodySize + WriteBufferSize

(* The page of a client that reads is finished (handleWrite, sendSlice).       *)
Finishes == state = "WRITING" ~> state = "FINISHED" \/ StoreMode = "FILE_MODE"

(* includes/Response.hpp:69, "false if more data remains": a slice that        *)
(* returned false has not sent the last byte.                                  *)
FalseMeansMore ==
    state = "WRITING" /\ slice = "idle"
        => Len(received) < headerSize + BodySize
=============================================================================
