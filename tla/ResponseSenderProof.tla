------------------------ MODULE ResponseSenderProof ------------------------
(* What ResponseSender promises of a page in memory or in a served file, proved *)
(* for all sizes of headers, bodies, files and buffers.                         *)
EXTENDS ResponseSender, SequenceTheorems, TLAPS

(* Before the page: nothing is set up.                                          *)
Unbuilt ==
    state = "PROCESSING" =>
        /\ totalBytesSent = 0 /\ slice = "idle"
        /\ storeSize = 0 /\ fileSize = 0 /\ ~fileOpen /\ streamBufLen = 0
        /\ received = <<>>

(* A page has one body, in the store or in a file.                              *)
OneBody ==
    /\ fileOpen \/ fileSize > 0 => storeSize = 0
    /\ state = "WRITING" /\ ~fileOpen => fileSize = 0

(* _totalBytesSent is what the client received.                                 *)
Counted == totalBytesSent = Len(received)

(* In the header.                                                               *)
HeaderPart ==
    state = "WRITING" /\ responseState = "SENDING_RES_HEAD" =>
        /\ totalBytesSent < headerSize /\ slice = "idle"
        /\ streamBufLen = 0
        /\ fileOpen => fileOffset = 0

(* The file on the disk against what stat() said.                               *)
Watched ==
    fileOpen =>
        /\ ~shrunk => fileLength >= fileSize
        /\ ~grown => fileLength <= fileSize /\ fileOffset <= fileSize

(* In a body that is read from a file: what is sent, what is in _streamBuf and  *)
(* what is still to be read lie one after the other.                            *)
FilePart ==
    state = "WRITING" /\ responseState = "SENDING_BODY_STATIC" /\ fileOpen =>
        /\ \/ totalBytesSent < headerSize + fileSize
           \/ totalBytesSent = headerSize /\ fileSize = 0
        /\ streamBufLen > 0 =>
             /\ streamBuild = builds
             /\ streamBufSent < streamBufLen /\ streamBufLen <= WriteBufferSize
             /\ totalBytesSent = headerSize + streamFirst + streamBufSent
             /\ fileOffset = streamFirst + streamBufLen
        /\ streamBufLen = 0 =>
             /\ totalBytesSent = headerSize + fileOffset
             /\ slice # "send"

(* In a body that is in memory.                                                 *)
RamPart ==
    state = "WRITING" /\ responseState = "SENDING_BODY_STATIC"
      /\ ~fileOpen /\ StoreMode = "RAM" =>
        /\ headerSize <= totalBytesSent
        /\ totalBytesSent < headerSize + storeSize
        /\ streamBufLen = 0 /\ slice # "send"

IInv ==
    /\ TypeOK /\ Unbuilt /\ OneBody /\ Counted /\ HeaderPart /\ Watched
    /\ FilePart /\ RamPart
    /\ CurrentPrefix /\ EntireUnlessCut /\ LengthKept

-----------------------------------------------------------------------------
(* Consecutive bytes of one page, one after the other, are consecutive bytes of *)
(* that page.                                                                   *)
LEMMA BytesExtend ==
    ASSUME NEW b \in Nat, NEW m \in Nat, NEW n \in Nat
    PROVE  /\ Bytes(b, m, n) \in Seq(Nat \X Nat)
           /\ Len(Bytes(b, m, n)) = n
           /\ Bytes(b, 0, m) \o Bytes(b, m, n) = Bytes(b, 0, m + n)
<1>1. /\ Bytes(b, m, n) \in Seq(Nat \X Nat)
      /\ Len(Bytes(b, m, n)) = n
  BY DEF Bytes
<1>2. /\ Bytes(b, 0, m) \in Seq(Nat \X Nat)
      /\ Len(Bytes(b, 0, m)) = m
  BY DEF Bytes
<1>3. /\ Bytes(b, 0, m + n) \in Seq(Nat \X Nat)
      /\ Len(Bytes(b, 0, m + n)) = m + n
  BY DEF Bytes
<1>4. \A i \in 1..(m + n) :
        (Bytes(b, 0, m) \o Bytes(b, m, n))[i] = Bytes(b, 0, m + n)[i]
  <2>1. SUFFICES ASSUME NEW i \in 1..(m + n)
                 PROVE  (Bytes(b, 0, m) \o Bytes(b, m, n))[i]
                          = Bytes(b, 0, m + n)[i]
    OBVIOUS
  <2>2. i <= m \/ i > m
    OBVIOUS
  <2>3. CASE i <= m
    BY <1>1, <1>2, <2>3 DEF Bytes
  <2>4. CASE i > m
    BY <1>1, <1>2, <2>4 DEF Bytes
  <2> QED BY <2>2, <2>3, <2>4
<1>5. /\ Bytes(b, 0, m) \o Bytes(b, m, n) \in Seq(Nat \X Nat)
      /\ Len(Bytes(b, 0, m) \o Bytes(b, m, n)) = m + n
  BY <1>1, <1>2, ConcatProperties
<1>6. Bytes(b, 0, m) \o Bytes(b, m, n) = Bytes(b, 0, m + n)
  <2> HIDE DEF Bytes
  <2> QED BY <1>3, <1>4, <1>5, SeqEqual
<1> QED BY <1>1, <1>6

(* Stated apart because the provers do not find it between primed variables.    *)
LEMMA Sums == \A x, y \in Nat : x + y \in Nat /\ 0 <= x + y
OBVIOUS

(* What a successful send() does to the books.                                  *)
LEMMA SentBytes ==
    ASSUME TypeOK, Counted,
           NEW b \in Nat, NEW first \in Nat, NEW n \in Nat,
           Sent(b, first, n)
    PROVE  /\ received' \in Seq(Nat \X Nat)
           /\ Len(received') = Len(received) + n
           /\ totalBytesSent' \in Nat
           /\ totalBytesSent' = Len(received')
           /\ totalBytesSent' = totalBytesSent + n
           /\ b = builds /\ first = totalBytesSent
              /\ received = Bytes(builds, 0, Len(received))
                => received' = Bytes(builds, 0, Len(received'))
<1>1. /\ Bytes(b, first, n) \in Seq(Nat \X Nat)
      /\ Len(Bytes(b, first, n)) = n
  BY BytesExtend
<1>2. received \in Seq(Nat \X Nat) /\ totalBytesSent \in Nat
  BY DEF TypeOK
<1>3. /\ received' = received \o Bytes(b, first, n)
      /\ totalBytesSent' = totalBytesSent + n
  BY DEF Sent
<1>4. /\ received' \in Seq(Nat \X Nat)
      /\ Len(received') = Len(received) + n
  BY <1>1, <1>2, <1>3, ConcatProperties
<1>5. totalBytesSent = Len(received)
  BY DEF Counted
<1>6. ASSUME b = builds, first = totalBytesSent,
             received = Bytes(builds, 0, Len(received))
      PROVE  received' = Bytes(builds, 0, Len(received'))
  <2>1. Bytes(b, 0, first) \o Bytes(b, first, n) = Bytes(b, 0, first + n)
    BY BytesExtend
  <2> QED BY <2>1, <1>3, <1>4, <1>5, <1>6
<1> QED BY <1>2, <1>3, <1>4, <1>5, <1>6

(* Building a page makes everything anew.                                       *)
LEMMA StartHeaderFacts ==
    ASSUME IInv, StartHeader
    PROVE  /\ headerSize' \in Nat /\ headerSize' > 0
           /\ builds' \in Nat
           /\ received' = <<>> /\ received' \in Seq(Nat \X Nat)
           /\ Len(received') = 0
           /\ received' = Bytes(builds', 0, Len(received'))
BY SizesAssumption DEF IInv, TypeOK, StartHeader, Bytes

(* A page in the store.                                                         *)
LEMMA FinalizeSuccessStep == ASSUME IInv, FinalizeSuccess PROVE IInv'
<1>1. /\ headerSize' \in Nat /\ headerSize' > 0
      /\ builds' \in Nat
      /\ received' = <<>> /\ received' \in Seq(Nat \X Nat)
      /\ Len(received') = 0
      /\ received' = Bytes(builds', 0, Len(received'))
  BY StartHeaderFacts DEF FinalizeSuccess
<1>2. TypeOK'
  BY <1>1, SizesAssumption
  DEF IInv, TypeOK, HeaderPart, response, stream, disk, FinalizeSuccess,
      StartHeader
<1>3. Unbuilt' /\ OneBody' /\ Counted' /\ HeaderPart' /\ Watched'
  BY <1>1, SizesAssumption
  DEF IInv, TypeOK, Unbuilt, OneBody, Counted, HeaderPart, Watched, FilePart,
      RamPart, response, stream, disk, FinalizeSuccess, StartHeader
<1>4. FilePart' /\ RamPart'
  BY <1>1, SizesAssumption
  DEF IInv, TypeOK, OneBody, Counted, HeaderPart, FilePart, RamPart, response,
      stream, disk, FinalizeSuccess, StartHeader
<1>5. CurrentPrefix'
  BY <1>1 DEF CurrentPrefix
<1>6. EntireUnlessCut' /\ LengthKept'
  <2>1. state' = "WRITING" /\ Len(received') = 0
    BY <1>1 DEF FinalizeSuccess, StartHeader
  <2>2. headerSize' \in Nat /\ BodySize' \in Nat
    BY <1>2, Sums DEF TypeOK, BodySize
  <2>3. EntireUnlessCut'
    BY <2>1 DEF EntireUnlessCut
  <2>4. Len(received') <= headerSize' + BodySize'
    BY <2>1, <2>2, Sums
  <2>5. LengthKept'
    BY <2>4 DEF LengthKept
  <2> QED BY <2>3, <2>5
<1> QED BY <1>2, <1>3, <1>4, <1>5, <1>6 DEF IInv

(* A served file.                                                               *)
LEMMA ServeFileStep == ASSUME IInv, ServeFile PROVE IInv'
<1>1. /\ headerSize' \in Nat /\ headerSize' > 0
      /\ builds' \in Nat
      /\ received' = <<>> /\ received' \in Seq(Nat \X Nat)
      /\ Len(received') = 0
      /\ received' = Bytes(builds', 0, Len(received'))
  BY StartHeaderFacts DEF ServeFile
<1>2. TypeOK'
  BY <1>1, SizesAssumption
  DEF IInv, TypeOK, HeaderPart, response, stream, disk, ServeFile, StartHeader
<1>3. Unbuilt' /\ OneBody' /\ Counted' /\ HeaderPart' /\ Watched'
  BY <1>1, SizesAssumption
  DEF IInv, TypeOK, Unbuilt, OneBody, Counted, HeaderPart, Watched, FilePart,
      RamPart, response, stream, disk, ServeFile, StartHeader
<1>4. FilePart' /\ RamPart'
  BY <1>1, SizesAssumption
  DEF IInv, TypeOK, OneBody, Counted, HeaderPart, FilePart, RamPart, response,
      stream, disk, ServeFile, StartHeader
<1>5. CurrentPrefix'
  BY <1>1 DEF CurrentPrefix
<1>6. EntireUnlessCut' /\ LengthKept'
  <2>1. state' = "WRITING" /\ Len(received') = 0
    BY <1>1 DEF ServeFile, StartHeader
  <2>2. headerSize' \in Nat /\ BodySize' \in Nat
    BY <1>2, Sums DEF TypeOK, BodySize
  <2>3. EntireUnlessCut'
    BY <2>1 DEF EntireUnlessCut
  <2>4. Len(received') <= headerSize' + BodySize'
    BY <2>1, <2>2, Sums
  <2>5. LengthKept'
    BY <2>4 DEF LengthKept
  <2> QED BY <2>3, <2>5
<1> QED BY <1>2, <1>3, <1>4, <1>5, <1>6 DEF IInv

(* An error page, whatever was under way.                                       *)
LEMMA ErrorPageStep == ASSUME IInv, BuildErrorPage PROVE IInv'
<1>1. /\ headerSize' \in Nat /\ headerSize' > 0
      /\ builds' \in Nat
      /\ received' = <<>> /\ received' \in Seq(Nat \X Nat)
      /\ Len(received') = 0
      /\ received' = Bytes(builds', 0, Len(received'))
  BY StartHeaderFacts DEF BuildErrorPage
<1>2. TypeOK'
  BY <1>1, SizesAssumption
  DEF IInv, TypeOK, HeaderPart, response, stream, disk, BuildErrorPage,
      StartHeader
<1>3. Unbuilt' /\ OneBody' /\ Counted' /\ HeaderPart' /\ Watched'
  BY <1>1, SizesAssumption
  DEF IInv, TypeOK, Unbuilt, OneBody, Counted, HeaderPart, Watched, FilePart,
      RamPart, response, stream, disk, BuildErrorPage, StartHeader
<1>4. FilePart' /\ RamPart'
  BY <1>1, SizesAssumption
  DEF IInv, TypeOK, OneBody, Counted, HeaderPart, FilePart, RamPart, response,
      stream, disk, BuildErrorPage, StartHeader
<1>5. CurrentPrefix'
  BY <1>1 DEF CurrentPrefix
<1>6. EntireUnlessCut' /\ LengthKept'
  <2>1. state' = "WRITING" /\ Len(received') = 0
    BY <1>1 DEF BuildErrorPage, StartHeader
  <2>2. headerSize' \in Nat /\ BodySize' \in Nat
    BY <1>2, Sums DEF TypeOK, BodySize
  <2>3. EntireUnlessCut'
    BY <2>1 DEF EntireUnlessCut
  <2>4. Len(received') <= headerSize' + BodySize'
    BY <2>1, <2>2, Sums
  <2>5. LengthKept'
    BY <2>4 DEF LengthKept
  <2> QED BY <2>3, <2>5
<1> QED BY <1>2, <1>3, <1>4, <1>5, <1>6 DEF IInv

(* Some of the header.                                                          *)
LEMMA SendHeaderPartStep == ASSUME IInv, SendHeaderPart PROVE IInv'
<1>1. PICK n \in 1..Least(headerSize - totalBytesSent, WriteBufferSize) :
        totalBytesSent + n < headerSize /\ Sent(builds, totalBytesSent, n)
  BY DEF SendHeaderPart
<1>2. n \in Nat /\ n > 0
  BY <1>1, SizesAssumption DEF IInv, TypeOK, HeaderPart, InHeader, Least, SendHeaderPart
<1>3. Sent(builds, totalBytesSent, n)
  BY <1>1, <1>2 DEF SendHeaderPart
<1>4. /\ received' \in Seq(Nat \X Nat)
      /\ Len(received') = Len(received) + n
      /\ totalBytesSent' \in Nat
      /\ totalBytesSent' = Len(received')
      /\ totalBytesSent' = totalBytesSent + n
      /\ builds = builds /\ totalBytesSent = totalBytesSent
         /\ received = Bytes(builds, 0, Len(received))
           => received' = Bytes(builds, 0, Len(received'))
  BY <1>2, <1>3, SentBytes DEF IInv, TypeOK
<1>5. TypeOK'
  BY <1>1, <1>2, <1>4, SizesAssumption
  DEF IInv, TypeOK, HeaderPart, response, stream, disk, SendHeaderPart, Sent,
      More, Finish, Least, InHeader, InBody, FromFile, FromRam,
      FromStore
<1>6. Unbuilt' /\ OneBody' /\ Counted' /\ HeaderPart' /\ Watched'
  BY <1>1, <1>2, <1>4, SizesAssumption
  DEF IInv, TypeOK, Unbuilt, OneBody, Counted, HeaderPart, Watched, FilePart,
      RamPart, response, stream, disk, SendHeaderPart, Sent, More,
      Finish, Least, InHeader, InBody, FromFile, FromRam, FromStore
<1>7. FilePart'
  BY <1>1, <1>2, <1>4, SizesAssumption
  DEF IInv, TypeOK, OneBody, Counted, HeaderPart, FilePart, RamPart, response,
      stream, disk, SendHeaderPart, Sent, More, Finish, Least, InHeader,
      InBody, FromFile, FromRam, FromStore
<1>8. RamPart'
  BY <1>1, <1>2, <1>4, SizesAssumption
  DEF IInv, TypeOK, OneBody, Counted, HeaderPart, FilePart, RamPart, response,
      stream, disk, StoreMode, SendHeaderPart, Sent, More, Finish,
      Least, InHeader, InBody, FromFile, FromRam, FromStore
<1>9. CurrentPrefix'
  BY <1>1, <1>2, <1>4, SizesAssumption
  DEF IInv, TypeOK, OneBody, Counted, HeaderPart, FilePart, RamPart,
      CurrentPrefix, response, stream, disk, StoreMode, SendHeaderPart,
      Sent, More, Finish, Least, InHeader, InBody, FromFile, FromRam,
      FromStore
<1>10. EntireUnlessCut'
  BY <1>1, <1>2, <1>4, SizesAssumption
  DEF IInv, TypeOK, Unbuilt, OneBody, Counted, HeaderPart, Watched, FilePart,
      RamPart, EntireUnlessCut, response, stream, disk, StoreMode,
      BodySize, SendHeaderPart, Sent, More, Finish, Least, InHeader,
      InBody, FromFile, FromRam, FromStore
<1>11. LengthKept'
  BY <1>1, <1>2, <1>4, SizesAssumption
  DEF IInv, TypeOK, Unbuilt, OneBody, Counted, HeaderPart, Watched, FilePart,
      RamPart, LengthKept, response, stream, disk, StoreMode, BodySize,
      SendHeaderPart, Sent, More, Finish, Least, InHeader, InBody,
      FromFile, FromRam, FromStore
<1> QED BY <1>5, <1>6, <1>7, <1>8, <1>9, <1>10, <1>11 DEF IInv

(* The end of the header.                                                       *)
LEMMA SendHeaderEndStep == ASSUME IInv, SendHeaderEnd PROVE IInv'
<1>1. PICK n \in Int : n = headerSize - totalBytesSent
  BY DEF IInv, TypeOK
<1>2. n \in Nat /\ n > 0
  BY <1>1, SizesAssumption DEF IInv, TypeOK, HeaderPart, InHeader, Least, SendHeaderEnd
<1>3. Sent(builds, totalBytesSent, n)
  BY <1>1, <1>2 DEF SendHeaderEnd
<1>4. /\ received' \in Seq(Nat \X Nat)
      /\ Len(received') = Len(received) + n
      /\ totalBytesSent' \in Nat
      /\ totalBytesSent' = Len(received')
      /\ totalBytesSent' = totalBytesSent + n
      /\ builds = builds /\ totalBytesSent = totalBytesSent
         /\ received = Bytes(builds, 0, Len(received))
           => received' = Bytes(builds, 0, Len(received'))
  BY <1>2, <1>3, SentBytes DEF IInv, TypeOK
<1>5. TypeOK'
  BY <1>1, <1>2, <1>4, SizesAssumption
  DEF IInv, TypeOK, HeaderPart, response, stream, disk, SendHeaderEnd, Sent,
      More, Finish, Least, InHeader, InBody, FromFile, FromRam,
      FromStore
<1>6. Unbuilt' /\ OneBody' /\ Counted' /\ HeaderPart' /\ Watched'
  BY <1>1, <1>2, <1>4, SizesAssumption
  DEF IInv, TypeOK, Unbuilt, OneBody, Counted, HeaderPart, Watched, FilePart,
      RamPart, response, stream, disk, SendHeaderEnd, Sent, More,
      Finish, Least, InHeader, InBody, FromFile, FromRam, FromStore
<1>7. FilePart'
  BY <1>1, <1>2, <1>4, SizesAssumption
  DEF IInv, TypeOK, OneBody, Counted, HeaderPart, FilePart, RamPart, response,
      stream, disk, SendHeaderEnd, Sent, More, Finish, Least, InHeader,
      InBody, FromFile, FromRam, FromStore
<1>8. RamPart'
  BY <1>1, <1>2, <1>4, SizesAssumption
  DEF IInv, TypeOK, OneBody, Counted, HeaderPart, FilePart, RamPart, response,
      stream, disk, StoreMode, SendHeaderEnd, Sent, More, Finish, Least,
      InHeader, InBody, FromFile, FromRam, FromStore
<1>9. CurrentPrefix'
  BY <1>1, <1>2, <1>4, SizesAssumption
  DEF IInv, TypeOK, OneBody, Counted, HeaderPart, FilePart, RamPart,
      CurrentPrefix, response, stream, disk, StoreMode, SendHeaderEnd,
      Sent, More, Finish, Least, InHeader, InBody, FromFile, FromRam,
      FromStore
<1>10. EntireUnlessCut'
  BY <1>1, <1>2, <1>4, SizesAssumption
  DEF IInv, TypeOK, Unbuilt, OneBody, Counted, HeaderPart, Watched, FilePart,
      RamPart, EntireUnlessCut, response, stream, disk, StoreMode,
      BodySize, SendHeaderEnd, Sent, More, Finish, Least, InHeader,
      InBody, FromFile, FromRam, FromStore
<1>11. LengthKept'
  BY <1>1, <1>2, <1>4, SizesAssumption
  DEF IInv, TypeOK, Unbuilt, OneBody, Counted, HeaderPart, Watched, FilePart,
      RamPart, LengthKept, response, stream, disk, StoreMode, BodySize,
      SendHeaderEnd, Sent, More, Finish, Least, InHeader, InBody,
      FromFile, FromRam, FromStore
<1> QED BY <1>5, <1>6, <1>7, <1>8, <1>9, <1>10, <1>11 DEF IInv

(* A body in memory.                                                            *)
LEMMA SendRamStep == ASSUME IInv, SendRam PROVE IInv'
<1>1. PICK n \in 1..Least(storeSize - (totalBytesSent - headerSize),
                           WriteBufferSize) :
        /\ Sent(builds, headerSize + (totalBytesSent - headerSize), n)
        /\ IF totalBytesSent + n = headerSize + storeSize
           THEN Finish ELSE More
  BY DEF SendRam
<1>2. /\ n \in Nat /\ n > 0
      /\ headerSize + (totalBytesSent - headerSize) = totalBytesSent
      /\ totalBytesSent + n <= headerSize + storeSize
  BY <1>1, SizesAssumption DEF IInv, TypeOK, HeaderPart, RamPart, FilePart, InBody, FromRam, Least, SendRam
<1>3. Sent(builds, totalBytesSent, n)
  BY <1>1, <1>2 DEF SendRam
<1>4. /\ received' \in Seq(Nat \X Nat)
      /\ Len(received') = Len(received) + n
      /\ totalBytesSent' \in Nat
      /\ totalBytesSent' = Len(received')
      /\ totalBytesSent' = totalBytesSent + n
      /\ builds = builds /\ totalBytesSent = totalBytesSent
         /\ received = Bytes(builds, 0, Len(received))
           => received' = Bytes(builds, 0, Len(received'))
  BY <1>2, <1>3, SentBytes DEF IInv, TypeOK
<1>5. TypeOK'
  BY <1>1, <1>2, <1>4, SizesAssumption
  DEF IInv, TypeOK, HeaderPart, response, stream, disk, SendRam, Sent, More,
      Finish, Least, InHeader, InBody, FromFile, FromRam, FromStore
<1>6. Unbuilt' /\ OneBody' /\ Counted' /\ HeaderPart' /\ Watched'
  BY <1>1, <1>2, <1>4, SizesAssumption
  DEF IInv, TypeOK, Unbuilt, OneBody, Counted, HeaderPart, Watched, FilePart,
      RamPart, response, stream, disk, SendRam, Sent, More, Finish,
      Least, InHeader, InBody, FromFile, FromRam, FromStore
<1>7. FilePart'
  BY <1>1, <1>2, <1>4, SizesAssumption
  DEF IInv, TypeOK, OneBody, Counted, HeaderPart, FilePart, RamPart, response,
      stream, disk, SendRam, Sent, More, Finish, Least, InHeader,
      InBody, FromFile, FromRam, FromStore
<1>8. RamPart'
  <2>1. /\ \/ state' = "FINISHED"
           \/ totalBytesSent' < headerSize + storeSize
        /\ slice' = "idle"
    BY <1>1, <1>2, <1>4 DEF Finish, More, IInv, TypeOK
  <2>2. /\ headerSize <= totalBytesSent' /\ streamBufLen = 0
        /\ headerSize' = headerSize /\ storeSize' = storeSize
        /\ streamBufLen' = streamBufLen
    BY <1>2, <1>4 DEF SendRam, FromRam, InBody, response, stream, IInv, TypeOK, RamPart
  <2> QED BY <2>1, <2>2 DEF RamPart
<1>9. CurrentPrefix'
  BY <1>1, <1>2, <1>4, SizesAssumption
  DEF IInv, TypeOK, OneBody, Counted, HeaderPart, FilePart, RamPart,
      CurrentPrefix, response, stream, disk, StoreMode, SendRam, Sent,
      More, Finish, Least, InHeader, InBody, FromFile, FromRam,
      FromStore
<1>10. EntireUnlessCut'
  BY <1>1, <1>2, <1>4, SizesAssumption
  DEF IInv, TypeOK, Unbuilt, OneBody, Counted, HeaderPart, Watched, FilePart,
      RamPart, EntireUnlessCut, response, stream, disk, StoreMode,
      BodySize, SendRam, Sent, More, Finish, Least, InHeader, InBody,
      FromFile, FromRam, FromStore
<1>11. LengthKept'
  BY <1>1, <1>2, <1>4, SizesAssumption
  DEF IInv, TypeOK, Unbuilt, OneBody, Counted, HeaderPart, Watched, FilePart,
      RamPart, LengthKept, response, stream, disk, StoreMode, BodySize,
      SendRam, Sent, More, Finish, Least, InHeader, InBody, FromFile,
      FromRam, FromStore
<1> QED BY <1>5, <1>6, <1>7, <1>8, <1>9, <1>10, <1>11 DEF IInv

(* A buffer is read from the file, or its end is met.                           *)
LEMMA ReadFileStep == ASSUME IInv, ReadFile PROVE IInv'
<1> USE DEF ReadFile, FromFile, InBody, response, disk
<1>1. /\ Available \in Nat /\ Available <= WriteBufferSize
      /\ Available = 0 => fileLength <= fileOffset
      /\ fileOffset + Available <= fileLength \/ Available = 0
  BY SizesAssumption DEF IInv, TypeOK, Available, Least
<1>2. /\ fileOpen /\ streamBufLen = 0
      /\ totalBytesSent = headerSize + fileOffset
      /\ storeSize = 0
  BY DEF IInv, FilePart, OneBody
<1>3. CASE Available > 0
  <2> USE DEF Fill
  <2>1. TypeOK'
    BY <1>1, <1>2, <1>3, SizesAssumption DEF IInv, TypeOK, Watched, StoreMode, BodySize
  <2>2. Unbuilt' /\ OneBody' /\ Counted' /\ HeaderPart'
    BY <1>1, <1>2, <1>3, SizesAssumption DEF IInv, TypeOK, Unbuilt, OneBody, Counted, HeaderPart, Watched, StoreMode, BodySize
  <2>3. Watched'
    BY <1>1, <1>2, <1>3, SizesAssumption DEF IInv, TypeOK, Watched, StoreMode, BodySize
  <2>4. FilePart'
    BY <1>1, <1>2, <1>3, SizesAssumption DEF IInv, TypeOK, FilePart, Watched, StoreMode, BodySize
  <2>5. RamPart'
    BY <1>1, <1>2, <1>3, SizesAssumption DEF IInv, TypeOK, RamPart, Watched, StoreMode, BodySize
  <2>6. CurrentPrefix'
    BY <1>1, <1>2, <1>3, SizesAssumption DEF IInv, TypeOK, CurrentPrefix, Watched, StoreMode, BodySize
  <2>7. EntireUnlessCut'
    BY <1>1, <1>2, <1>3, SizesAssumption DEF IInv, TypeOK, EntireUnlessCut, Watched, StoreMode, BodySize
  <2>8. LengthKept'
    BY <1>1, <1>2, <1>3, SizesAssumption DEF IInv, TypeOK, LengthKept, Watched, StoreMode, BodySize
  <2> QED BY <2>1, <2>2, <2>3, <2>4, <2>5, <2>6, <2>7, <2>8 DEF IInv
<1>4. CASE Available = 0
  <2> HIDE DEF ReadFile, FromFile, InBody, response, disk
  <2>1. /\ state' = "FINISHED" /\ slice' = "idle" /\ fileOpen' = FALSE
        /\ UNCHANGED <<fileOffset, stream, response, totalBytesSent, disk,
                       received, refused>>
    BY <1>4 DEF ReadFile, Finish
  <2>2. TypeOK'
    BY <1>1, <1>2, <1>4, <2>1 DEF IInv, TypeOK, Watched, Counted, StoreMode, BodySize, response, stream, disk
  <2>3. Unbuilt' /\ OneBody' /\ Counted' /\ HeaderPart'
    BY <1>1, <1>2, <1>4, <2>1 DEF IInv, TypeOK, Unbuilt, OneBody, Counted, HeaderPart, Watched, StoreMode, BodySize, response, stream, disk
  <2>4. Watched'
    BY <1>1, <1>2, <1>4, <2>1 DEF IInv, TypeOK, Watched, Counted, StoreMode, BodySize, response, stream, disk
  <2>5. FilePart'
    BY <1>1, <1>2, <1>4, <2>1 DEF IInv, TypeOK, FilePart, Watched, Counted, StoreMode, BodySize, response, stream, disk
  <2>6. RamPart'
    BY <1>1, <1>2, <1>4, <2>1 DEF IInv, TypeOK, RamPart, Watched, Counted, StoreMode, BodySize, response, stream, disk
  <2>7. CurrentPrefix'
    BY <1>1, <1>2, <1>4, <2>1 DEF IInv, TypeOK, CurrentPrefix, Watched, Counted, StoreMode, BodySize, response, stream, disk
  <2>8. EntireUnlessCut'
    <3>1. ~shrunk => fileOffset >= fileSize
      BY <1>1, <1>2, <1>4 DEF IInv, TypeOK, Watched
    <3>2. Len(received') = headerSize + fileOffset
      BY <1>2, <2>1 DEF IInv, Counted
    <3>3. storeSize' = 0 /\ fileSize' = fileSize /\ fileSize \in Nat
      BY <1>2, <2>1 DEF IInv, TypeOK, response
    <3>4. BodySize' = fileSize
      BY <3>3 DEF BodySize
    <3>5. ~shrunk => Len(received') >= headerSize + fileSize
      BY <3>1, <3>2 DEF IInv, TypeOK
    <3> QED BY <2>1, <3>4, <3>5 DEF EntireUnlessCut, response, disk
  <2>9. LengthKept'
    BY <1>1, <1>2, <1>4, <2>1 DEF IInv, TypeOK, LengthKept, Watched, Counted, StoreMode, BodySize, response, stream, disk
  <2> QED BY <2>2, <2>3, <2>4, <2>5, <2>6, <2>7, <2>8, <2>9 DEF IInv
<1> QED BY <1>1, <1>3, <1>4

(* The disk fails.                                                              *)
LEMMA ReadFileFailsStep == ASSUME IInv, ReadFileFails PROVE IInv'
<1>1. TypeOK'
  BY SizesAssumption
  DEF IInv, TypeOK, HeaderPart, response, stream, disk, ReadFileFails, Fill,
      Available, Buffered, AtSend, Sent, More, Finish, Least, InHeader,
      InBody, FromFile, FromRam, FromStore
<1>2. Unbuilt' /\ OneBody' /\ Counted' /\ HeaderPart' /\ Watched'
  BY SizesAssumption
  DEF IInv, TypeOK, Unbuilt, OneBody, Counted, HeaderPart, Watched, FilePart,
      RamPart, response, stream, disk, ReadFileFails, Fill, Available,
      Buffered, AtSend, Sent, More, Finish, Least, InHeader, InBody,
      FromFile, FromRam, FromStore
<1>3. FilePart'
  BY SizesAssumption
  DEF IInv, TypeOK, OneBody, Counted, HeaderPart, FilePart, RamPart, response,
      stream, disk, ReadFileFails, Fill, Available, Buffered, AtSend,
      Sent, More, Finish, Least, InHeader, InBody, FromFile, FromRam,
      FromStore
<1>4. RamPart'
  BY SizesAssumption
  DEF IInv, TypeOK, OneBody, Counted, HeaderPart, FilePart, RamPart, response,
      stream, disk, StoreMode, ReadFileFails, Fill, Available, Buffered,
      AtSend, Sent, More, Finish, Least, InHeader, InBody, FromFile,
      FromRam, FromStore
<1>5. CurrentPrefix'
  BY SizesAssumption
  DEF IInv, TypeOK, OneBody, Counted, HeaderPart, FilePart, RamPart,
      CurrentPrefix, response, stream, disk, StoreMode, ReadFileFails,
      Fill, Available, Buffered, AtSend, Sent, More, Finish, Least,
      InHeader, InBody, FromFile, FromRam, FromStore
<1>6. EntireUnlessCut'
  BY SizesAssumption
  DEF IInv, TypeOK, Unbuilt, OneBody, Counted, HeaderPart, Watched, FilePart,
      RamPart, EntireUnlessCut, response, stream, disk, StoreMode,
      BodySize, ReadFileFails, Fill, Available, Buffered, AtSend, Sent,
      More, Finish, Least, InHeader, InBody, FromFile, FromRam,
      FromStore
<1>7. LengthKept'
  BY SizesAssumption
  DEF IInv, TypeOK, Unbuilt, OneBody, Counted, HeaderPart, Watched, FilePart,
      RamPart, LengthKept, response, stream, disk, StoreMode, BodySize,
      ReadFileFails, Fill, Available, Buffered, AtSend, Sent, More,
      Finish, Least, InHeader, InBody, FromFile, FromRam, FromStore
<1> QED BY <1>1, <1>2, <1>3, <1>4, <1>5, <1>6, <1>7 DEF IInv

(* A buffer is read from the temporary file.                                    *)
LEMMA ReadStoreStep == ASSUME IInv, ReadStore PROVE IInv'
<1>1. TypeOK'
  BY SizesAssumption
  DEF IInv, TypeOK, HeaderPart, response, stream, disk, ReadStore, Fill,
      Available, Buffered, AtSend, Sent, More, Finish, Least, InHeader,
      InBody, FromFile, FromRam, FromStore
<1>2. Unbuilt' /\ OneBody' /\ Counted' /\ HeaderPart' /\ Watched'
  BY SizesAssumption
  DEF IInv, TypeOK, Unbuilt, OneBody, Counted, HeaderPart, Watched, FilePart,
      RamPart, response, stream, disk, ReadStore, Fill, Available,
      Buffered, AtSend, Sent, More, Finish, Least, InHeader, InBody,
      FromFile, FromRam, FromStore
<1>3. FilePart'
  BY SizesAssumption
  DEF IInv, TypeOK, OneBody, Counted, HeaderPart, FilePart, RamPart, response,
      stream, disk, ReadStore, Fill, Available, Buffered, AtSend, Sent,
      More, Finish, Least, InHeader, InBody, FromFile, FromRam,
      FromStore
<1>4. RamPart'
  BY SizesAssumption
  DEF IInv, TypeOK, OneBody, Counted, HeaderPart, FilePart, RamPart, response,
      stream, disk, StoreMode, ReadStore, Fill, Available, Buffered,
      AtSend, Sent, More, Finish, Least, InHeader, InBody, FromFile,
      FromRam, FromStore
<1>5. CurrentPrefix'
  BY SizesAssumption
  DEF IInv, TypeOK, OneBody, Counted, HeaderPart, FilePart, RamPart,
      CurrentPrefix, response, stream, disk, StoreMode, ReadStore, Fill,
      Available, Buffered, AtSend, Sent, More, Finish, Least, InHeader,
      InBody, FromFile, FromRam, FromStore
<1>6. EntireUnlessCut'
  BY SizesAssumption
  DEF IInv, TypeOK, Unbuilt, OneBody, Counted, HeaderPart, Watched, FilePart,
      RamPart, EntireUnlessCut, response, stream, disk, StoreMode,
      BodySize, ReadStore, Fill, Available, Buffered, AtSend, Sent,
      More, Finish, Least, InHeader, InBody, FromFile, FromRam,
      FromStore
<1>7. LengthKept'
  BY SizesAssumption
  DEF IInv, TypeOK, Unbuilt, OneBody, Counted, HeaderPart, Watched, FilePart,
      RamPart, LengthKept, response, stream, disk, StoreMode, BodySize,
      ReadStore, Fill, Available, Buffered, AtSend, Sent, More, Finish,
      Least, InHeader, InBody, FromFile, FromRam, FromStore
<1> QED BY <1>1, <1>2, <1>3, <1>4, <1>5, <1>6, <1>7 DEF IInv

(* A send fails.                                                                *)
LEMMA SendRefusedStep == ASSUME IInv, SendRefused PROVE IInv'
<1>1. TypeOK'
  BY SizesAssumption
  DEF IInv, TypeOK, HeaderPart, response, stream, disk, SendRefused, Fill,
      Available, Buffered, AtSend, Sent, More, Finish, Least, InHeader,
      InBody, FromFile, FromRam, FromStore
<1>2. Unbuilt' /\ OneBody' /\ Counted' /\ HeaderPart' /\ Watched'
  BY SizesAssumption
  DEF IInv, TypeOK, Unbuilt, OneBody, Counted, HeaderPart, Watched, FilePart,
      RamPart, response, stream, disk, SendRefused, Fill, Available,
      Buffered, AtSend, Sent, More, Finish, Least, InHeader, InBody,
      FromFile, FromRam, FromStore
<1>3. FilePart'
  BY SizesAssumption
  DEF IInv, TypeOK, OneBody, Counted, HeaderPart, FilePart, RamPart, response,
      stream, disk, SendRefused, Fill, Available, Buffered, AtSend,
      Sent, More, Finish, Least, InHeader, InBody, FromFile, FromRam,
      FromStore
<1>4. RamPart'
  BY SizesAssumption
  DEF IInv, TypeOK, OneBody, Counted, HeaderPart, FilePart, RamPart, response,
      stream, disk, StoreMode, SendRefused, Fill, Available, Buffered,
      AtSend, Sent, More, Finish, Least, InHeader, InBody, FromFile,
      FromRam, FromStore
<1>5. CurrentPrefix'
  BY SizesAssumption
  DEF IInv, TypeOK, OneBody, Counted, HeaderPart, FilePart, RamPart,
      CurrentPrefix, response, stream, disk, StoreMode, SendRefused,
      Fill, Available, Buffered, AtSend, Sent, More, Finish, Least,
      InHeader, InBody, FromFile, FromRam, FromStore
<1>6. EntireUnlessCut'
  BY SizesAssumption
  DEF IInv, TypeOK, Unbuilt, OneBody, Counted, HeaderPart, Watched, FilePart,
      RamPart, EntireUnlessCut, response, stream, disk, StoreMode,
      BodySize, SendRefused, Fill, Available, Buffered, AtSend, Sent,
      More, Finish, Least, InHeader, InBody, FromFile, FromRam,
      FromStore
<1>7. LengthKept'
  BY SizesAssumption
  DEF IInv, TypeOK, Unbuilt, OneBody, Counted, HeaderPart, Watched, FilePart,
      RamPart, LengthKept, response, stream, disk, StoreMode, BodySize,
      SendRefused, Fill, Available, Buffered, AtSend, Sent, More,
      Finish, Least, InHeader, InBody, FromFile, FromRam, FromStore
<1> QED BY <1>1, <1>2, <1>3, <1>4, <1>5, <1>6, <1>7 DEF IInv

(* The file changes.                                                            *)
LEMMA ResizeFileStep == ASSUME IInv, ResizeFile PROVE IInv'
<1>1. TypeOK'
  BY SizesAssumption
  DEF IInv, TypeOK, HeaderPart, response, stream, disk, ResizeFile
<1>2. Unbuilt' /\ OneBody' /\ Counted' /\ HeaderPart' /\ Watched'
  BY SizesAssumption
  DEF IInv, TypeOK, Unbuilt, OneBody, Counted, HeaderPart, Watched, FilePart,
      RamPart, response, stream, disk, ResizeFile
<1>3. FilePart'
  BY SizesAssumption
  DEF IInv, TypeOK, OneBody, Counted, HeaderPart, FilePart, RamPart, response,
      stream, disk, ResizeFile
<1>4. RamPart'
  BY SizesAssumption
  DEF IInv, TypeOK, OneBody, Counted, HeaderPart, FilePart, RamPart, response,
      stream, disk, StoreMode, ResizeFile
<1>5. CurrentPrefix'
  BY SizesAssumption
  DEF IInv, TypeOK, OneBody, Counted, HeaderPart, FilePart, RamPart,
      CurrentPrefix, response, stream, disk, StoreMode, ResizeFile
<1>6. EntireUnlessCut'
  BY SizesAssumption
  DEF IInv, TypeOK, Unbuilt, OneBody, Counted, HeaderPart, Watched, FilePart,
      RamPart, EntireUnlessCut, response, stream, disk, StoreMode,
      BodySize, ResizeFile
<1>7. LengthKept'
  BY SizesAssumption
  DEF IInv, TypeOK, Unbuilt, OneBody, Counted, HeaderPart, Watched, FilePart,
      RamPart, LengthKept, response, stream, disk, StoreMode, BodySize,
      ResizeFile
<1> QED BY <1>1, <1>2, <1>3, <1>4, <1>5, <1>6, <1>7 DEF IInv

(* Bytes of the served file are sent.                                           *)
LEMMA SendFileStep == ASSUME IInv, SendFile PROVE IInv'
<1>1. PICK n \in 1..(streamBufLen - streamBufSent) :
        /\ StreamSent(n)
        /\ IF FileEnd(totalBytesSent + n)
           THEN Finish /\ fileOpen' = FALSE
           ELSE More /\ UNCHANGED fileOpen
  BY DEF SendFile
<1>2. /\ n \in Nat /\ n > 0 /\ streamBufSent + n <= streamBufLen
      /\ fileOpen /\ state = "WRITING" /\ storeSize = 0
      /\ responseState = "SENDING_BODY_STATIC"
      /\ streamBuild = builds /\ streamBufLen <= WriteBufferSize
      /\ totalBytesSent = headerSize + streamFirst + streamBufSent
      /\ fileOffset = streamFirst + streamBufLen
      /\ \/ totalBytesSent < headerSize + fileSize
         \/ totalBytesSent = headerSize /\ fileSize = 0
  BY <1>1, SizesAssumption DEF IInv, TypeOK, HeaderPart, RamPart, FilePart, InBody, FromFile, FromStore, Buffered, OneBody, SendFile
<1>3. Sent(streamBuild, headerSize + streamFirst + streamBufSent, n)
  BY <1>1, <1>2 DEF SendFile, StreamSent
<1>4. /\ received' \in Seq(Nat \X Nat)
      /\ Len(received') = Len(received) + n
      /\ totalBytesSent' \in Nat
      /\ totalBytesSent' = Len(received')
      /\ totalBytesSent' = totalBytesSent + n
      /\ streamBuild = builds /\ headerSize + streamFirst + streamBufSent = totalBytesSent
         /\ received = Bytes(builds, 0, Len(received))
           => received' = Bytes(builds, 0, Len(received'))
  BY <1>2, <1>3, SentBytes DEF IInv, TypeOK
<1>5. /\ streamBufSent' = streamBufSent + n
      /\ streamBufLen' = IF streamBufSent + n = streamBufLen
                         THEN 0 ELSE streamBufLen
      /\ UNCHANGED <<streamFirst, streamBuild, response, fileOffset, disk,
                     refused>>
      /\ slice' = "idle"
  BY <1>1 DEF SendFile, StreamSent, Finish, More
<1>6. \/ /\ state' = "FINISHED" /\ fileOpen' = FALSE
         /\ totalBytesSent + n >= headerSize + fileSize
      \/ /\ state' = "WRITING" /\ fileOpen' = TRUE
         /\ totalBytesSent + n < headerSize + fileSize
  <2>1. /\ FileEnd(totalBytesSent + n)
             => state' = "FINISHED" /\ fileOpen' = FALSE
        /\ ~FileEnd(totalBytesSent + n)
             => UNCHANGED <<state, fileOpen>>
    BY <1>1 DEF Finish, More
  <2>2. FileEnd(totalBytesSent + n)
          <=> totalBytesSent + n >= headerSize + fileSize
    BY <1>2 DEF FileEnd, IInv, TypeOK
  <2>3. /\ state = "WRITING" /\ (fileOpen = TRUE)
        /\ totalBytesSent + n \in Int /\ headerSize + fileSize \in Int
    BY <1>2 DEF IInv, TypeOK
  <2>4. \/ totalBytesSent + n >= headerSize + fileSize
        \/ totalBytesSent + n < headerSize + fileSize
    BY <2>3
  <2>5. CASE totalBytesSent + n >= headerSize + fileSize
    BY <2>1, <2>2, <2>5
  <2>6. CASE totalBytesSent + n < headerSize + fileSize
    <3>1. ~(totalBytesSent + n >= headerSize + fileSize)
      BY <2>3, <2>6
    <3> QED BY <2>1, <2>2, <2>3, <2>6, <3>1
  <2> QED BY <2>4, <2>5, <2>6
<1>7. \/ /\ streamBufSent + n = streamBufLen /\ streamBufLen' = 0
      \/ /\ streamBufSent + n < streamBufLen /\ streamBufLen' = streamBufLen
  BY <1>2, <1>5 DEF IInv, TypeOK
<1>8. streamBufSent' \in Nat /\ streamBufLen' \in Nat
  BY <1>2, <1>5, <1>7 DEF IInv, TypeOK
<1>9. TypeOK'
  BY <1>2, <1>4, <1>5, <1>6, <1>7, <1>8, SizesAssumption DEF IInv, TypeOK, Watched, Counted, StoreMode, BodySize, response, stream, disk
<1>10. Unbuilt' /\ OneBody' /\ Counted' /\ HeaderPart'
  BY <1>2, <1>4, <1>5, <1>6, <1>7, <1>8, SizesAssumption DEF IInv, TypeOK, Unbuilt, OneBody, Counted, HeaderPart, Watched, StoreMode, BodySize, response, stream, disk
<1>11. Watched'
  BY <1>2, <1>4, <1>5, <1>6, <1>7, <1>8, SizesAssumption DEF IInv, TypeOK, Watched, Counted, StoreMode, BodySize, response, stream, disk
<1>12. FilePart'
  <2>1. /\ streamBufSent + n = streamBufLen
             => totalBytesSent + n = headerSize + fileOffset
        /\ totalBytesSent + n = headerSize + streamFirst + (streamBufSent + n)
    BY <1>2 DEF IInv, TypeOK
  <2>2. streamBufLen' > 0 => streamBufSent' < streamBufLen'
    BY <1>2, <1>5, <1>7 DEF IInv, TypeOK
  <2>3. CASE state' = "FINISHED"
    BY <2>3 DEF FilePart
  <2>4. /\ headerSize' = headerSize /\ fileSize' = fileSize
        /\ builds' = builds /\ fileOffset' = fileOffset
        /\ streamFirst' = streamFirst /\ streamBuild' = streamBuild
        /\ slice' = "idle"
    BY <1>5 DEF response
  <2>5. state' = "WRITING" => totalBytesSent' < headerSize' + fileSize'
    BY <1>4, <1>6, <2>4
  <2>6. CASE streamBufLen' = 0 /\ state' = "WRITING"
    <3>1. streamBufSent + n = streamBufLen
      BY <1>2, <1>7, <2>6 DEF IInv, TypeOK
    <3>2. totalBytesSent' = headerSize' + fileOffset'
      BY <1>4, <2>1, <2>4, <3>1
    <3> QED BY <2>6, <2>4, <2>5, <3>2 DEF FilePart
  <2>7. CASE streamBufLen' > 0 /\ state' = "WRITING"
    <3>1. streamBufSent + n < streamBufLen /\ streamBufLen' = streamBufLen
      BY <1>2, <1>7, <2>7 DEF IInv, TypeOK
    <3>2. totalBytesSent' = headerSize' + streamFirst' + streamBufSent'
      BY <1>4, <1>5, <2>1, <2>4
    <3>3. streamBuild' = builds' /\ streamBufLen' <= WriteBufferSize
      BY <1>2, <2>4, <3>1
    <3>4. fileOffset' = streamFirst' + streamBufLen'
      BY <1>2, <2>4, <3>1
    <3>5. streamBufLen' # 0
      BY <2>7
    <3> QED BY <2>2, <2>7, <2>5, <3>2, <3>3, <3>4, <3>5 DEF FilePart
  <2> QED BY <2>3, <2>6, <2>7, <1>6, <1>7, <1>8 DEF IInv, TypeOK
<1>13. RamPart'
  BY <1>2, <1>4, <1>5, <1>6, <1>7, <1>8, SizesAssumption DEF IInv, TypeOK, RamPart, Watched, Counted, StoreMode, BodySize, response, stream, disk
<1>14. CurrentPrefix'
  BY <1>2, <1>4, <1>5, <1>6, <1>7, <1>8, SizesAssumption DEF IInv, TypeOK, CurrentPrefix, Watched, Counted, StoreMode, BodySize, response, stream, disk
<1>15. EntireUnlessCut'
  BY <1>2, <1>4, <1>5, <1>6, <1>7, <1>8, SizesAssumption DEF IInv, TypeOK, EntireUnlessCut, Watched, Counted, StoreMode, BodySize, response, stream, disk
<1>16. LengthKept'
  BY <1>2, <1>4, <1>5, <1>6, <1>7, <1>8, SizesAssumption, SMTT(30) DEF IInv, TypeOK, LengthKept, Watched, Counted, StoreMode, BodySize, response, stream, disk
<1> QED BY <1>9, <1>10, <1>11, <1>12, <1>13, <1>14, <1>15, <1>16 DEF IInv

(* Bytes of the temporary file are sent.                                        *)
LEMMA SendStoreStep == ASSUME IInv, SendStore PROVE IInv'
<1>1. PICK n \in 1..(streamBufLen - streamBufSent) :
        /\ StreamSent(n)
        /\ IF totalBytesSent + n = headerSize + storeSize
           THEN Finish ELSE More
  BY DEF SendStore
<1>2. n \in Nat /\ n > 0
  BY <1>1, SizesAssumption DEF IInv, TypeOK, HeaderPart, RamPart, FilePart, InBody, FromFile, FromStore, Buffered, SendStore
<1>3. Sent(streamBuild, headerSize + streamFirst + streamBufSent, n)
  BY <1>1, <1>2 DEF SendStore, StreamSent
<1>4. /\ received' \in Seq(Nat \X Nat)
      /\ Len(received') = Len(received) + n
      /\ totalBytesSent' \in Nat
      /\ totalBytesSent' = Len(received')
      /\ totalBytesSent' = totalBytesSent + n
      /\ streamBuild = builds /\ headerSize + streamFirst + streamBufSent = totalBytesSent
         /\ received = Bytes(builds, 0, Len(received))
           => received' = Bytes(builds, 0, Len(received'))
  BY <1>2, <1>3, SentBytes DEF IInv, TypeOK
<1>5. TypeOK'
  BY <1>1, <1>2, <1>4, SizesAssumption, SMTT(30)
  DEF IInv, TypeOK, HeaderPart, response, stream, disk, SendStore, StreamSent,
      Buffered, Sent, More, Finish, Least, InHeader, InBody, FromFile,
      FromRam, FromStore
<1>6. Unbuilt' /\ OneBody' /\ Counted' /\ HeaderPart' /\ Watched'
  <2>1. /\ state = "WRITING" /\ ~fileOpen /\ state' \in {"WRITING", "FINISHED"}
        /\ slice = "send" \/ FromFile \/ FromStore
        /\ UNCHANGED <<response, fileOpen>>
    BY <1>1 DEF SendStore, Buffered, More, Finish
  <2>2. responseState' # "SENDING_RES_HEAD"
    <3>1. responseState # "SENDING_RES_HEAD"
      BY <2>1 DEF IInv, HeaderPart, FromFile, FromStore, InBody
    <3> QED BY <2>1, <3>1 DEF response
  <2>3. Unbuilt'
    BY <2>1 DEF Unbuilt
  <2>4. OneBody'
    BY <2>1 DEF IInv, OneBody, response
  <2>5. Counted'
    BY <1>4 DEF Counted
  <2>6. HeaderPart'
    BY <2>2 DEF HeaderPart
  <2>7. Watched'
    BY <2>1 DEF Watched
  <2> QED BY <2>3, <2>4, <2>5, <2>6, <2>7
<1>7. FilePart'
  BY <1>1, <1>2, <1>4, SizesAssumption
  DEF IInv, TypeOK, OneBody, Counted, HeaderPart, FilePart, RamPart, response,
      stream, disk, SendStore, StreamSent, Buffered, Sent, More, Finish,
      Least, InHeader, InBody, FromFile, FromRam, FromStore
<1>8. RamPart'
  BY <1>1, <1>2, <1>4, SizesAssumption
  DEF IInv, TypeOK, OneBody, Counted, HeaderPart, FilePart, RamPart, response,
      stream, disk, StoreMode, SendStore, StreamSent, Buffered, Sent,
      More, Finish, Least, InHeader, InBody, FromFile, FromRam,
      FromStore
<1>9. CurrentPrefix'
  BY <1>1, <1>2, <1>4, SizesAssumption
  DEF IInv, TypeOK, OneBody, Counted, HeaderPart, FilePart, RamPart,
      CurrentPrefix, response, stream, disk, StoreMode, SendStore,
      StreamSent, Buffered, Sent, More, Finish, Least, InHeader, InBody,
      FromFile, FromRam, FromStore
<1>10. EntireUnlessCut'
  BY <1>1, <1>2, <1>4, SizesAssumption
  DEF IInv, TypeOK, Unbuilt, OneBody, Counted, HeaderPart, Watched, FilePart,
      RamPart, EntireUnlessCut, response, stream, disk, StoreMode,
      BodySize, SendStore, StreamSent, Buffered, Sent, More, Finish,
      Least, InHeader, InBody, FromFile, FromRam, FromStore
<1>11. LengthKept'
  BY <1>1, <1>2, <1>4, SizesAssumption
  DEF IInv, TypeOK, Unbuilt, OneBody, Counted, HeaderPart, Watched, FilePart,
      RamPart, LengthKept, response, stream, disk, StoreMode, BodySize,
      SendStore, StreamSent, Buffered, Sent, More, Finish, Least,
      InHeader, InBody, FromFile, FromRam, FromStore
<1> QED BY <1>5, <1>6, <1>7, <1>8, <1>9, <1>10, <1>11 DEF IInv

-----------------------------------------------------------------------------
(* At every moment of every behaviour the client holds the beginning of the     *)
(* page under way, whole when sendSlice said so, and not too long.              *)
THEOREM Invariance == Spec => []IInv
<1>1. Init => IInv
  <2> SUFFICES ASSUME Init PROVE IInv
    OBVIOUS
  <2>1. /\ received = <<>> /\ received \in Seq(Nat \X Nat)
        /\ Len(received) = 0
    BY DEF Init
  <2>2. received = Bytes(builds, 0, Len(received))
    BY <2>1 DEF Init, Bytes
  <2>3. TypeOK /\ Counted
    <3>1. fileLength \in Nat
      BY SizesAssumption DEF Init
    <3>2. TypeOK
      BY <2>1, <3>1 DEF Init, TypeOK
    <3>3. Counted
      BY <2>1 DEF Init, Counted
    <3> QED BY <3>2, <3>3
  <2>4. Unbuilt /\ OneBody /\ HeaderPart /\ Watched /\ FilePart /\ RamPart
    BY <2>1 DEF Init, Unbuilt, OneBody, HeaderPart, Watched, FilePart, RamPart
  <2>5. CurrentPrefix /\ EntireUnlessCut /\ LengthKept
    BY <2>1, <2>2
    DEF Init, CurrentPrefix, EntireUnlessCut, LengthKept, BodySize
  <2> QED BY <2>3, <2>4, <2>5 DEF IInv
<1>2. IInv /\ [Next]_vars => IInv'
  <2> SUFFICES ASSUME IInv, [Next]_vars PROVE IInv'
    OBVIOUS
  <2>1. CASE FinalizeSuccess
    BY <2>1, FinalizeSuccessStep
  <2>2. CASE ServeFile
    BY <2>2, ServeFileStep
  <2>3. CASE TriggerError
    BY <2>3, ErrorPageStep DEF TriggerError
  <2>4. CASE Progress
    BY <2>4, SendHeaderPartStep, SendHeaderEndStep, SendRamStep, ReadFileStep,
       SendFileStep, ReadStoreStep, SendStoreStep DEF Progress
  <2>5. CASE Failure
    BY <2>5, ReadFileFailsStep, SendRefusedStep, ErrorPageStep
    DEF Failure, SendBroken
  <2>6. CASE ResizeFile
    BY <2>6, ResizeFileStep
  <2>7. CASE UNCHANGED vars
    BY <2>7
    DEF vars, response, stream, disk, IInv, TypeOK, Unbuilt, OneBody, Counted,
        HeaderPart, Watched, FilePart, RamPart, CurrentPrefix, EntireUnlessCut,
        LengthKept, StoreMode, BodySize
  <2> QED BY <2>1, <2>2, <2>3, <2>4, <2>5, <2>6, <2>7 DEF Next
<1> QED BY <1>1, <1>2, PTL DEF Spec

(* The types of all variables.                                                  *)
THEOREM TypeCorrect == Spec => []TypeOK
BY Invariance, PTL DEF IInv

(* Nothing twice, nothing left out, nothing of an earlier page (sendSlice,      *)
(* buildErrorPage).                                                             *)
THEOREM CurrentPrefixHolds == Spec => []CurrentPrefix
BY Invariance, PTL DEF IInv

(* true from sendSlice means the whole page, unless a system call failed or the *)
(* file was truncated.                                                          *)
THEOREM EntireUnlessCutHolds == Spec => []EntireUnlessCut
BY Invariance, PTL DEF IInv

(* Never more than Content-Length, but for a file that grew (_sendBodyFile).    *)
THEOREM LengthKeptHolds == Spec => []LengthKept
BY Invariance, PTL DEF IInv

-----------------------------------------------------------------------------
(* What is left to be done of a page: its bytes, each counted twice, and once   *)
(* to fill the buffer that is empty.                                            *)
Left == 2 * (headerSize + BodySize - totalBytesSent)
          + (IF streamBufLen = 0 THEN 1 ELSE 0)

(* While a page goes out nothing makes what is left of it more, and every step  *)
(* of sendSlice that is not the last makes it less.                             *)
Advances ==
    StoreMode = "RAM" /\ state' = "WRITING" /\ builds' = builds =>
        /\ Left \in Nat /\ Left' <= Left
        /\ Progress => Left' < Left

(* What is left is a number.                                                    *)
LEMMA LeftType ==
    ASSUME IInv, state = "WRITING", StoreMode = "RAM"
    PROVE  Left \in Nat
<1>1. TypeOK /\ OneBody /\ HeaderPart /\ FilePart /\ RamPart
  BY DEF IInv
<1>2. totalBytesSent <= headerSize + BodySize
  <2>1. CASE responseState = "SENDING_RES_HEAD"
    BY <1>1, <2>1 DEF HeaderPart, TypeOK, BodySize
  <2>2. CASE responseState = "SENDING_BODY_STATIC" /\ fileOpen
    BY <1>1, <2>2 DEF FilePart, TypeOK, BodySize
  <2>3. CASE responseState = "SENDING_BODY_STATIC" /\ ~fileOpen
    BY <1>1, <2>3 DEF RamPart, TypeOK, BodySize
  <2> QED BY <1>1, <2>1, <2>2, <2>3 DEF TypeOK
<1> QED BY <1>1, <1>2 DEF Left, TypeOK, BodySize

(* A step that sends, whatever it leaves in the buffer.                         *)
LEMMA SentLess ==
    ASSUME IInv, Left \in Nat, UNCHANGED response,
           NEW n \in Nat \ {0}, totalBytesSent' = totalBytesSent + n,
           streamBufLen' \in Nat
    PROVE  Left' < Left
<1>1. TypeOK
  BY DEF IInv
<1> QED BY <1>1 DEF Left, TypeOK, BodySize, response

LEMMA ProgressAdvances ==
    ASSUME IInv, IInv', Progress, StoreMode = "RAM", state' = "WRITING"
    PROVE  Left' < Left
<1>1. TypeOK /\ TypeOK' /\ WriteBufferSize \in Nat \ {0}
  BY SizesAssumption DEF IInv
<1>2. state = "WRITING"
  BY DEF Progress, SendHeaderPart, SendHeaderEnd, SendRam, ReadFile, SendFile,
         ReadStore, SendStore, InHeader, FromRam, FromFile, FromStore, InBody,
         Buffered
<1>3. Left \in Nat
  BY <1>2, LeftType
<1>4. streamBufLen' \in Nat
  BY <1>1 DEF TypeOK
<1>5. CASE SendHeaderPart
  <2>1. PICK n \in 1..Least(headerSize - totalBytesSent, WriteBufferSize) :
          Sent(builds, totalBytesSent, n)
    BY <1>5 DEF SendHeaderPart
  <2>2. n \in Nat \ {0}
    BY <1>1 DEF TypeOK, Least
  <2> QED BY <1>3, <1>4, <1>5, <2>1, <2>2, SentLess DEF SendHeaderPart, Sent
<1>6. CASE SendHeaderEnd
  <2> DEFINE n == headerSize - totalBytesSent
  <2>1. n \in Nat \ {0}
    BY <1>1, <1>2, <1>6 DEF SendHeaderEnd, InHeader, IInv, HeaderPart, TypeOK
  <2>2. /\ totalBytesSent' = totalBytesSent + n
        /\ UNCHANGED <<headerSize, storeSize, fileSize, streamBufLen>>
    BY <1>6 DEF SendHeaderEnd, Sent, stream
  <2> QED BY <1>1, <1>3, <2>1, <2>2 DEF Left, TypeOK, BodySize
<1>7. CASE SendRam
  <2> DEFINE offset == totalBytesSent - headerSize
  <2>1. PICK n \in 1..Least(storeSize - offset, WriteBufferSize) :
          Sent(builds, headerSize + offset, n)
    BY <1>7 DEF SendRam
  <2>2. n \in Nat \ {0}
    BY <1>1 DEF TypeOK, Least
  <2> QED BY <1>3, <1>4, <1>7, <2>1, <2>2, SentLess DEF SendRam, Sent
<1>8. CASE ReadFile
  <2>1. Available > 0 /\ streamBufLen' = Available
    BY <1>8 DEF ReadFile, Finish, Fill
  <2>2. /\ streamBufLen = 0
        /\ UNCHANGED <<headerSize, storeSize, fileSize, totalBytesSent>>
    BY <1>8 DEF ReadFile, response
  <2>3. streamBufLen' # 0
    BY <1>1, <2>1 DEF TypeOK
  <2> QED BY <1>1, <1>3, <2>2, <2>3 DEF Left, TypeOK, BodySize
<1>9. CASE SendFile
  <2>1. PICK n \in 1..(streamBufLen - streamBufSent) : StreamSent(n)
    BY <1>9 DEF SendFile
  <2>2. n \in Nat \ {0}
    BY <1>1 DEF TypeOK
  <2> QED BY <1>3, <1>4, <1>9, <2>1, <2>2, SentLess
          DEF SendFile, StreamSent, Sent
<1>10. CASE ReadStore \/ SendStore
  <2>1. ~fileOpen /\ (FromStore \/ Buffered)
    BY <1>10 DEF ReadStore, SendStore, FromStore
  <2>2. StoreMode # "FILE_MODE" /\ ~FromStore
    BY DEF FromStore, StoreMode
  <2>3. slice = "send" \/ streamBufLen > 0
    BY <2>1, <2>2 DEF Buffered, FromFile
  <2>4. streamBufLen = 0 /\ slice # "send"
    <3>1. CASE responseState = "SENDING_RES_HEAD"
      BY <1>2, <3>1 DEF IInv, HeaderPart
    <3>2. CASE responseState = "SENDING_BODY_STATIC"
      BY <1>2, <2>1, <3>2 DEF IInv, RamPart
    <3> QED BY <1>1, <3>1, <3>2 DEF TypeOK
  <2> QED BY <2>3, <2>4
<1> QED
  BY <1>5, <1>6, <1>7, <1>8, <1>9, <1>10 DEF Progress

LEMMA AdvancesStep ==
    ASSUME IInv, IInv', [Next]_vars
    PROVE  Advances
<1> SUFFICES ASSUME StoreMode = "RAM", state' = "WRITING", builds' = builds
             PROVE  /\ Left \in Nat /\ Left' <= Left
                    /\ Progress => Left' < Left
  BY DEF Advances
<1>1. TypeOK /\ TypeOK'
  BY DEF IInv
<1>2. ~FinalizeSuccess /\ ~ServeFile /\ ~TriggerError /\ ~SendBroken
  BY <1>1 DEF TypeOK, FinalizeSuccess, ServeFile, TriggerError, SendBroken,
              BuildErrorPage, StartHeader
<1>3. ~ReadFileFails /\ ~SendRefused
  BY DEF ReadFileFails, SendRefused, Finish
<1>4. Progress \/ UNCHANGED <<state, response, stream, totalBytesSent>>
  BY <1>2, <1>3 DEF Next, Failure, ResizeFile, vars
<1>5. CASE Progress
  <2>1. state = "WRITING"
    BY <1>5 DEF Progress, SendHeaderPart, SendHeaderEnd, SendRam, ReadFile,
                SendFile, ReadStore, SendStore, InHeader, FromRam, FromFile,
                FromStore, InBody, Buffered
  <2>2. Left \in Nat /\ Left' < Left
    BY <1>5, <2>1, LeftType, ProgressAdvances
  <2>3. Left' \in Int
    <3>1. /\ headerSize' \in Nat /\ totalBytesSent' \in Nat
          /\ fileSize' \in Nat /\ storeSize' \in Nat
      BY <1>1 DEF TypeOK
    <3>2. BodySize' \in Nat
      BY <3>1, Sums DEF BodySize
    <3> QED BY <3>1, <3>2 DEF Left
  <2> QED BY <2>2, <2>3
<1>6. CASE ~Progress
  <2>1. UNCHANGED <<state, response, stream, totalBytesSent>>
    BY <1>4, <1>6
  <2>2. Left' = Left /\ state = "WRITING"
    BY <2>1 DEF Left, BodySize, response, stream
  <2>3. Left \in Nat
    BY <2>2, LeftType
  <2> QED BY <1>6, <2>2, <2>3
<1> QED BY <1>5, <1>6

(* However send() cuts a page and the file changes under it, it goes out in     *)
(* finitely many steps, a number known when it is built: the part of Finishes   *)
(* that needs no fairness (sendSlice).                                          *)
THEOREM EverySendAdvances == Spec => [][Advances]_vars
<1>1. IInv /\ IInv' /\ [Next]_vars => Advances
  BY AdvancesStep
<1> QED BY <1>1, Invariance, PTL DEF Spec
=============================================================================
