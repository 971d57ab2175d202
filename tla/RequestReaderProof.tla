------------------------- MODULE RequestReaderProof -------------------------
(* What RequestReader promises, proved for every request, every way recv()     *)
(* cuts it, and any limits, slices and width of a size_t.                      *)
EXTENDS RequestReader, SequenceTheorems, WellFoundedInduction, TLAPS

(* What has arrived is part of the request.                                    *)
Within ==
    /\ received <= request.headerSize + Len(request.payload)
    /\ reqState = "REQ_HEADERS" => state \in {"READING", "WRITING", "FINISHED"}
    /\ state = "READING" /\ reqState = "REQ_HEADERS" =>
         received < request.headerSize /\ body = <<>>
    /\ state \in {"PROCESSING", "BUILDING"} =>
         reqState \in {"REQ_BODY", "REQ_CHUNKED", "REQ_DONE"}
    /\ state = "READING" =>
         reqState \in {"REQ_HEADERS", "REQ_BODY", "REQ_CHUNKED"}
    /\ reqState = "REQ_CHUNKED" => request.coding = "chunked"
    /\ state = "READING" /\ reqState = "REQ_BODY" => Len(body) < request.length

(* A body is read only for a header that was accepted.                         *)
HeaderTaken ==
    state = "READING" /\ reqState \in {"REQ_BODY", "REQ_CHUNKED"} =>
        /\ request.headerSize <= MaxHeaderSize
        /\ reqState = "REQ_BODY" => ~TooLong(request.length)

(* The decoder starts empty and works on a chunked body only.                  *)
DecoderIdle ==
    /\ decoding => state = "PROCESSING" /\ reqState = "REQ_CHUNKED"
    /\ state = "READING" \/ reqState = "REQ_BODY" =>
         readOffset = 0 /\ chunkBuffer = <<>> /\ decodedBody = <<>>
    /\ state \in {"READING", "PROCESSING"} => ~TooLong(Len(decodedBody))

(* Between two chunks of a well-formed body: the buffer begins with chunk k    *)
(* and the data of those before it is decoded, no longer than they were.       *)
AtChunk(k) ==
    /\ k \in 1..Len(request.chunks)
    /\ request.chunks[k].at <= readOffset
    /\ request.chunks[k].from <= request.chunks[k].at
    /\ chunkBuffer =
         SubSeq(request.payload, request.chunks[k].at + 1, readOffset)
    /\ decodedBody = SubSeq(request.data, 1, request.chunks[k].from)

BetweenChunks ==
    request.framed /\ state \in {"READING", "PROCESSING"} =>
        \E k \in Nat : AtChunk(k)

(* recv() stopped inside the terminator.                                       *)
CutKnown ==
    request.framed /\ state = "READING"
      /\ Arrived(received) \in (request.whole - 4)..(request.whole - 1)
        => cut

IInv ==
    /\ TypeOK /\ Within /\ HeaderTaken /\ DecoderIdle /\ BetweenChunks /\ CutKnown
    /\ BodyIsPayload /\ LengthReached /\ LimitsKept
    /\ Decoded /\ StatusTrue /\ EndSeen
-----------------------------------------------------------------------------
(* Parts of sequences.                                                         *)

(* The bytes a to b of a sequence: erase(), substr() and a slice give these.   *)
LEMMA Part ==
    ASSUME NEW S, NEW s \in Seq(S), NEW a \in Nat, NEW b \in Nat, b <= Len(s)
    PROVE  /\ SubSeq(s, a + 1, b) \in Seq(S)
           /\ Len(SubSeq(s, a + 1, b)) = IF a <= b THEN b - a ELSE 0
           /\ \A i \in 1..(b - a) : SubSeq(s, a + 1, b)[i] = s[a + i]
<1>1. \A i \in (a + 1)..b : s[i] \in S
    BY ElementOfSeq
<1>2. /\ SubSeq(s, a + 1, b) \in Seq(S)
      /\ Len(SubSeq(s, a + 1, b)) = IF a + 1 <= b THEN b - (a + 1) + 1 ELSE 0
      /\ \A i \in 1..(b - (a + 1) + 1) :
            SubSeq(s, a + 1, b)[i] = s[(a + 1) + i - 1]
    BY <1>1, SubSeqProperties
<1> QED
    BY <1>2

(* Two neighbouring parts make one.                                            *)
LEMMA Join ==
    ASSUME NEW S, NEW s \in Seq(S), NEW a \in Nat, NEW b \in Nat, NEW c \in Nat,
           a <= b, b <= c, c <= Len(s)
    PROVE  SubSeq(s, a + 1, b) \o SubSeq(s, b + 1, c) = SubSeq(s, a + 1, c)
<1> DEFINE left == SubSeq(s, a + 1, b)
           right == SubSeq(s, b + 1, c)
           both == SubSeq(s, a + 1, c)
<1>1. /\ left \in Seq(S) /\ Len(left) = b - a
      /\ \A i \in 1..(b - a) : left[i] = s[a + i]
    BY Part
<1>2. /\ right \in Seq(S) /\ Len(right) = c - b
      /\ \A i \in 1..(c - b) : right[i] = s[b + i]
    BY Part
<1>3. /\ both \in Seq(S) /\ Len(both) = c - a
      /\ \A i \in 1..(c - a) : both[i] = s[a + i]
    BY Part
<1> HIDE DEF left, right, both
<1>4. /\ left \o right \in Seq(S)
      /\ Len(left \o right) = Len(left) + Len(right)
      /\ \A i \in 1..(Len(left) + Len(right)) :
            (left \o right)[i] =
               IF i <= Len(left) THEN left[i] ELSE right[i - Len(left)]
    BY <1>1, <1>2, ConcatProperties
<1>5. ASSUME NEW i \in 1..Len(both)
      PROVE  (left \o right)[i] = both[i]
    <2>1. CASE i <= b - a
        <3>1. (left \o right)[i] = left[i]
            BY <2>1, <1>1, <1>2, <1>3, <1>4
        <3>2. left[i] = s[a + i]
            BY <2>1, <1>1, <1>3
        <3> QED
            BY <3>1, <3>2, <1>3
    <2>2. CASE i > b - a
        <3>1. (left \o right)[i] = right[i - (b - a)]
            BY <2>2, <1>1, <1>2, <1>3, <1>4
        <3>2. right[i - (b - a)] = s[b + (i - (b - a))]
            BY <2>2, <1>2, <1>3
        <3>3. b + (i - (b - a)) = a + i
            OBVIOUS
        <3> QED
            BY <3>1, <3>2, <3>3, <1>3
    <2>3. i <= b - a \/ i > b - a
        OBVIOUS
    <2> QED
        BY <2>1, <2>2, <2>3, Zenon
<1>6. Len(left \o right) = Len(both)
    BY <1>1, <1>2, <1>3, <1>4
<1>7. left \o right = both
    BY <1>3, <1>4, <1>5, <1>6, SeqEqual
<1> QED
    BY <1>7 DEF left, right, both

(* A part of a part.                                                           *)
LEMMA PartOfPart ==
    ASSUME NEW S, NEW s \in Seq(S), NEW a \in Nat, NEW b \in Nat, b <= Len(s),
           NEW i \in Nat, NEW j \in Nat, i <= j, a + j <= b
    PROVE  SubSeq(SubSeq(s, a + 1, b), i + 1, j) = SubSeq(s, (a + i) + 1, a + j)
<1> DEFINE outer == SubSeq(s, a + 1, b)
           inner == SubSeq(outer, i + 1, j)
           direct == SubSeq(s, (a + i) + 1, a + j)
<1>1. /\ outer \in Seq(S) /\ Len(outer) = b - a
      /\ \A n \in 1..(b - a) : outer[n] = s[a + n]
    BY Part
<1>2. /\ direct \in Seq(S) /\ Len(direct) = (a + j) - (a + i)
      /\ \A n \in 1..((a + j) - (a + i)) : direct[n] = s[(a + i) + n]
    <2>1. a + i \in Nat /\ a + j \in Nat /\ a + j <= Len(s) /\ a + i <= a + j
        OBVIOUS
    <2> QED
        BY <2>1, Part
<1> HIDE DEF outer, direct
<1>3. /\ inner \in Seq(S) /\ Len(inner) = j - i
      /\ \A n \in 1..(j - i) : inner[n] = outer[i + n]
    <2>1. outer \in Seq(S) /\ j <= Len(outer)
        BY <1>1
    <2>2. /\ SubSeq(outer, i + 1, j) \in Seq(S)
          /\ Len(SubSeq(outer, i + 1, j)) = IF i <= j THEN j - i ELSE 0
          /\ \A n \in 1..(j - i) : SubSeq(outer, i + 1, j)[n] = outer[i + n]
        BY <2>1, Part, SMTT(30)
    <2> QED
        BY <2>2
<1> HIDE DEF inner
<1>4. ASSUME NEW n \in 1..Len(inner)
      PROVE  inner[n] = direct[n]
    <2>1. inner[n] = outer[i + n] /\ i + n \in 1..(b - a)
        BY <1>3
    <2>2. outer[i + n] = s[a + (i + n)]
        BY <2>1, <1>1
    <2>3. direct[n] = s[(a + i) + n]
        BY <1>2, <1>3
    <2>4. a + (i + n) = (a + i) + n
        BY <1>3
    <2> QED
        BY <2>1, <2>2, <2>3, <2>4
<1>5. Len(inner) = Len(direct)
    BY <1>2, <1>3
<1>6. inner = direct
    BY <1>2, <1>3, <1>4, <1>5, SeqEqual
<1> QED
    BY <1>6 DEF inner, direct, outer

(* Every set of numbers has a least one.                                       *)
LEMMA LeastNumber ==
    ASSUME NEW T, T \subseteq Nat, T # {}
    PROVE  \E n \in T : \A m \in T : n <= m
<1>1. PICK n \in T : \A m \in T : ~(<<m, n>> \in OpToRel(<, Nat))
    BY NatLessThanWellFounded, WFMin, Zenon
<1>2. ASSUME NEW m \in T PROVE n <= m
    <2>1. m \in Nat /\ n \in Nat
        OBVIOUS
    <2>2. ~(m < n)
        BY <1>1, <2>1, Zenon DEF OpToRel
    <2> QED
        BY <2>1, <2>2
<1> QED
    BY <1>2

-----------------------------------------------------------------------------
(* What a request is, and what recv() brings of it.                            *)

(* The assumptions on requests and limits, for the request of this connection. *)
LEMMA RequestFacts ==
    ASSUME TypeOK
    PROVE  /\ request.headerSize \in Nat \ {0}
           /\ request.coding \in {"none", "length", "chunked", "bad"}
           /\ request.length \in Nat
           /\ request.payload \in Seq(Byte) /\ Len(request.payload) \in Nat
           /\ request.data \in Seq(Byte) /\ Len(request.data) \in Nat
           /\ request.whole \in Nat
           /\ request.framed \in BOOLEAN
           /\ request.framed =>
                /\ request.coding = "chunked"
                /\ request.whole <= Len(request.payload) /\ 5 <= request.whole
                /\ SubSeq(request.payload, request.whole - 4, request.whole)
                     = Terminator
           /\ maxBodySize \in Nat
           /\ MaxHeaderSize \in Nat \ {0}
           /\ received \in Nat
BY RequestsAssumption, LimitsAssumption, LenProperties DEF TypeOK

(* A well-formed body, as Framed says it, of this request.                     *)
LEMMA FramedFacts ==
    ASSUME TypeOK, request.framed
    PROVE  Framed(request)
BY RequestsAssumption DEF TypeOK

(* What arrived of the payload before and after a recv().                      *)
LEMMA ArrivedFacts ==
    ASSUME TypeOK, Within, NEW n \in Nat,
           n <= request.headerSize + Len(request.payload) - received
    PROVE  /\ Arrived(received) \in Nat /\ Arrived(received + n) \in Nat
           /\ Arrived(received) <= Arrived(received + n)
           /\ Arrived(received + n) <= Arrived(received) + n
           /\ Arrived(received + n) <= Len(request.payload)
           /\ Arrived(received) <= Len(request.payload)
<1> DEFINE h == request.headerSize
           l == Len(request.payload)
<1>1. h \in Nat /\ l \in Nat /\ received \in Nat /\ received <= h + l
    BY RequestFacts DEF Within
<1>2. n <= h + l - received
    OBVIOUS
<1>3. \A m : Arrived(m) = IF m > h THEN m - h ELSE 0
    BY DEF Arrived
<1> HIDE DEF h
<1> QED
    BY <1>1, <1>2, <1>3

(* The bytes of a recv() lie between what had arrived and what has now.        *)
LEMMA PieceFacts ==
    ASSUME TypeOK, Within, NEW n \in Nat,
           n <= request.headerSize + Len(request.payload) - received
    PROVE  /\ Piece(n) \in Seq(Byte)
           /\ Len(Piece(n)) = Arrived(received + n) - Arrived(received)
           /\ \A i \in 1..(Arrived(received + n) - Arrived(received)) :
                 Piece(n)[i] = request.payload[Arrived(received) + i]
           /\ SubSeq(request.payload, 1, Arrived(received)) \o Piece(n)
                 = SubSeq(request.payload, 1, Arrived(received + n))
<1> DEFINE a == Arrived(received)
           b == Arrived(received + n)
<1>1. /\ a \in Nat /\ b \in Nat /\ a <= b /\ b <= Len(request.payload)
      /\ request.payload \in Seq(Byte)
    BY ArrivedFacts, RequestFacts
<1>2. Piece(n) = SubSeq(request.payload, a + 1, b)
    BY DEF Piece
<1> HIDE DEF a, b
<1>3. /\ Piece(n) \in Seq(Byte) /\ Len(Piece(n)) = b - a
      /\ \A i \in 1..(b - a) : Piece(n)[i] = request.payload[a + i]
    BY <1>1, <1>2, Part
<1>4. SubSeq(request.payload, 0 + 1, a) \o SubSeq(request.payload, a + 1, b)
        = SubSeq(request.payload, 0 + 1, b)
    BY <1>1, Join
<1>5. SubSeq(request.payload, 1, a) \o Piece(n) = SubSeq(request.payload, 1, b)
    <2>1. 0 + 1 = 1
        OBVIOUS
    <2> QED
        BY <1>2, <1>4, <2>1, Zenon
<1> QED
    BY <1>3, <1>5, Zenon DEF a, b

(* Where the terminator is in the bytes of a recv().                           *)
LEMMA TerminatorPlace ==
    ASSUME NEW a \in Nat, NEW b \in Nat, NEW w \in Nat, a <= w - 5, w <= b
    PROVE  \E i \in Nat :
              /\ (a + i) + 1 = w - 4 /\ a + (i + 5) = w
              /\ i + 1 \in 1..(b - a) /\ i + 5 <= b - a /\ a + (i + 5) <= b
<1>1. (w - 5) - a \in Nat
    OBVIOUS
<1> QED
    BY <1>1

(* A recv() that brings the whole terminator shows it to isChunkedDone().      *)
LEMMA TerminatorSeen ==
    ASSUME TypeOK, Within, request.framed, NEW n \in Nat,
           n <= request.headerSize + Len(request.payload) - received,
           Arrived(received) <= request.whole - 5,
           request.whole <= Arrived(received + n)
    PROVE  IsChunkedDone(Piece(n))
<1> DEFINE a == Arrived(received)
           b == Arrived(received + n)
           w == request.whole
<1>1. /\ a \in Nat /\ b \in Nat /\ b <= Len(request.payload)
      /\ w \in Nat /\ request.payload \in Seq(Byte)
      /\ a <= w - 5 /\ w <= b
      /\ SubSeq(request.payload, w - 4, w) = Terminator
    BY ArrivedFacts, RequestFacts
<1>2. /\ Piece(n) = SubSeq(request.payload, a + 1, b)
      /\ Len(Piece(n)) = b - a
    BY PieceFacts DEF Piece
<1> HIDE DEF a, b, w
<1>3. PICK i \in Nat :
          /\ (a + i) + 1 = w - 4 /\ a + (i + 5) = w
          /\ i + 1 \in 1..(b - a) /\ i + 5 <= b - a /\ a + (i + 5) <= b
    BY <1>1, TerminatorPlace
<1>4. SubSeq(SubSeq(request.payload, a + 1, b), i + 1, i + 5)
        = SubSeq(request.payload, (a + i) + 1, a + (i + 5))
    <2>1. i + 5 \in Nat /\ i <= i + 5
        OBVIOUS
    <2> QED
        BY <1>1, <1>3, <2>1, PartOfPart
<1>5. SubSeq(Piece(n), i + 1, (i + 1) + 4) = Terminator
    <2>1. (i + 1) + 4 = i + 5
        OBVIOUS
    <2> QED
        BY <1>1, <1>2, <1>3, <1>4, <2>1
<1>6. i + 1 \in 1..Len(Piece(n)) /\ (i + 1) + 4 <= Len(Piece(n))
    BY <1>1, <1>2, <1>3
<1> QED
    BY <1>5, <1>6, Zenon DEF IsChunkedDone

-----------------------------------------------------------------------------
(* The decoder.                                                                *)

(* find("\r\n") gives the first one.                                           *)
LEMMA CrlfPosFacts ==
    ASSUME TypeOK, HasCrlf
    PROVE  /\ CrlfPos \in 0..Len(chunkBuffer) /\ CrlfPos \in Nat
           /\ CrlfAt(chunkBuffer, CrlfPos)
           /\ \A j \in 0..(CrlfPos - 1) : ~CrlfAt(chunkBuffer, j)
<1> DEFINE T == {i \in 0..Len(chunkBuffer) : CrlfAt(chunkBuffer, i)}
<1>1. T \subseteq Nat /\ T # {} /\ Len(chunkBuffer) \in Nat
    BY LenProperties DEF HasCrlf, TypeOK
<1>2. PICK n \in T : \A m \in T : n <= m
    BY <1>1, LeastNumber
<1>3. n \in 0..Len(chunkBuffer) /\ CrlfAt(chunkBuffer, n)
    OBVIOUS
<1>4. ASSUME NEW j \in 0..(n - 1)
      PROVE  ~CrlfAt(chunkBuffer, j)
    <2>1. j \in 0..Len(chunkBuffer) /\ ~(n <= j)
        BY <1>1, <1>3
    <2> QED
        BY <1>2, <2>1
<1>5. \E i \in 0..Len(chunkBuffer) :
          /\ CrlfAt(chunkBuffer, i)
          /\ \A j \in 0..(i - 1) : ~CrlfAt(chunkBuffer, j)
    BY <1>3, <1>4
<1>6. /\ CrlfPos \in 0..Len(chunkBuffer)
      /\ CrlfAt(chunkBuffer, CrlfPos)
      /\ \A j \in 0..(CrlfPos - 1) : ~CrlfAt(chunkBuffer, j)
    BY <1>5, Zenon DEF CrlfPos
<1>7. CrlfPos \in Nat
    BY <1>6
<1> QED
    BY <1>6, <1>7

(* strtoul() gives a number that a size_t holds.                               *)
LEMMA StrtoulType ==
    ASSUME NEW line
    PROVE  Strtoul(line) \in Nat /\ Strtoul(line) < Word
<1> DEFINE v == HexValue(line)
<1>1. Strtoul(line) = IF v \in 0..(Word - 1) THEN v ELSE Word - 1
    BY DEF Strtoul
<1>2. Word \in Nat \ {0}
    BY LimitsAssumption
<1> HIDE DEF v
<1> QED
    BY <1>1, <1>2

(* Where a "\r\n" of a part of a sequence is in the sequence.                  *)
LEMMA CrlfShift ==
    ASSUME NEW s \in Seq(Byte), NEW a \in Nat, NEW b \in Nat,
           a <= b, b <= Len(s), NEW i \in Nat
    PROVE  CrlfAt(SubSeq(s, a + 1, b), i)
             <=> (a + i) + 2 <= b /\ CrlfAt(s, a + i)
<1> DEFINE part == SubSeq(s, a + 1, b)
<1>1. /\ Len(part) = b - a
      /\ \A n \in 1..(b - a) : part[n] = s[a + n]
    BY Part
<1>2. Len(s) \in Nat
    BY LenProperties
<1> HIDE DEF part
<1>3. ASSUME (a + i) + 2 <= b
      PROVE  CrlfAt(part, i) <=> (a + i) + 2 <= b /\ CrlfAt(s, a + i)
    <2>1. i + 1 \in 1..(b - a) /\ i + 2 \in 1..(b - a)
        BY <1>3
    <2>2. part[i + 1] = s[a + (i + 1)] /\ part[i + 2] = s[a + (i + 2)]
        BY <1>1, <2>1
    <2>3. a + (i + 1) = (a + i) + 1 /\ a + (i + 2) = (a + i) + 2
        OBVIOUS
    <2>4. i + 2 <= Len(part) /\ (a + i) + 2 <= Len(s)
        BY <1>1, <1>2, <1>3
    <2> QED
        BY <1>3, <2>2, <2>3, <2>4 DEF CrlfAt
<1>4. ASSUME ~((a + i) + 2 <= b)
      PROVE  CrlfAt(part, i) <=> (a + i) + 2 <= b /\ CrlfAt(s, a + i)
    <2>1. ~(i + 2 <= Len(part))
        BY <1>1, <1>4
    <2> QED
        BY <1>4, <2>1 DEF CrlfAt
<1>5. CrlfAt(part, i) <=> (a + i) + 2 <= b /\ CrlfAt(s, a + i)
    BY <1>3, <1>4, Zenon
<1> QED
    BY <1>5 DEF part

(* The fields of a chunk of a well-formed body, and where the next one begins. *)
LEMMA ChunkFields ==
    ASSUME TypeOK, request.framed, NEW k \in 1..Len(request.chunks)
    PROVE  LET c == request.chunks[k]
           IN  /\ c.at \in Nat /\ c.line \in Nat /\ c.size \in Nat
               /\ c.from \in Nat
               /\ CrlfAt(request.payload, c.at + c.line)
               /\ \A i \in c.at..(c.at + c.line - 1) : ~CrlfAt(request.payload, i)
               /\ Strtoul(SubSeq(request.payload, c.at + 1, c.at + c.line)) = c.size
               /\ CrlfAt(request.payload, c.at + c.line + 2 + c.size)
               /\ c.line + c.size + 4 < Word
               /\ c.from + c.size <= Len(request.data)
               /\ SubSeq(request.payload, c.at + c.line + 3, c.at + c.line + 2 + c.size)
                    = SubSeq(request.data, c.from + 1, c.from + c.size)
               /\ c.size = 0 => c.from = Len(request.data)
               /\ c.size > 0 =>
                    /\ k + 1 \in 1..Len(request.chunks)
                    /\ request.chunks[k + 1].at = c.at + c.line + c.size + 4
                    /\ request.chunks[k + 1].from = c.from + c.size
<1> DEFINE c == request.chunks[k]
<1>1. Framed(request)
    BY FramedFacts
<1>2. c \in [at : Nat, line : Nat, size : Nat, from : Nat]
    BY <1>1, ElementOfSeq DEF Framed
<1>3. Len(request.chunks) \in Nat
    BY <1>1, LenProperties DEF Framed
<1>4. /\ CrlfAt(request.payload, c.at + c.line)
      /\ \A i \in c.at..(c.at + c.line - 1) : ~CrlfAt(request.payload, i)
      /\ Strtoul(SubSeq(request.payload, c.at + 1, c.at + c.line)) = c.size
      /\ CrlfAt(request.payload, c.at + c.line + 2 + c.size)
      /\ c.line + c.size + 4 < Word
      /\ c.from + c.size <= Len(request.data)
      /\ SubSeq(request.payload, c.at + c.line + 3, c.at + c.line + 2 + c.size)
           = SubSeq(request.data, c.from + 1, c.from + c.size)
      /\ IF k = Len(request.chunks)
         THEN c.size = 0 /\ c.from = Len(request.data)
              /\ request.whole = c.at + c.line + 4
         ELSE c.size > 0
              /\ request.chunks[k + 1].at = c.at + c.line + c.size + 4
              /\ request.chunks[k + 1].from = c.from + c.size
    BY <1>1, Zenon DEF Framed
<1>5. c.size > 0 => k # Len(request.chunks)
    BY <1>2, <1>4
<1>6. c.size = 0 => k = Len(request.chunks)
    BY <1>2, <1>4
<1>7. k # Len(request.chunks) => k + 1 \in 1..Len(request.chunks)
    BY <1>3
<1> QED
    BY <1>2, <1>4, <1>5, <1>6, <1>7

(* The first line that ends in the buffer is the size line of chunk k, and     *)
(* what the loop reads there is its size.                                      *)
LEMMA SizeLineFound ==
    ASSUME TypeOK, request.framed, NEW k \in Nat, AtChunk(k),
           readOffset <= Len(request.payload), HasCrlf
    PROVE  LET c == request.chunks[k]
           IN  /\ CrlfPos = c.line /\ ChunkSize = c.size
               /\ TotalBytesNeeded = c.line + c.size + 4
               /\ ChunkEnd = c.line + 2 + c.size
               /\ Len(chunkBuffer) = readOffset - c.at
<1> DEFINE c == request.chunks[k]
           s == request.payload
           b == readOffset
           p == CrlfPos
<1>0. PICK at \in Nat, line \in Nat, size \in Nat :
          c.at = at /\ c.line = line /\ c.size = size
    BY ChunkFields DEF AtChunk
<1>1. /\ CrlfAt(s, at + line)
      /\ \A i \in at..(at + line - 1) : ~CrlfAt(s, i)
      /\ Strtoul(SubSeq(s, at + 1, at + line)) = size
      /\ CrlfAt(s, at + line + 2 + size)
      /\ line + size + 4 < Word
    BY <1>0, ChunkFields DEF AtChunk
<1>2. /\ b \in Nat /\ b <= Len(s) /\ s \in Seq(Byte) /\ Len(s) \in Nat
      /\ at <= b
      /\ chunkBuffer = SubSeq(s, at + 1, b)
    <2>1. b \in Nat
        BY DEF TypeOK
    <2>2. s \in Seq(Byte) /\ Len(s) \in Nat
        BY RequestFacts
    <2>3. c.at <= b /\ chunkBuffer = SubSeq(s, c.at + 1, b)
        BY DEF AtChunk
    <2> QED
        BY <1>0, <2>1, <2>2, <2>3
<1>4. /\ p \in Nat
      /\ CrlfAt(chunkBuffer, p)
      /\ \A j \in 0..(p - 1) : ~CrlfAt(chunkBuffer, j)
    BY CrlfPosFacts
<1> HIDE DEF c, s, b, p
<1>3. Len(chunkBuffer) = b - at
    BY <1>2, Part
<1>5. \A i \in Nat :
         CrlfAt(chunkBuffer, i) <=> (at + i) + 2 <= b /\ CrlfAt(s, at + i)
    BY <1>2, CrlfShift
<1>6. (at + p) + 2 <= b /\ CrlfAt(s, at + p)
    BY <1>4, <1>5
<1>7. p >= line
    <2>1. SUFFICES ASSUME p < line PROVE FALSE
        BY <1>4
    <2>2. at + p \in at..(at + line - 1)
        BY <2>1, <1>4
    <2> QED
        BY <2>2, <1>1, <1>6
<1>8. p <= line
    <2>1. SUFFICES ASSUME p > line PROVE FALSE
        BY <1>4
    <2>2. (at + line) + 2 <= b
        BY <2>1, <1>2, <1>4, <1>6
    <2>3. CrlfAt(chunkBuffer, line)
        BY <2>2, <1>1, <1>5
    <2>4. line \in 0..(p - 1)
        BY <2>1, <1>4
    <2> QED
        BY <2>3, <2>4, <1>4
<1>9. p = line
    BY <1>4, <1>7, <1>8
<1>10. SubSeq(chunkBuffer, 1, p) = SubSeq(s, at + 1, at + line)
    <2>1. 0 <= line /\ at + line <= b /\ at + 0 = at /\ 0 + 1 = 1 /\ 0 \in Nat
        BY <1>2, <1>6, <1>9
    <2>2. SubSeq(SubSeq(s, at + 1, b), 0 + 1, line)
            = SubSeq(s, (at + 0) + 1, at + line)
        BY <2>1, <1>2, PartOfPart
    <2> QED
        BY <2>1, <2>2, <1>2, <1>9, Zenon
<1>11. ChunkSize = size
    BY <1>1, <1>10 DEF ChunkSize, p
<1>12. /\ TotalBytesNeeded = (line + 2 + size + 2) % Word
       /\ ChunkEnd = (line + 2 + size) % Word
     BY <1>9, <1>11, Zenon DEF TotalBytesNeeded, ChunkEnd, p
<1>13. TotalBytesNeeded = line + size + 4 /\ ChunkEnd = line + 2 + size
    <2>1. Word \in Nat \ {0}
        BY LimitsAssumption
    <2>2. /\ (line + 2 + size + 2) % Word = line + size + 4
          /\ (line + 2 + size) % Word = line + 2 + size
        BY <2>1, <1>1
    <2> QED
        BY <2>2, <1>12
<1> QED
    BY <1>0, <1>3, <1>9, <1>11, <1>13 DEF c, s, b, p

(* What the loop finds in the buffer, once it takes a chunk to be there, is    *)
(* chunk k and no other.                                                       *)
LEMMA ChunkFound ==
    ASSUME TypeOK, request.framed, NEW k \in Nat, AtChunk(k),
           readOffset <= Len(request.payload), ChunkThere
    PROVE  LET c == request.chunks[k]
           IN  /\ CrlfPos = c.line /\ ChunkSize = c.size
               /\ TotalBytesNeeded = c.line + c.size + 4
               /\ ChunkEnd = c.line + 2 + c.size
               /\ Len(chunkBuffer) = readOffset - c.at
               /\ c.at + (c.line + c.size + 4) <= readOffset
               /\ CrlfAt(chunkBuffer, ChunkEnd)
<1> DEFINE s == request.payload
           b == readOffset
<1>1. PICK at \in Nat, line \in Nat, size \in Nat :
          /\ request.chunks[k].at = at /\ request.chunks[k].line = line
          /\ request.chunks[k].size = size
          /\ CrlfAt(s, at + line + 2 + size)
    BY ChunkFields DEF AtChunk
<1>2. /\ b \in Nat /\ b <= Len(s) /\ s \in Seq(Byte) /\ at <= b
      /\ chunkBuffer = SubSeq(s, at + 1, b)
    <2>1. b \in Nat
        BY DEF TypeOK
    <2>2. s \in Seq(Byte)
        BY RequestFacts
    <2>3. /\ request.chunks[k].at <= b
          /\ chunkBuffer = SubSeq(s, request.chunks[k].at + 1, b)
        BY DEF AtChunk
    <2> QED
        BY <1>1, <2>1, <2>2, <2>3
<1>3. /\ CrlfPos = line /\ ChunkSize = size /\ TotalBytesNeeded = line + size + 4
      /\ ChunkEnd = line + 2 + size /\ Len(chunkBuffer) = b - at
    BY <1>1, SizeLineFound DEF ChunkThere
<1>4. Len(chunkBuffer) >= TotalBytesNeeded
    BY DEF ChunkThere, Enough
<1> HIDE DEF s, b
<1>5. at + (line + size + 4) <= b
    BY <1>2, <1>3, <1>4
<1>6. CrlfAt(chunkBuffer, line + 2 + size)
    <2>1. /\ line + 2 + size \in Nat
          /\ (at + (line + 2 + size)) + 2 <= b
          /\ at + (line + 2 + size) = at + line + 2 + size
        BY <1>2, <1>5
    <2> QED
        BY <2>1, <1>1, <1>2, CrlfShift
<1> QED
    BY <1>1, <1>3, <1>5, <1>6 DEF s, b

(* A chunk that is all in the buffer is found there.                           *)
LEMMA ChunkInBuffer ==
    ASSUME TypeOK, request.framed, NEW k \in Nat, AtChunk(k),
           readOffset <= Len(request.payload),
           request.chunks[k].at + (request.chunks[k].line + request.chunks[k].size + 4)
             <= readOffset
    PROVE  ChunkThere
<1> DEFINE s == request.payload
           b == readOffset
<1>1. PICK at \in Nat, line \in Nat, size \in Nat :
          /\ request.chunks[k].at = at /\ request.chunks[k].line = line
          /\ request.chunks[k].size = size
          /\ CrlfAt(s, at + line)
    BY ChunkFields DEF AtChunk
<1>2. /\ b \in Nat /\ b <= Len(s) /\ s \in Seq(Byte) /\ at <= b
      /\ chunkBuffer = SubSeq(s, at + 1, b)
    <2>1. b \in Nat
        BY DEF TypeOK
    <2>2. s \in Seq(Byte)
        BY RequestFacts
    <2>3. /\ request.chunks[k].at <= b
          /\ chunkBuffer = SubSeq(s, request.chunks[k].at + 1, b)
        BY DEF AtChunk
    <2> QED
        BY <1>1, <2>1, <2>2, <2>3
<1>0. at + (line + size + 4) <= b
    BY <1>1
<1> HIDE DEF s, b
<1>3. Len(chunkBuffer) = b - at
    BY <1>2, Part
<1>4. CrlfAt(chunkBuffer, line)
    <2>1. (at + line) + 2 <= b
        BY <1>0, <1>2
    <2> QED
        BY <1>1, <1>2, <2>1, CrlfShift
<1>5. HasCrlf
    <2>1. line \in 0..Len(chunkBuffer)
        BY <1>0, <1>2, <1>3
    <2> QED
        BY <1>4, <2>1 DEF HasCrlf
<1>6. TotalBytesNeeded = line + size + 4
    BY <1>1, <1>5, SizeLineFound
<1> QED
    BY <1>0, <1>2, <1>3, <1>5, <1>6 DEF ChunkThere, Enough

(* No chunk ends behind the last one.                                          *)
LEMMA ChunkWithin ==
    ASSUME TypeOK, request.framed, NEW k \in 1..Len(request.chunks)
    PROVE  request.chunks[k].at + (request.chunks[k].line + request.chunks[k].size + 4)
             <= request.whole
<1> DEFINE n == Len(request.chunks)
           End(j) == request.chunks[j].at + (request.chunks[j].line
                                               + request.chunks[j].size + 4)
           T == {d \in Nat : d < n /\ End(n - d) > request.whole}
<1>1. n \in Nat /\ request.whole \in Nat
    BY FramedFacts, LenProperties, RequestFacts DEF Framed
<1>2. ASSUME NEW j \in 1..n
      PROVE  /\ End(j) \in Nat /\ request.chunks[j].at \in Nat
             /\ request.chunks[j].at <= End(j)
             /\ j = n => End(j) = request.whole
             /\ j # n => j + 1 \in 1..n /\ request.chunks[j + 1].at = End(j)
    <2>1. PICK at \in Nat, line \in Nat, size \in Nat :
              /\ request.chunks[j].at = at /\ request.chunks[j].line = line
              /\ request.chunks[j].size = size
        BY ChunkFields
    <2>2. IF j = n THEN size = 0 /\ request.whole = at + line + 4
          ELSE size > 0 /\ request.chunks[j + 1].at = at + line + size + 4
        BY <2>1, FramedFacts, Zenon DEF Framed
    <2>3. j # n => j + 1 \in 1..n
        BY <1>1
    <2>4. End(j) = at + (line + size + 4)
        BY <2>1
    <2> HIDE DEF End
    <2> QED
        BY <2>1, <2>2, <2>3, <2>4
<1> HIDE DEF End, n
<1>3. T = {}
    <2> SUFFICES ASSUME T # {} PROVE FALSE
        OBVIOUS
    <2>1. PICK d \in T : \A e \in T : d <= e
        <3>1. T \subseteq Nat
            OBVIOUS
        <3> QED
            BY <3>1, LeastNumber
    <2>2. d \in Nat /\ d < n /\ End(n - d) > request.whole /\ n - d \in 1..n
        BY <1>1, <2>1
    <2>3. /\ n - d # n /\ n - (d - 1) \in 1..n /\ d - 1 \in Nat
          /\ request.chunks[n - (d - 1)].at = End(n - d)
        <3>1. n - d # n
            BY <1>1, <1>2, <2>2
        <3>2. (n - d) + 1 = n - (d - 1) /\ d - 1 \in Nat
            BY <1>1, <2>2, <3>1
        <3> QED
            BY <1>2, <2>2, <3>1, <3>2
    <2>4. End(n - (d - 1)) > request.whole
        <3>1. PICK j \in 1..n : j = n - (d - 1)
            BY <2>3
        <3>2. End(j) \in Nat /\ request.chunks[j].at \in Nat /\ request.chunks[j].at <= End(j)
            BY <1>2
        <3>3. End(n - d) \in Nat
            BY <1>2, <2>2
        <3> QED
            BY <1>1, <2>2, <2>3, <3>1, <3>2, <3>3
    <2>5. d - 1 \in T
        <3>1. d - 1 < n
            BY <1>1, <2>2, <2>3
        <3> QED
            BY <2>3, <2>4, <3>1
    <2> QED
        BY <2>1, <2>2, <2>5
<1>4. n - k \in Nat /\ n - k < n /\ n - (n - k) = k /\ k \in 1..n
    BY <1>1 DEF n
<1>5. ~(End(k) > request.whole)
    BY <1>3, <1>4
<1> QED
    BY <1>1, <1>2, <1>4, <1>5 DEF End

-----------------------------------------------------------------------------
(* The steps.                                                                  *)

LEMMA InitInvariant == Init => IInv
<1> SUFFICES ASSUME Init PROVE IInv
    OBVIOUS
<1>1. TypeOK
    <2>1. <<>> \in Seq(Byte) /\ Len(<<>>) = 0
        BY EmptySeq
    <2>2. body \in Seq(Byte) /\ chunkBuffer \in Seq(Byte) /\ decodedBody \in Seq(Byte)
          /\ readOffset \in 0..Len(body)
        BY <2>1 DEF Init
    <2> QED
        BY <2>2 DEF Init, TypeOK
<1>2. Arrived(received) = 0
    BY <1>1, RequestFacts DEF Init, Arrived
<1>3. Within /\ HeaderTaken /\ BodyIsPayload /\ LengthReached /\ LimitsKept /\ StatusTrue
    BY <1>1, RequestFacts DEF Init, Within, HeaderTaken, BodyIsPayload, LengthReached,
       LimitsKept, StatusTrue, InBody
<1>4. DecoderIdle
    BY <1>1, RequestFacts, EmptySeq DEF Init, DecoderIdle, TooLong
<1>5. BetweenChunks
    <2> SUFFICES ASSUME request.framed PROVE AtChunk(1)
        BY DEF BetweenChunks
    <2>1. Len(request.chunks) > 0 /\ Len(request.chunks) \in Nat
          /\ request.chunks[1].at = 0 /\ request.chunks[1].from = 0
        BY <1>1, FramedFacts, LenProperties DEF Framed
    <2>2. /\ SubSeq(request.payload, 0 + 1, 0) = <<>>
          /\ SubSeq(request.data, 1, 0) = <<>>
        BY SubSeqEmpty
    <2> QED
        BY <2>1, <2>2 DEF Init, AtChunk
<1>6. CutKnown /\ Decoded /\ EndSeen
    BY <1>1, <1>2, RequestFacts DEF Init, CutKnown, Decoded, EndSeen
<1> QED
    BY <1>1, <1>3, <1>4, <1>5, <1>6 DEF IInv

(* A connection that has left the reader: nothing more happens to its request. *)
LEMMA Left ==
    ASSUME IInv, TypeOK', state' \in {"WRITING", "FINISHED"}, UNCHANGED input,
           received' \in Nat,
           received' <= request.headerSize + Len(request.payload),
           reqState' = reqState \/ reqState' = "REQ_ERROR",
           decoding' = FALSE,
           reqState' = "REQ_BODY" => UNCHANGED <<readOffset, chunkBuffer, decodedBody>>,
           reqState' = "REQ_CHUNKED" => decodedBody' = decodedBody,
           StatusTrue'
    PROVE  IInv'
<1>1. /\ request' = request /\ maxBodySize' = maxBodySize
      /\ state' # "READING" /\ state' # "PROCESSING" /\ state' # "BUILDING"
    BY DEF input
<1>2. Within' /\ HeaderTaken' /\ DecoderIdle'
    BY <1>1 DEF IInv, Within, HeaderTaken, DecoderIdle
<1>3. /\ BetweenChunks' /\ CutKnown' /\ BodyIsPayload' /\ LengthReached'
      /\ LimitsKept' /\ EndSeen'
    BY <1>1 DEF BetweenChunks, CutKnown, BodyIsPayload, LengthReached,
       LimitsKept, EndSeen
<1>4. Decoded'
    BY <1>1 DEF IInv, Decoded
<1> QED
    BY <1>2, <1>3, <1>4 DEF IInv

(* What every recv() does.                                                     *)
LEMMA RecvFacts ==
    ASSUME TypeOK, Within, NEW n, Recv(n)
    PROVE  /\ n \in Nat /\ 1 <= n /\ n <= MaxHeaderSize
           /\ n <= request.headerSize + Len(request.payload) - received
           /\ received' = received + n /\ received' \in Nat
           /\ received' <= request.headerSize + Len(request.payload)
           /\ state = "READING" /\ cut' \in BOOLEAN
<1> DEFINE h == request.headerSize
           l == Len(request.payload)
<1>1. /\ h \in Nat /\ l \in Nat /\ received \in Nat /\ received <= h + l
      /\ MaxHeaderSize \in Nat
    BY RequestFacts DEF Within
<1>2. n \in 1..Least(MaxHeaderSize, h + l - received) /\ received' = received + n
    BY DEF Recv
<1> HIDE DEF h, l
<1>3. /\ n \in Nat /\ 1 <= n /\ n <= MaxHeaderSize /\ n <= h + l - received
      /\ received' \in Nat /\ received' <= h + l
    BY <1>1, <1>2 DEF Least
<1>4. state = "READING" /\ cut' \in BOOLEAN
    BY DEF Recv, TypeOK
<1> QED
    BY <1>2, <1>3, <1>4 DEF h, l

LEMMA HeadersTooLargeStep ==
    ASSUME IInv, NEW n, HeadersTooLarge(n)
    PROVE  IInv'
<1>1. TypeOK /\ Within /\ Recv(n)
    BY DEF IInv, HeadersTooLarge
<1>2. /\ received' \in Nat /\ state = "READING" /\ received' = received + n
      /\ received' <= request.headerSize + Len(request.payload)
      /\ cut' \in BOOLEAN
    BY <1>1, RecvFacts
<1>3. TypeOK'
    BY <1>1, <1>2 DEF HeadersTooLarge, TriggerError, TypeOK, input, decode
<1>4. StatusTrue'
    BY <1>1, <1>2, RequestFacts
       DEF HeadersTooLarge, TriggerError, StatusTrue, input, TypeOK
<1>5. decoding' = FALSE
    BY <1>1, <1>2 DEF IInv, DecoderIdle, HeadersTooLarge, decode, TypeOK
<1> QED
    BY <1>2, <1>3, <1>4, <1>5, Left DEF HeadersTooLarge, TriggerError, decode

LEMMA HeadersRejectedStep ==
    ASSUME IInv, NEW n, HeadersRejected(n)
    PROVE  IInv'
<1>1. TypeOK /\ Within /\ Recv(n)
    BY DEF IInv, HeadersRejected, HeadersEnd
<1>2. /\ received' \in Nat /\ state = "READING" /\ received' = received + n
      /\ received' <= request.headerSize + Len(request.payload)
      /\ cut' \in BOOLEAN
    BY <1>1, RecvFacts
<1>3. TypeOK'
    BY <1>1, <1>2 DEF HeadersRejected, TriggerError, TypeOK, input, decode
<1>4. StatusTrue'
    BY <1>1, <1>2, RequestFacts
       DEF HeadersRejected, TriggerError, StatusTrue, WellFormed, TooLong, input
<1>5. decoding' = FALSE
    BY <1>1, <1>2 DEF IInv, DecoderIdle, HeadersRejected, decode, TypeOK
<1> QED
    BY <1>2, <1>3, <1>4, <1>5, Left DEF HeadersRejected, TriggerError, decode

(* What is in the body has arrived.                                            *)
LEMMA BodyLength ==
    ASSUME IInv, state \in {"READING", "PROCESSING"}, InBody
    PROVE  Len(body) = Arrived(received) /\ Len(body) <= Len(request.payload)
<1> DEFINE w == Arrived(received)
<1>1. TypeOK /\ Within
    BY DEF IInv
<1>2. w \in Nat /\ w <= Len(request.payload) /\ 0 <= w
    <2>1. 0 \in Nat /\ 0 <= request.headerSize + Len(request.payload) - received
        BY <1>1, RequestFacts DEF Within
    <2> QED
        BY <1>1, <2>1, ArrivedFacts
<1>3. body = SubSeq(request.payload, 1, w)
    BY DEF IInv, BodyIsPayload
<1> HIDE DEF w
<1>4. Len(SubSeq(request.payload, 0 + 1, w)) = IF 0 <= w THEN w - 0 ELSE 0
    BY <1>1, <1>2, Part, RequestFacts
<1> QED
    BY <1>2, <1>3, <1>4 DEF w

(* Files fail while the body arrives: more of it had come than the memory holds.*)
LEMMA StoreFailsStep ==
    ASSUME IInv, NEW n, StoreFails(n)
    PROVE  IInv'
<1>1. /\ TypeOK /\ Within /\ Recv(n) /\ filesFail
      /\ InFile(body \o Piece(n))
      /\ state' = "WRITING" /\ statusCode' = 500
      /\ UNCHANGED <<input, body, decode>>
    BY DEF IInv, StoreFails, HeadersEnd, TriggerError
<1>2. /\ received' \in Nat /\ state = "READING" /\ received' = received + n
      /\ received' <= request.headerSize + Len(request.payload)
      /\ cut' \in BOOLEAN /\ n \in Nat
      /\ n <= request.headerSize + Len(request.payload) - received
    BY <1>1, RecvFacts
<1>3. \/ /\ reqState = "REQ_HEADERS"
         /\ \/ reqState' = "REQ_CHUNKED" /\ request.coding = "chunked"
            \/ reqState' = "REQ_BODY"
      \/ /\ InBody /\ reqState' = reqState
         /\ reqState = "REQ_CHUNKED" => request.coding = "chunked"
    BY <1>1 DEF StoreFails, HeadersEnd, BodyAnnounced, Within
<1>4. Len(body \o Piece(n)) = Arrived(received)'
    <2>1. Arrived(received)' = Arrived(received + n)
        BY <1>1, <1>2 DEF Arrived, input
    <2>2. /\ Piece(n) \in Seq(Byte) /\ body \in Seq(Byte)
          /\ Len(Piece(n)) = Arrived(received + n) - Arrived(received)
          /\ Arrived(received) \in Nat /\ Arrived(received + n) \in Nat
        BY <1>1, <1>2, PieceFacts, ArrivedFacts DEF TypeOK
    <2>3. Len(body) = Arrived(received)
        <3>1. CASE InBody
            BY <3>1, <1>2, BodyLength
        <3>2. CASE reqState = "REQ_HEADERS"
            <4>1. Len(body) = 0
                BY <3>2, <1>1, <1>2, EmptySeq DEF Within
            <4>2. Arrived(received) = 0
                BY <3>2, <1>1, <1>2, RequestFacts DEF Within, Arrived
            <4> QED
                BY <4>1, <4>2
        <3> QED
            BY <3>1, <3>2, <1>3
    <2>4. Len(body \o Piece(n)) = Len(body) + Len(Piece(n))
        BY <2>2, ConcatProperties
    <2> QED
        BY <2>1, <2>2, <2>3, <2>4
<1>5. StatusTrue'
    BY <1>1, <1>4 DEF StatusTrue, InFile, input
<1>6. decoding' = FALSE /\ readOffset' = 0 /\ chunkBuffer' = <<>> /\ decodedBody' = <<>>
    BY <1>1, <1>2 DEF IInv, DecoderIdle, decode, TypeOK
<1>7. TypeOK'
    <2>1. reqState' \in {"REQ_BODY", "REQ_CHUNKED"}
        BY <1>3 DEF InBody
    <2> QED
        BY <1>1, <1>2, <1>6, <2>1 DEF TypeOK, input, decode
<1>8. Within' /\ HeaderTaken' /\ DecoderIdle'
    BY <1>1, <1>2, <1>3, <1>6 DEF Within, HeaderTaken, DecoderIdle, InBody, input
<1>9. /\ BetweenChunks' /\ CutKnown' /\ BodyIsPayload' /\ LengthReached'
      /\ LimitsKept' /\ EndSeen'
    BY <1>1 DEF BetweenChunks, CutKnown, BodyIsPayload, LengthReached, LimitsKept,
       EndSeen
<1>10. Decoded'
    <2>1. SubSeq(request.data, 1, 0) = <<>> /\ Len(<<>>) = 0
        BY SubSeqEmpty
    <2> QED
        BY <2>1, <1>1, <1>6 DEF Decoded, input
<1> QED
    BY <1>5, <1>7, <1>8, <1>9, <1>10 DEF IInv

LEMMA RecvEndsStep ==
    ASSUME IInv, RecvEnds
    PROVE  IInv'
<1>1. TypeOK'
    BY DEF IInv, RecvEnds, TypeOK, input, decode
<1>2. StatusTrue'
    BY DEF IInv, RecvEnds, StatusTrue, WellFormed, Arrived, TooLong, input
<1>3. decoding' = FALSE
    BY DEF IInv, RecvEnds, DecoderIdle, decode, TypeOK
<1> QED
    BY <1>1, <1>2, <1>3, Left DEF IInv, TypeOK, Within, RecvEnds, decode

LEMMA TimeoutStep ==
    ASSUME IInv, Timeout
    PROVE  IInv'
<1>1. TypeOK'
    BY DEF IInv, Timeout, TriggerError, TypeOK, input, decode
<1>2. StatusTrue'
    BY DEF IInv, Timeout, TriggerError, StatusTrue, TooLong, input
<1>3. decoding' = FALSE
    BY DEF IInv, Timeout, decode, TypeOK
<1>4. /\ received' \in Nat /\ received' <= request.headerSize + Len(request.payload)
      /\ state' = "WRITING" /\ UNCHANGED <<input, reqState, decode>>
    BY DEF IInv, TypeOK, Within, Timeout, TriggerError
<1> QED
    BY <1>1, <1>2, <1>3, <1>4, Left DEF decode

(* A recv() that stops inside the terminator is remembered.                    *)
LEMMA CutStep ==
    ASSUME IInv, NEW n, Recv(n), UNCHANGED input
    PROVE  /\ CutKnown'
           /\ cut => cut'
<1>1. received' = received + n /\ request' = request
    BY RecvFacts DEF IInv, input
<1>2. Arrived(received)' = Arrived(received + n)
    BY <1>1 DEF Arrived
<1>3. cut' = (cut \/ Arrived(received + n)
                        \in (request.whole - 4)..(request.whole - 1))
    BY DEF Recv
<1> QED
    BY <1>1, <1>2, <1>3 DEF CutKnown

(* A connection that goes on reading chunks did not get the whole terminator   *)
(* in this recv().                                                             *)
LEMMA EndStep ==
    ASSUME IInv, NEW n, Recv(n), UNCHANGED input,
           reqState \in {"REQ_HEADERS", "REQ_CHUNKED"},
           reqState' = "REQ_CHUNKED" /\ state' = "READING"
             => ~IsChunkedDone(Piece(n))
    PROVE  EndSeen'
<1> SUFFICES ASSUME request.framed, state' = "READING", reqState' = "REQ_CHUNKED",
                    Arrived(received)' >= request.whole
             PROVE  cut'
    BY DEF EndSeen, input
<1> DEFINE a == Arrived(received)
           w == request.whole
<1>1. /\ TypeOK /\ Within /\ n \in Nat /\ received' = received + n
      /\ n <= request.headerSize + Len(request.payload) - received
      /\ state = "READING"
    BY RecvFacts DEF IInv
<1>2. w <= Arrived(received + n) /\ Arrived(received + n) \in Nat
    BY <1>1, ArrivedFacts, RequestFacts DEF Arrived, input
<1>3. a \in Nat /\ w \in Nat /\ 5 <= w
    BY <1>1, ArrivedFacts, RequestFacts
<1>4. cut => cut'
    BY CutStep
<1>5. CASE a <= w - 5
    BY <1>5, <1>1, <1>2, TerminatorSeen
<1>6. CASE a \in (w - 4)..(w - 1)
    BY <1>6, <1>1, <1>4 DEF IInv, CutKnown
<1>7. CASE a >= w
    <2>1. CASE reqState = "REQ_CHUNKED"
        BY <2>1, <1>7, <1>1, <1>4 DEF IInv, EndSeen
    <2>2. CASE reqState = "REQ_HEADERS"
        <3>1. a = 0
            BY <2>2, <1>1, RequestFacts DEF Within, Arrived
        <3> QED
            BY <3>1, <1>3, <1>7
    <2> QED
        BY <2>1, <2>2
<1> HIDE DEF a, w
<1>8. a <= w - 5 \/ a \in (w - 4)..(w - 1) \/ a >= w
    BY <1>3
<1> QED
    BY <1>5, <1>6, <1>7, <1>8

(* A step that leaves the decoder alone leaves it between the same two chunks. *)
LEMMA DecoderUntouched ==
    ASSUME BetweenChunks, UNCHANGED <<input, decode>>,
           state \in {"READING", "PROCESSING"}
    PROVE  BetweenChunks'
<1> SUFFICES ASSUME request.framed PROVE \E k \in Nat : AtChunk(k)'
    BY DEF BetweenChunks, input
<1>1. PICK k \in Nat : AtChunk(k)
    BY DEF BetweenChunks
<1>2. AtChunk(k)'
    BY <1>1 DEF AtChunk, input, decode
<1> QED
    BY <1>2

(* A status stays true while more of the request comes.                        *)
LEMMA StatusKept ==
    ASSUME TypeOK, StatusTrue, UNCHANGED <<input, statusCode>>,
           received' \in Nat, received <= received'
    PROVE  StatusTrue'
<1>1. request.headerSize \in Nat /\ received \in Nat /\ BufferLimit \in Nat
    BY RequestFacts, LimitsAssumption
<1>2. request.headerSize < received => request.headerSize < received'
    BY <1>1
<1>3. BufferLimit < Arrived(received) => BufferLimit < Arrived(received)'
    BY <1>1 DEF Arrived, input
<1> QED
    BY <1>2, <1>3 DEF StatusTrue, WellFormed, TooLong, input

LEMMA HeadersGoOnStep ==
    ASSUME IInv, NEW n, HeadersGoOn(n)
    PROVE  IInv'
<1>1. /\ TypeOK /\ Within /\ DecoderIdle /\ BetweenChunks /\ Recv(n)
      /\ reqState = "REQ_HEADERS"
      /\ UNCHANGED <<input, state, reqState, statusCode, body, decode>>
    BY DEF IInv, HeadersGoOn
<1>2. /\ received' \in Nat /\ state = "READING" /\ received' = received + n
      /\ received' <= request.headerSize + Len(request.payload)
      /\ cut' \in BOOLEAN /\ received' < request.headerSize
    BY <1>1, RecvFacts DEF HeadersGoOn
<1>3. TypeOK' /\ Within' /\ HeaderTaken'
    BY <1>1, <1>2 DEF TypeOK, Within, HeaderTaken, input, decode
<1>4. DecoderIdle'
    BY <1>1, <1>2 DEF DecoderIdle, TooLong, input, decode
<1>5. BetweenChunks' /\ CutKnown'
    BY <1>1, <1>2, DecoderUntouched, CutStep
<1>6. BodyIsPayload' /\ LengthReached' /\ LimitsKept' /\ Decoded' /\ EndSeen'
    BY <1>1, <1>2 DEF BodyIsPayload, InBody, LengthReached, LimitsKept, Decoded,
       EndSeen
<1>7. StatusTrue'
    <2>1. received <= received'
        BY <1>1, <1>2, RecvFacts, RequestFacts
    <2> QED
        BY <2>1, <1>1, <1>2, StatusKept DEF IInv
<1> QED
    BY <1>3, <1>4, <1>5, <1>6, <1>7 DEF IInv

LEMMA HeadersAloneStep ==
    ASSUME IInv, NEW n, HeadersAlone(n)
    PROVE  IInv'
<1>1. /\ TypeOK /\ Within /\ DecoderIdle /\ BetweenChunks /\ Recv(n)
      /\ reqState' = "REQ_DONE" /\ state' = "PROCESSING"
      /\ UNCHANGED <<input, statusCode, body, decode>>
      /\ received + n <= MaxHeaderSize /\ received + n >= request.headerSize
    BY DEF IInv, HeadersAlone, HeadersEnd
<1>2. /\ received' \in Nat /\ state = "READING" /\ received' = received + n
      /\ received' <= request.headerSize + Len(request.payload)
      /\ cut' \in BOOLEAN /\ n \in Nat
    BY <1>1, RecvFacts
<1>3. TypeOK' /\ Within' /\ HeaderTaken'
    BY <1>1, <1>2 DEF TypeOK, Within, HeaderTaken, input, decode
<1>4. DecoderIdle'
    BY <1>1, <1>2 DEF DecoderIdle, TypeOK, TooLong, input, decode
<1>5. BetweenChunks' /\ CutKnown'
    BY <1>1, <1>2, DecoderUntouched, CutStep
<1>6. request.headerSize <= MaxHeaderSize
    BY <1>1, <1>2, RequestFacts
<1>7. BodyIsPayload' /\ LengthReached' /\ LimitsKept' /\ Decoded' /\ EndSeen'
    BY <1>1, <1>6 DEF BodyIsPayload, InBody, LengthReached, LimitsKept, Decoded,
       EndSeen, input
<1>8. StatusTrue'
    <2>1. received <= received'
        BY <1>2, <1>1, RequestFacts
    <2> QED
        BY <2>1, <1>1, <1>2, StatusKept DEF IInv
<1> QED
    BY <1>3, <1>4, <1>5, <1>7, <1>8 DEF IInv

LEMMA HeadersThenBodyStep ==
    ASSUME IInv, NEW n, HeadersThenBody(n)
    PROVE  IInv'
<1>1. /\ TypeOK /\ Within /\ DecoderIdle /\ BetweenChunks /\ Recv(n)
      /\ reqState = "REQ_HEADERS"
      /\ UNCHANGED <<input, statusCode, decode>>
      /\ received + n <= MaxHeaderSize /\ received + n >= request.headerSize
      /\ body' = Piece(n)
    BY DEF IInv, HeadersThenBody, HeadersEnd
<1>2. /\ received' \in Nat /\ state = "READING" /\ received' = received + n
      /\ received' <= request.headerSize + Len(request.payload)
      /\ cut' \in BOOLEAN /\ n \in Nat /\ n <= MaxHeaderSize
      /\ n <= request.headerSize + Len(request.payload) - received
    BY <1>1, RecvFacts
<1>3. \/ /\ request.coding = "chunked" /\ reqState' = "REQ_CHUNKED"
         /\ state' = IF IsChunkedDone(Piece(n)) THEN "PROCESSING" ELSE state
      \/ /\ request.coding = "length" /\ request.length > 0
         /\ ~TooLong(request.length) /\ reqState' = "REQ_BODY"
         /\ state' = IF BodyDone(Piece(n)) THEN "PROCESSING" ELSE state
    BY DEF HeadersThenBody, BodyAnnounced
<1>4. state' \in {"READING", "PROCESSING"} /\ reqState' \in {"REQ_BODY", "REQ_CHUNKED"}
    BY <1>2, <1>3
<1>5. Arrived(received) = 0
    BY <1>1, <1>2, RequestFacts DEF Within, Arrived
<1>6. /\ Piece(n) \in Seq(Byte) /\ Len(Piece(n)) = Arrived(received + n)
      /\ Arrived(received + n) \in Nat /\ Arrived(received + n) <= n
      /\ Piece(n) = SubSeq(request.payload, 1, Arrived(received + n))
    <2>1. /\ Piece(n) \in Seq(Byte)
          /\ Len(Piece(n)) = Arrived(received + n) - Arrived(received)
          /\ Piece(n) = SubSeq(request.payload, 0 + 1, Arrived(received + n))
        BY <1>1, <1>2, <1>5, PieceFacts DEF Piece
    <2>2. /\ Arrived(received + n) \in Nat
          /\ Arrived(received + n) <= Arrived(received) + n
        BY <1>1, <1>2, ArrivedFacts
    <2>3. 0 + 1 = 1
        OBVIOUS
    <2> QED
        BY <2>1, <2>2, <2>3, <1>2, <1>5
<1>7. readOffset' = 0 /\ chunkBuffer' = <<>> /\ decodedBody' = <<>> /\ decoding' = FALSE
    BY <1>1, <1>2 DEF DecoderIdle, decode, TypeOK
<1>8. TypeOK'
    BY <1>1, <1>2, <1>4, <1>6, <1>7 DEF TypeOK, input, decode
<1>9. Within'
    <2>1. state' = "READING" /\ reqState' = "REQ_BODY" => Len(body') < request.length
        <3>1. state' = "READING" /\ reqState' = "REQ_BODY" => ~(Len(body') >= request.length)
            BY <1>1, <1>3 DEF BodyDone
        <3> QED
            BY <3>1, <1>1, <1>6, RequestFacts
    <2> QED
        BY <2>1, <1>1, <1>2, <1>3, <1>4 DEF Within, input
<1>10. DecoderIdle'
    BY <1>1, <1>2, <1>4, <1>7 DEF DecoderIdle, TooLong, input
<1>11. BetweenChunks' /\ CutKnown'
    BY <1>1, <1>2, DecoderUntouched, CutStep
<1>12. BodyIsPayload'
    BY <1>1, <1>2, <1>6 DEF BodyIsPayload, Arrived, input
<1>13. LengthReached'
    <2> SUFFICES ASSUME reqState' = "REQ_BODY", state' = "PROCESSING"
                 PROVE  /\ request.length <= Len(body')
                        /\ Len(body') < request.length + MaxHeaderSize
        BY <1>1, <1>4 DEF LengthReached, input
    <2>1. Len(body') >= request.length /\ request.length > 0
        BY <1>1, <1>2, <1>3 DEF BodyDone
    <2> QED
        BY <2>1, <1>1, <1>2, <1>6, RequestFacts
<1>14. LimitsKept' /\ HeaderTaken'
    <2>1. request.headerSize <= MaxHeaderSize
        BY <1>1, <1>2, RequestFacts
    <2>2. reqState' = "REQ_BODY" => ~TooLong(request.length)
        BY <1>3
    <2> QED
        BY <2>1, <2>2, <1>1, <1>4 DEF LimitsKept, HeaderTaken, TooLong, input
<1>15. Decoded'
    <2>1. SubSeq(request.data, 1, 0) = <<>> /\ Len(<<>>) = 0
        BY SubSeqEmpty
    <2> QED
        BY <2>1, <1>1, <1>4, <1>7 DEF Decoded, input
<1>16. StatusTrue'
    <2>1. received <= received'
        BY <1>2, <1>1, RequestFacts
    <2> QED
        BY <2>1, <1>1, <1>2, StatusKept DEF IInv
<1>17. EndSeen'
    BY <1>1, <1>2, <1>3, EndStep
<1> QED
    BY <1>8, <1>9, <1>10, <1>11, <1>12, <1>13, <1>14, <1>15, <1>16, <1>17 DEF IInv

(* A recv() in the body appends what it brings.                                *)
LEMMA Appended ==
    ASSUME IInv, NEW n, Recv(n), reqState \in {"REQ_BODY", "REQ_CHUNKED"},
           UNCHANGED input, body' = body \o Piece(n)
    PROVE  /\ body' = SubSeq(request.payload, 1, Arrived(received + n))
           /\ Arrived(received)' = Arrived(received + n)
           /\ body' \in Seq(Byte) /\ Len(body') = Len(body) + Len(Piece(n))
           /\ Len(body) \in Nat /\ Len(Piece(n)) \in Nat /\ Len(Piece(n)) <= n
<1>1. /\ TypeOK /\ Within /\ n \in Nat /\ received' = received + n
      /\ n <= request.headerSize + Len(request.payload) - received
      /\ state = "READING" /\ body \in Seq(Byte)
    BY RecvFacts DEF IInv, TypeOK
<1>2. body = SubSeq(request.payload, 1, Arrived(received))
    BY <1>1 DEF IInv, BodyIsPayload, InBody
<1>3. /\ Piece(n) \in Seq(Byte)
      /\ Len(Piece(n)) = Arrived(received + n) - Arrived(received)
      /\ SubSeq(request.payload, 1, Arrived(received)) \o Piece(n)
            = SubSeq(request.payload, 1, Arrived(received + n))
    BY <1>1, PieceFacts
<1>4. /\ Arrived(received) \in Nat /\ Arrived(received + n) \in Nat
      /\ Arrived(received) <= Arrived(received + n)
      /\ Arrived(received + n) <= Arrived(received) + n
    BY <1>1, ArrivedFacts
<1>5. Len(body) \in Nat /\ Len(Piece(n)) \in Nat /\ Len(Piece(n)) <= n
    BY <1>1, <1>3, <1>4, LenProperties
<1>6. body' \in Seq(Byte) /\ Len(body') = Len(body) + Len(Piece(n))
    BY <1>1, <1>3, ConcatProperties
<1>7. Arrived(received)' = Arrived(received + n)
    BY <1>1 DEF Arrived, input
<1> QED
    BY <1>2, <1>3, <1>5, <1>6, <1>7

LEMMA ReadBodyStep ==
    ASSUME IInv, NEW n, ReadBody(n)
    PROVE  IInv'
<1>1. /\ TypeOK /\ Within /\ DecoderIdle /\ BetweenChunks /\ Recv(n)
      /\ reqState = "REQ_BODY" /\ reqState' = "REQ_BODY"
      /\ UNCHANGED <<input, reqState, statusCode, decode>>
      /\ body' = body \o Piece(n)
      /\ state' = IF BodyDone(body') THEN "PROCESSING" ELSE state
    BY DEF IInv, ReadBody
<1>2. /\ received' \in Nat /\ state = "READING" /\ received' = received + n
      /\ received' <= request.headerSize + Len(request.payload)
      /\ cut' \in BOOLEAN /\ n \in Nat /\ n <= MaxHeaderSize
    BY <1>1, RecvFacts
<1>3. /\ body' = SubSeq(request.payload, 1, Arrived(received)')
      /\ body' \in Seq(Byte) /\ Len(body') = Len(body) + Len(Piece(n))
      /\ Len(body) \in Nat /\ Len(Piece(n)) \in Nat /\ Len(Piece(n)) <= n
    BY <1>1, Appended
<1>4. state' \in {"READING", "PROCESSING"}
    BY <1>1, <1>2
<1>5. readOffset' = 0 /\ chunkBuffer' = <<>> /\ decodedBody' = <<>> /\ decoding' = FALSE
    BY <1>1, <1>2 DEF DecoderIdle, decode, TypeOK
<1>6. TypeOK'
    BY <1>1, <1>2, <1>3, <1>4, <1>5 DEF TypeOK, input, decode
<1>7. Len(body) < request.length
    BY <1>1, <1>2 DEF Within
<1>8. Within'
    <2>1. state' = "READING" => Len(body') < request.length
        <3>1. state' = "READING" => ~(Len(body') >= request.length)
            BY <1>1 DEF BodyDone
        <3> QED
            BY <3>1, <1>1, <1>3, RequestFacts
    <2> QED
        BY <2>1, <1>1, <1>2, <1>4 DEF Within, input
<1>9. DecoderIdle'
    BY <1>1, <1>2, <1>4, <1>5 DEF DecoderIdle, TooLong, input
<1>10. BetweenChunks' /\ CutKnown'
    BY <1>1, <1>2, DecoderUntouched, CutStep
<1>11. BodyIsPayload'
    BY <1>1, <1>3 DEF BodyIsPayload, input
<1>12. LengthReached'
    <2> SUFFICES ASSUME state' = "PROCESSING"
                 PROVE  /\ request.length <= Len(body')
                        /\ Len(body') < request.length + MaxHeaderSize
        BY <1>1, <1>4 DEF LengthReached, input
    <2>1. Len(body') >= request.length
        BY <1>1, <1>2 DEF BodyDone
    <2> QED
        BY <2>1, <1>1, <1>2, <1>3, <1>7, RequestFacts
<1>13. LimitsKept' /\ HeaderTaken'
    BY <1>1, <1>2, <1>4 DEF IInv, LimitsKept, HeaderTaken, TooLong, input
<1>14. Decoded'
    BY <1>1 DEF Decoded
<1>15. StatusTrue'
    <2>1. received <= received'
        BY <1>2, <1>1, RequestFacts
    <2> QED
        BY <2>1, <1>1, <1>2, StatusKept DEF IInv
<1>16. EndSeen'
    BY <1>1 DEF EndSeen
<1> QED
    BY <1>6, <1>8, <1>9, <1>10, <1>11, <1>12, <1>13, <1>14, <1>15, <1>16 DEF IInv

LEMMA ReadChunkedStep ==
    ASSUME IInv, NEW n, ReadChunked(n)
    PROVE  IInv'
<1>1. /\ TypeOK /\ Within /\ DecoderIdle /\ BetweenChunks /\ Recv(n)
      /\ reqState = "REQ_CHUNKED" /\ reqState' = "REQ_CHUNKED"
      /\ UNCHANGED <<input, reqState, statusCode, decode>>
      /\ body' = body \o Piece(n)
      /\ state' = IF IsChunkedDone(Piece(n)) THEN "PROCESSING" ELSE state
    BY DEF IInv, ReadChunked
<1>2. /\ received' \in Nat /\ state = "READING" /\ received' = received + n
      /\ received' <= request.headerSize + Len(request.payload)
      /\ cut' \in BOOLEAN /\ n \in Nat
    BY <1>1, RecvFacts
<1>3. /\ body' = SubSeq(request.payload, 1, Arrived(received)')
      /\ body' \in Seq(Byte) /\ Len(body') = Len(body) + Len(Piece(n))
      /\ Len(body) \in Nat /\ Len(Piece(n)) \in Nat
    BY <1>1, Appended
<1>4. state' \in {"READING", "PROCESSING"}
    BY <1>1, <1>2
<1>5. readOffset' = 0 /\ chunkBuffer' = <<>> /\ decodedBody' = <<>> /\ decoding' = FALSE
    BY <1>1, <1>2 DEF DecoderIdle, decode, TypeOK
<1>6. TypeOK'
    BY <1>1, <1>2, <1>3, <1>4, <1>5 DEF TypeOK, input, decode
<1>7. Within'
    BY <1>1, <1>2, <1>4 DEF Within, input
<1>8. DecoderIdle'
    BY <1>1, <1>2, <1>4, <1>5 DEF DecoderIdle, TooLong, input
<1>9. BetweenChunks' /\ CutKnown'
    BY <1>1, <1>2, DecoderUntouched, CutStep
<1>10. BodyIsPayload' /\ LengthReached'
    BY <1>1, <1>3 DEF BodyIsPayload, LengthReached, input
<1>11. LimitsKept' /\ HeaderTaken'
    BY <1>1, <1>2, <1>4 DEF IInv, LimitsKept, HeaderTaken, TooLong, input
<1>12. Decoded'
    <2>1. SubSeq(request.data, 1, 0) = <<>> /\ Len(<<>>) = 0
        BY SubSeqEmpty
    <2> QED
        BY <2>1, <1>1, <1>4, <1>5 DEF Decoded, input
<1>13. StatusTrue'
    <2>1. received <= received'
        BY <1>2, <1>1, RequestFacts
    <2> QED
        BY <2>1, <1>1, <1>2, StatusKept DEF IInv
<1>14. EndSeen'
    BY <1>1, <1>2, EndStep
<1> QED
    BY <1>6, <1>7, <1>8, <1>9, <1>10, <1>11, <1>12, <1>13, <1>14 DEF IInv

LEMMA HandOnStep ==
    ASSUME IInv, HandOn
    PROVE  IInv'
<1>1. /\ TypeOK /\ Within /\ state = "PROCESSING" /\ state' = "BUILDING"
      /\ reqState \in {"REQ_BODY", "REQ_DONE"}
      /\ UNCHANGED <<input, received, reqState, statusCode, body, decode, cut>>
    BY DEF IInv, HandOn
<1>2. TypeOK' /\ Within' /\ HeaderTaken'
    BY <1>1 DEF TypeOK, Within, HeaderTaken, input, decode
<1>3. DecoderIdle' /\ BetweenChunks' /\ CutKnown' /\ BodyIsPayload' /\ EndSeen'
    BY <1>1 DEF IInv, DecoderIdle, BetweenChunks, CutKnown, BodyIsPayload, EndSeen,
       decode
<1>4. LengthReached' /\ LimitsKept' /\ Decoded' /\ StatusTrue'
    BY <1>1 DEF IInv, LengthReached, LimitsKept, Decoded, StatusTrue, WellFormed,
       Arrived, TooLong, input, decode
<1> QED
    BY <1>2, <1>3, <1>4 DEF IInv

LEMMA ChunkIncompleteStep ==
    ASSUME IInv, ChunkIncomplete
    PROVE  IInv'
<1>1. /\ decoding' = FALSE
      /\ UNCHANGED <<input, received, state, reqState, statusCode, body,
                     readOffset, chunkBuffer, decodedBody, cut>>
    BY DEF IInv, TypeOK, ChunkIncomplete
<1>2. TypeOK' /\ Within' /\ HeaderTaken' /\ DecoderIdle'
    <2>1. TypeOK'
        <3>1. TypeOK
            BY DEF IInv
        <3>2. /\ request' = request /\ maxBodySize' = maxBodySize
              /\ filesFail' = filesFail
              /\ received' = received /\ state' = state /\ reqState' = reqState
              /\ statusCode' = statusCode /\ body' = body
              /\ readOffset' = readOffset /\ chunkBuffer' = chunkBuffer
              /\ decodedBody' = decodedBody /\ cut' = cut
            BY <1>1 DEF input
        <3>3. decoding' \in BOOLEAN
            BY <1>1
        <3>4. /\ request' \in Requests /\ maxBodySize' \in MaxBodySizes
              /\ filesFail' \in BOOLEAN
              /\ received' \in Nat
              /\ body' \in Seq(Byte) /\ readOffset' \in 0..Len(body')
              /\ chunkBuffer' \in Seq(Byte) /\ decodedBody' \in Seq(Byte)
            BY <3>1, <3>2 DEF TypeOK
        <3>5. /\ state' \in {"READING", "PROCESSING", "BUILDING", "WRITING", "FINISHED"}
              /\ reqState' \in {"REQ_HEADERS", "REQ_BODY", "REQ_CHUNKED", "REQ_DONE",
                               "REQ_ERROR"}
              /\ statusCode' \in {200, 400, 408, 413, 431, 500}
            BY <3>1, <3>2 DEF TypeOK
        <3>6. cut' \in BOOLEAN
            BY <3>1, <3>2 DEF TypeOK
        <3> QED
            BY <3>3, <3>4, <3>5, <3>6 DEF TypeOK
    <2>2. Within' /\ HeaderTaken'
        BY <1>1 DEF IInv, Within, HeaderTaken, TooLong, input
    <2>3. DecoderIdle'
        BY <1>1 DEF IInv, DecoderIdle, TooLong, input
    <2> QED
        BY <2>1, <2>2, <2>3
<1>3. BetweenChunks'
    <2> SUFFICES ASSUME request.framed, state \in {"READING", "PROCESSING"}
                 PROVE  \E k \in Nat : AtChunk(k)'
        BY <1>1 DEF BetweenChunks, input
    <2>1. PICK k \in Nat : AtChunk(k)
        BY DEF IInv, BetweenChunks
    <2>2. AtChunk(k)'
        BY <1>1, <2>1 DEF AtChunk, input
    <2> QED
        BY <2>2
<1>4. CutKnown' /\ BodyIsPayload' /\ LengthReached' /\ LimitsKept'
    BY <1>1 DEF IInv, CutKnown, Arrived, BodyIsPayload, InBody, LengthReached,
       LimitsKept, TooLong, input
<1>5. Decoded' /\ StatusTrue' /\ EndSeen'
    BY <1>1 DEF IInv, Decoded, StatusTrue, WellFormed, TooLong, EndSeen, Arrived, input
<1> QED
    BY <1>2, <1>3, <1>4, <1>5 DEF IInv

(* A slice of what has arrived continues a part that ends where it begins.      *)
LEMMA SliceJoins ==
    ASSUME NEW s \in Seq(Byte), NEW w \in Nat, NEW at \in Nat,
           NEW r0 \in Nat, NEW r1 \in Nat,
           w <= Len(s), at <= r0, r0 <= r1, r1 <= w
    PROVE  SubSeq(s, at + 1, r0) \o SubSeq(SubSeq(s, 1, w), r0 + 1, r1)
             = SubSeq(s, at + 1, r1)
<1>1. SubSeq(SubSeq(s, 0 + 1, w), r0 + 1, r1) = SubSeq(s, (0 + r0) + 1, 0 + r1)
    <2>1. 0 \in Nat /\ 0 + r1 <= w
        OBVIOUS
    <2> QED
        BY <2>1, PartOfPart
<1>2. 0 + 1 = 1 /\ 0 + r0 = r0 /\ 0 + r1 = r1
    OBVIOUS
<1>3. SubSeq(SubSeq(s, 1, w), r0 + 1, r1) = SubSeq(s, r0 + 1, r1)
    BY <1>1, <1>2, Zenon
<1>4. Len(s) \in Nat /\ r1 <= Len(s)
    BY LenProperties
<1>5. SubSeq(s, at + 1, r0) \o SubSeq(s, r0 + 1, r1) = SubSeq(s, at + 1, r1)
    BY <1>4, Join
<1> QED
    BY <1>3, <1>5, Zenon

(* A slice lies between where the last one ended and where it ends itself.     *)
LEMMA SliceEnd ==
    ASSUME TypeOK, TakeSlice
    PROVE  /\ readOffset' \in Nat /\ readOffset <= readOffset'
           /\ readOffset' <= Len(body) /\ readOffset \in Nat /\ Len(body) \in Nat
<1>1. /\ readOffset \in 0..Len(body) /\ Len(body) \in Nat
      /\ ParseByteSlice \in Nat
    BY LimitsAssumption, LenProperties DEF TypeOK
<1>2. readOffset' = Least(readOffset + ParseByteSlice, Len(body))
    BY DEF TakeSlice
<1> QED
    BY <1>1, <1>2 DEF Least

LEMMA TakeSliceStep ==
    ASSUME IInv, TakeSlice
    PROVE  IInv'
<1>1. /\ state = "PROCESSING" /\ reqState = "REQ_CHUNKED" /\ decoding' = TRUE
      /\ chunkBuffer' = chunkBuffer \o SubSeq(body, readOffset + 1, readOffset')
      /\ UNCHANGED <<input, received, state, reqState, statusCode, body,
                     decodedBody, cut>>
      /\ TypeOK /\ Within
    BY DEF IInv, TakeSlice
<1>2. /\ readOffset' \in Nat /\ readOffset <= readOffset'
      /\ readOffset' <= Len(body) /\ readOffset \in Nat /\ Len(body) \in Nat
    BY <1>1, SliceEnd
<1>3. chunkBuffer' \in Seq(Byte)
    <2>1. SubSeq(body, readOffset + 1, readOffset') \in Seq(Byte)
        BY <1>1, <1>2, Part DEF TypeOK
    <2> QED
        BY <1>1, <2>1, ConcatProperties DEF TypeOK
<1>4. TypeOK' /\ Within' /\ HeaderTaken' /\ DecoderIdle'
    BY <1>1, <1>2, <1>3
       DEF IInv, TypeOK, Within, HeaderTaken, DecoderIdle, TooLong, input
<1>5. BetweenChunks'
    <2> SUFFICES ASSUME request.framed PROVE \E k \in Nat : AtChunk(k)'
        BY <1>1 DEF BetweenChunks, input
    <2>1. PICK k \in Nat : AtChunk(k)
        BY <1>1 DEF IInv, BetweenChunks
    <2>2. PICK at \in Nat : request.chunks[k].at = at
        BY <1>1, <2>1, ChunkFields DEF AtChunk
    <2> DEFINE w == Arrived(received)
    <2>3. w \in Nat /\ w <= Len(request.payload)
        <3>1. 0 \in Nat /\ 0 <= request.headerSize + Len(request.payload) - received
            BY <1>1, RequestFacts DEF Within
        <3> QED
            BY <1>1, <3>1, ArrivedFacts
    <2>4. body = SubSeq(request.payload, 1, w)
        BY <1>1 DEF IInv, BodyIsPayload, InBody
    <2> HIDE DEF w
    <2>5. request.payload \in Seq(Byte) /\ Len(request.payload) \in Nat
        BY <1>1, RequestFacts
    <2>6. Len(body) = w
        <3>1. /\ SubSeq(request.payload, 0 + 1, w) = SubSeq(request.payload, 1, w)
              /\ 0 <= w /\ w - 0 = w
            BY <2>3
        <3>2. Len(SubSeq(request.payload, 0 + 1, w)) = IF 0 <= w THEN w - 0 ELSE 0
            BY <2>3, <2>5, Part
        <3> QED
            BY <3>1, <3>2, <2>4
    <2>7. at <= readOffset /\ chunkBuffer = SubSeq(request.payload, at + 1, readOffset)
        BY <2>1, <2>2 DEF AtChunk
    <2>8. SubSeq(request.payload, at + 1, readOffset)
            \o SubSeq(SubSeq(request.payload, 1, w), readOffset + 1, readOffset')
            = SubSeq(request.payload, at + 1, readOffset')
        <3>1. readOffset' <= w
            BY <1>2, <2>6
        <3> QED
            <4> DEFINE s == request.payload
            <4>1. \A r0, r1 \in Nat :
                      at <= r0 /\ r0 <= r1 /\ r1 <= w =>
                        SubSeq(s, at + 1, r0) \o SubSeq(SubSeq(s, 1, w), r0 + 1, r1)
                          = SubSeq(s, at + 1, r1)
                BY <2>3, <2>5, SliceJoins
            <4> HIDE DEF s
            <4>2. SubSeq(s, at + 1, readOffset)
                    \o SubSeq(SubSeq(s, 1, w), readOffset + 1, readOffset')
                    = SubSeq(s, at + 1, readOffset')
                BY <1>2, <2>7, <3>1, <4>1
            <4> QED
                BY <4>2 DEF s
    <2>9. chunkBuffer' = SubSeq(request.payload, at + 1, readOffset')
        BY <1>1, <2>4, <2>7, <2>8, Zenon
    <2>10. at <= readOffset'
        BY <1>2, <2>7
    <2>11. AtChunk(k)'
        BY <1>1, <2>1, <2>2, <2>9, <2>10 DEF AtChunk, input
    <2> QED
        BY <2>11
<1>6. CutKnown' /\ BodyIsPayload' /\ LengthReached' /\ LimitsKept'
    BY <1>1 DEF IInv, CutKnown, Arrived, BodyIsPayload, InBody, LengthReached,
       LimitsKept, TooLong, input
<1>7. Decoded' /\ StatusTrue' /\ EndSeen'
    BY <1>1 DEF IInv, Decoded, StatusTrue, WellFormed, TooLong, EndSeen, Arrived, input
<1> QED
    BY <1>4, <1>5, <1>6, <1>7 DEF IInv

(* While chunks are taken, the decoder stands before one of a well-formed body.*)
LEMMA WhileDecoding ==
    ASSUME IInv, decoding
    PROVE  /\ state = "PROCESSING" /\ reqState = "REQ_CHUNKED"
           /\ request.coding = "chunked"
           /\ readOffset <= Len(request.payload)
           /\ request.framed => \E k \in Nat : AtChunk(k)
<1>1. /\ TypeOK /\ Within
      /\ state = "PROCESSING" /\ reqState = "REQ_CHUNKED"
      /\ request.coding = "chunked"
    BY DEF IInv, DecoderIdle, Within
<1>2. request.framed => \E k \in Nat : AtChunk(k)
    BY <1>1 DEF IInv, BetweenChunks
<1> DEFINE w == Arrived(received)
<1>3. w \in Nat /\ w <= Len(request.payload) /\ 0 <= w
    <2>1. 0 \in Nat /\ 0 <= request.headerSize + Len(request.payload) - received
        BY <1>1, RequestFacts DEF Within
    <2> QED
        BY <1>1, <2>1, ArrivedFacts
<1>4. body = SubSeq(request.payload, 1, w)
    BY <1>1 DEF IInv, BodyIsPayload, InBody
<1> HIDE DEF w
<1>5. request.payload \in Seq(Byte) /\ Len(request.payload) \in Nat
    BY <1>1, RequestFacts
<1>6. Len(SubSeq(request.payload, 0 + 1, w)) = IF 0 <= w THEN w - 0 ELSE 0
    BY <1>3, <1>5, Part
<1>7. Len(body) = w
    BY <1>3, <1>4, <1>6
<1>8. readOffset \in 0..Len(body)
    BY <1>1 DEF TypeOK
<1>9. readOffset <= Len(request.payload)
    BY <1>3, <1>5, <1>7, <1>8
<1> QED
    BY <1>1, <1>2, <1>9

LEMMA ChunkMalformedStep ==
    ASSUME IInv, ChunkMalformed
    PROVE  IInv'
<1>1. /\ decoding /\ ChunkThere /\ ~CrlfAt(chunkBuffer, ChunkEnd)
      /\ decoding' = FALSE /\ TypeOK /\ StatusTrue /\ Within
      /\ UNCHANGED <<input, received, body, readOffset, chunkBuffer, decodedBody, cut>>
      /\ state' = "WRITING" /\ statusCode' \in {400, 500}
      /\ reqState' = reqState \/ reqState' = "REQ_ERROR"
    BY DEF IInv, ChunkMalformed, TriggerError
<1>2. reqState = "REQ_CHUNKED" /\ request.coding = "chunked"
    BY <1>1, WhileDecoding
<1>3. ~request.framed
    <2> SUFFICES ASSUME request.framed PROVE FALSE
        OBVIOUS
    <2>1. PICK k \in Nat : AtChunk(k)
        BY <1>1, WhileDecoding
    <2>2. CrlfAt(chunkBuffer, ChunkEnd)
        BY <1>1, <2>1, WhileDecoding, ChunkFound
    <2> QED
        BY <1>1, <2>2
<1>4. StatusTrue'
    BY <1>1, <1>2, <1>3 DEF StatusTrue, WellFormed, input
<1>5. TypeOK'
    <2>1. decoding' \in BOOLEAN /\ cut' \in BOOLEAN
        BY <1>1 DEF TypeOK
    <2>2. /\ request' \in Requests /\ maxBodySize' \in MaxBodySizes
          /\ filesFail' \in BOOLEAN
          /\ received' \in Nat
          /\ body' \in Seq(Byte) /\ readOffset' \in 0..Len(body')
          /\ chunkBuffer' \in Seq(Byte) /\ decodedBody' \in Seq(Byte)
        BY <1>1 DEF TypeOK, input
    <2>3. /\ state' \in {"READING", "PROCESSING", "BUILDING", "WRITING", "FINISHED"}
          /\ reqState' \in {"REQ_HEADERS", "REQ_BODY", "REQ_CHUNKED", "REQ_DONE",
                           "REQ_ERROR"}
          /\ statusCode' \in {200, 400, 408, 413, 431, 500}
        BY <1>1, <1>2 DEF TypeOK
    <2> QED
        BY <2>1, <2>2, <2>3 DEF TypeOK
<1>6. /\ received' \in Nat /\ received' <= request.headerSize + Len(request.payload)
      /\ state' \in {"WRITING", "FINISHED"} /\ UNCHANGED input
      /\ UNCHANGED <<readOffset, chunkBuffer, decodedBody>>
    BY <1>1 DEF TypeOK, Within
<1> QED
    BY <1>1, <1>4, <1>5, <1>6, Left

LEMMA LastChunkStep ==
    ASSUME IInv, LastChunk
    PROVE  IInv'
<1>1. /\ decoding /\ ChunkThere /\ ChunkSize = 0
      /\ decoding' = FALSE /\ state' = "BUILDING"
      /\ body' = decodedBody /\ readOffset' = 0 /\ chunkBuffer' = <<>>
      /\ UNCHANGED <<input, received, reqState, statusCode, decodedBody, cut>>
      /\ TypeOK /\ Within
    BY DEF IInv, LastChunk
<1>2. state = "PROCESSING" /\ reqState = "REQ_CHUNKED"
    BY <1>1, WhileDecoding
<1>3. TypeOK'
    <2>1. decoding' \in BOOLEAN /\ cut' \in BOOLEAN
        BY <1>1 DEF TypeOK
    <2>2. chunkBuffer' \in Seq(Byte)
        BY <1>1, EmptySeq
    <2>3. /\ request' \in Requests /\ maxBodySize' \in MaxBodySizes
          /\ filesFail' \in BOOLEAN
          /\ received' \in Nat
          /\ body' \in Seq(Byte) /\ decodedBody' \in Seq(Byte)
        BY <1>1 DEF TypeOK, input
    <2>4. readOffset' \in 0..Len(body')
        BY <1>1, <2>3, LenProperties
    <2>5. /\ state' \in {"READING", "PROCESSING", "BUILDING", "WRITING", "FINISHED"}
          /\ reqState' \in {"REQ_HEADERS", "REQ_BODY", "REQ_CHUNKED", "REQ_DONE",
                           "REQ_ERROR"}
          /\ statusCode' \in {200, 400, 408, 413, 431, 500}
        BY <1>1 DEF TypeOK
    <2> QED
        BY <2>1, <2>2, <2>3, <2>4, <2>5 DEF TypeOK
<1>4. Within' /\ HeaderTaken' /\ DecoderIdle' /\ BetweenChunks' /\ CutKnown'
    BY <1>1, <1>2 DEF Within, HeaderTaken, DecoderIdle, BetweenChunks, CutKnown, input
<1>5. BodyIsPayload' /\ LengthReached' /\ EndSeen'
    BY <1>1, <1>2 DEF BodyIsPayload, LengthReached, EndSeen
<1>6. LimitsKept'
    BY <1>1, <1>2 DEF IInv, LimitsKept, DecoderIdle, TooLong, input
<1>7. StatusTrue'
    BY <1>1 DEF IInv, StatusTrue, WellFormed, Arrived, TooLong, input
<1>8. Decoded'
    <2> SUFFICES ASSUME request.framed
                 PROVE  /\ decodedBody = SubSeq(request.data, 1, Len(decodedBody))
                        /\ decodedBody = request.data
        BY <1>1 DEF Decoded, input
    <2>1. PICK k \in Nat : AtChunk(k)
        BY <1>1, WhileDecoding
    <2>2. request.chunks[k].size = 0
        BY <1>1, <2>1, WhileDecoding, ChunkFound
    <2>3. request.chunks[k].from = Len(request.data)
        BY <1>1, <2>1, <2>2, ChunkFields DEF AtChunk
    <2>4. decodedBody = SubSeq(request.data, 1, Len(request.data))
        BY <2>1, <2>3 DEF AtChunk
    <2>5. decodedBody = request.data
        BY <1>1, <2>4, SubSeqFull, RequestFacts
    <2> QED
        BY <2>4, <2>5
<1> QED
    BY <1>3, <1>4, <1>5, <1>6, <1>7, <1>8 DEF IInv

(* Taking a chunk keeps the types, also of a body that is not well-formed.     *)
LEMMA ChunkTypes ==
    ASSUME TypeOK, HasCrlf
    PROVE  DataOfChunk \in Seq(Byte) /\ Erase \in Seq(Byte)
<1>1. /\ chunkBuffer \in Seq(Byte) /\ Len(chunkBuffer) \in Nat
      /\ CrlfPos \in Nat /\ Word \in Nat \ {0}
    BY CrlfPosFacts, LimitsAssumption, LenProperties DEF TypeOK
<1>2. ChunkSize \in Nat
    BY StrtoulType DEF ChunkSize
<1>3. PICK p \in Nat, z \in Nat : CrlfPos = p /\ ChunkSize = z
    BY <1>1, <1>2
<1>4. DataOfChunk \in Seq(Byte)
    <2>1. PICK e \in Nat : /\ e = Least(p + 2 + z, Len(chunkBuffer))
                           /\ e <= Len(chunkBuffer)
        BY <1>1, <1>3 DEF Least
    <2>2. SubSeq(chunkBuffer, (p + 2) + 1, e) \in Seq(Byte)
        BY <1>1, <2>1, Part
    <2>3. (p + 2) + 1 = p + 3
        OBVIOUS
    <2> QED
        BY <1>3, <2>1, <2>2, <2>3 DEF DataOfChunk
<1>5. Erase \in Seq(Byte)
    <2>1. TotalBytesNeeded \in Nat
        BY <1>1, <1>3 DEF TotalBytesNeeded
    <2> QED
        BY <1>1, <2>1, Part DEF Erase
<1> QED
    BY <1>4, <1>5

(* Taking chunk k of a well-formed body appends its data and leaves the buffer *)
(* at chunk k + 1.                                                             *)
LEMMA ChunkTaken ==
    ASSUME TypeOK, request.framed, NEW k \in Nat, AtChunk(k),
           readOffset <= Len(request.payload), ChunkThere, ChunkSize > 0
    PROVE  /\ k + 1 \in 1..Len(request.chunks)
           /\ request.chunks[k + 1].at \in Nat
           /\ request.chunks[k + 1].at <= readOffset
           /\ request.chunks[k + 1].from <= request.chunks[k + 1].at
           /\ Erase = SubSeq(request.payload, request.chunks[k + 1].at + 1, readOffset)
           /\ decodedBody \o DataOfChunk
                = SubSeq(request.data, 1, request.chunks[k + 1].from)
           /\ request.chunks[k + 1].from \in Nat
           /\ request.chunks[k + 1].from <= Len(request.data)
<1> DEFINE s == request.payload
           d == request.data
           b == readOffset
<1>1. PICK at \in Nat, line \in Nat, size \in Nat, from \in Nat :
          /\ request.chunks[k].at = at /\ request.chunks[k].line = line
          /\ request.chunks[k].size = size /\ request.chunks[k].from = from
    BY ChunkFields DEF AtChunk
<1>2. /\ CrlfPos = line /\ ChunkSize = size /\ TotalBytesNeeded = line + size + 4
      /\ Len(chunkBuffer) = b - at /\ at + (line + size + 4) <= b
    BY <1>1, ChunkFound
<1>3. size > 0
    BY <1>2
<1>4. /\ k + 1 \in 1..Len(request.chunks)
      /\ request.chunks[k + 1].at = at + line + size + 4
      /\ request.chunks[k + 1].from = from + size
    BY <1>1, <1>3, ChunkFields DEF AtChunk
<1>5. /\ from + size <= Len(d)
      /\ SubSeq(s, at + line + 3, at + line + 2 + size) = SubSeq(d, from + 1, from + size)
    BY <1>1, ChunkFields DEF AtChunk
<1>6. /\ b \in Nat /\ b <= Len(s) /\ s \in Seq(Byte) /\ Len(s) \in Nat
      /\ d \in Seq(Byte) /\ Len(d) \in Nat
      /\ chunkBuffer = SubSeq(s, at + 1, b)
      /\ decodedBody = SubSeq(d, 1, from)
    <2>1. b \in Nat
        BY DEF TypeOK
    <2>2. s \in Seq(Byte) /\ Len(s) \in Nat /\ d \in Seq(Byte) /\ Len(d) \in Nat
        BY RequestFacts
    <2>3. /\ chunkBuffer = SubSeq(s, request.chunks[k].at + 1, b)
          /\ decodedBody = SubSeq(d, 1, request.chunks[k].from)
        BY DEF AtChunk
    <2> QED
        BY <1>1, <2>1, <2>2, <2>3
<1> HIDE DEF s, d, b
<1>7. DataOfChunk = SubSeq(d, from + 1, from + size)
    <2>1. Least(line + 2 + size, Len(chunkBuffer)) = line + 2 + size
        BY <1>2, <1>6 DEF Least
    <2>2. /\ line + 2 \in Nat /\ line + 2 + size \in Nat /\ line + 2 <= line + 2 + size
          /\ at + (line + 2 + size) <= b
          /\ (line + 2) + 1 = line + 3 /\ (at + (line + 2)) + 1 = at + line + 3
          /\ at + (line + 2 + size) = at + line + 2 + size
        BY <1>2, <1>6
    <2>3. SubSeq(SubSeq(s, at + 1, b), (line + 2) + 1, line + 2 + size)
            = SubSeq(s, (at + (line + 2)) + 1, at + (line + 2 + size))
        BY <1>6, <2>2, PartOfPart
    <2>4. DataOfChunk = SubSeq(chunkBuffer, line + 3, line + 2 + size)
        BY <1>2, <2>1 DEF DataOfChunk
    <2> QED
        BY <1>5, <1>6, <2>2, <2>3, <2>4
<1>8. decodedBody \o DataOfChunk = SubSeq(d, 1, from + size)
    <2>1. 0 \in Nat /\ 0 <= from /\ from <= from + size /\ 0 + 1 = 1
          /\ from + size \in Nat
        OBVIOUS
    <2>2. \A m, n \in Nat :
              m <= n /\ n <= Len(d) =>
                SubSeq(d, 1, m) \o SubSeq(d, m + 1, n) = SubSeq(d, 1, n)
        <3> TAKE m \in Nat, n \in Nat
        <3> HAVE m <= n /\ n <= Len(d)
        <3>1. 0 \in Nat /\ 0 <= m /\ 0 + 1 = 1
            OBVIOUS
        <3>2. SubSeq(d, 0 + 1, m) \o SubSeq(d, m + 1, n) = SubSeq(d, 0 + 1, n)
            BY <1>6, <3>1, Join
        <3> QED
            BY <3>1, <3>2
    <2>3. SubSeq(d, 1, from) \o SubSeq(d, from + 1, from + size)
            = SubSeq(d, 1, from + size)
        BY <1>5, <2>1, <2>2
    <2> QED
        BY <2>3, <1>6, <1>7, <2>1, <2>2
<1>9. Erase = SubSeq(s, (at + line + size + 4) + 1, b)
    <2>1. /\ line + size + 4 \in Nat /\ b - at \in Nat /\ line + size + 4 <= b - at
          /\ at + (b - at) <= b /\ at + (b - at) = b
          /\ at + (line + size + 4) = at + line + size + 4
        BY <1>2, <1>6
    <2>2. SubSeq(SubSeq(s, at + 1, b), (line + size + 4) + 1, b - at)
            = SubSeq(s, (at + (line + size + 4)) + 1, at + (b - at))
        BY <1>6, <2>1, PartOfPart
    <2> QED
        BY <1>2, <1>6, <2>1, <2>2 DEF Erase
<1>10. /\ at + line + size + 4 <= b /\ from + size \in Nat
       /\ at + line + size + 4 \in Nat
    BY <1>2, <1>6
<1>11. from + size <= at + line + size + 4
    <2>1. from <= at
        BY <1>1 DEF AtChunk
    <2> QED
        BY <2>1
<1> QED
    BY <1>4, <1>5, <1>8, <1>9, <1>10, <1>11 DEF s, d, b

(* Files fail while the body is decoded: more of it had come than the memory    *)
(* holds, for the data is never longer than the chunks it came in.             *)
LEMMA DecodingFailsStep ==
    ASSUME IInv, DecodingFails
    PROVE  IInv'
<1>1. /\ filesFail /\ state = "PROCESSING" /\ reqState = "REQ_CHUNKED"
      /\ decoding' = FALSE /\ state' = "WRITING" /\ statusCode' = 500
      /\ UNCHANGED <<input, received, reqState, body, readOffset, chunkBuffer,
                     decodedBody, cut>>
      /\ TypeOK /\ Within
    BY DEF IInv, DecodingFails, TriggerError
<1>2. Len(body) = Arrived(received) /\ InBody /\ request.coding = "chunked"
    BY <1>1, BodyLength DEF InBody, Within
<1>3. ASSUME request.framed
      PROVE  BufferLimit < Len(body)
    <2>1. CASE ~decoding
        BY <2>1 DEF DecodingFails, InFile
    <2>2. CASE decoding
        <3>1. ChunkThere /\ Len(decodedBody \o DataOfChunk) > BufferLimit
            BY <2>2 DEF DecodingFails, InFile
        <3>2. PICK k \in Nat : AtChunk(k)
            BY <1>3, <2>2, WhileDecoding
        <3>3. readOffset <= Len(request.payload)
            BY <2>2, WhileDecoding
        <3>4. /\ readOffset \in Nat /\ readOffset <= Len(body) /\ Len(body) \in Nat
              /\ request.data \in Seq(Byte)
            BY <1>1, LenProperties, RequestFacts DEF TypeOK
        <3>5. \A f \in Nat : f <= Len(request.data)
                 => Len(SubSeq(request.data, 1, f)) = f
            <4> TAKE f \in Nat
            <4> HAVE f <= Len(request.data)
            <4>1. Len(SubSeq(request.data, 0 + 1, f)) = IF 0 <= f THEN f - 0 ELSE 0
                BY <3>4, Part
            <4> QED
                BY <4>1
        <3>6. Len(decodedBody \o DataOfChunk) <= readOffset
            <4>1. CASE ChunkSize > 0
                <5>1. PICK at \in Nat, from \in Nat :
                          /\ at <= readOffset /\ from <= at /\ from <= Len(request.data)
                          /\ decodedBody \o DataOfChunk = SubSeq(request.data, 1, from)
                    BY <1>1, <1>3, <3>1, <3>2, <3>3, <4>1, ChunkTaken
                <5> QED
                    BY <3>4, <3>5, <5>1
            <4>2. CASE ~(ChunkSize > 0)
                <5>1. PICK at \in Nat, from \in Nat :
                          /\ request.chunks[k].at = at /\ request.chunks[k].from = from
                          /\ request.chunks[k].size = ChunkSize
                          /\ request.chunks[k].size \in Nat
                          /\ from + request.chunks[k].size <= Len(request.data)
                    BY <1>1, <1>3, <3>1, <3>2, <3>3, ChunkFields, ChunkFound DEF AtChunk
                <5>2. ChunkSize = 0
                    BY <4>2, <5>1
                <5>3. at <= readOffset /\ from <= at /\ from <= Len(request.data)
                    BY <3>2, <5>1, <5>2 DEF AtChunk
                <5>4. decodedBody = SubSeq(request.data, 1, from)
                    BY <3>2, <5>1 DEF AtChunk
                <5>5. Len(DataOfChunk) = 0 /\ DataOfChunk \in Seq(Byte)
                    <6>1. CrlfPos \in Nat /\ chunkBuffer \in Seq(Byte)
                        BY <1>1, <3>1, CrlfPosFacts DEF ChunkThere, TypeOK
                    <6>2. Len(chunkBuffer) \in Nat
                        BY <6>1, LenProperties
                    <6>3. PICK e \in Nat :
                              /\ e = Least(CrlfPos + 2 + ChunkSize, Len(chunkBuffer))
                              /\ e <= CrlfPos + 2 /\ e <= Len(chunkBuffer)
                        BY <5>2, <6>1, <6>2 DEF Least
                    <6>4. Len(SubSeq(chunkBuffer, (CrlfPos + 2) + 1, e))
                            = IF CrlfPos + 2 <= e THEN e - (CrlfPos + 2) ELSE 0
                        BY <6>1, <6>3, Part
                    <6>5. (CrlfPos + 2) + 1 = CrlfPos + 3
                        BY <6>1
                    <6>6. Len(DataOfChunk) = 0
                        BY <6>1, <6>3, <6>4, <6>5 DEF DataOfChunk
                    <6> QED
                        BY <1>1, <3>1, <6>6, ChunkTypes DEF ChunkThere
                <5>6. Len(decodedBody \o DataOfChunk) = Len(decodedBody) + Len(DataOfChunk)
                    BY <1>1, <5>5, ConcatProperties DEF TypeOK
                <5>7. Len(decodedBody) = from
                    BY <3>5, <5>3, <5>4
                <5> QED
                    BY <3>4, <5>3, <5>5, <5>6, <5>7
            <4> QED
                BY <4>1, <4>2
        <3> QED
            BY <3>1, <3>4, <3>6, LimitsAssumption
    <2> QED
        BY <2>1, <2>2
<1>4. StatusTrue'
    <2>1. WellFormed => request.framed
        BY <1>2 DEF WellFormed
    <2> QED
        BY <1>1, <1>2, <1>3, <2>1 DEF StatusTrue, WellFormed, Arrived, input
<1>5. TypeOK'
    <2>1. /\ request' \in Requests /\ maxBodySize' \in MaxBodySizes
          /\ filesFail' \in BOOLEAN /\ received' \in Nat
          /\ body' \in Seq(Byte) /\ readOffset' \in 0..Len(body')
          /\ chunkBuffer' \in Seq(Byte) /\ decodedBody' \in Seq(Byte)
          /\ decoding' \in BOOLEAN /\ cut' \in BOOLEAN
        BY <1>1 DEF TypeOK, input
    <2>2. /\ state' \in {"READING", "PROCESSING", "BUILDING", "WRITING", "FINISHED"}
          /\ reqState' \in {"REQ_HEADERS", "REQ_BODY", "REQ_CHUNKED", "REQ_DONE",
                           "REQ_ERROR"}
          /\ statusCode' \in {200, 400, 408, 413, 431, 500}
        BY <1>1
    <2> QED
        BY <2>1, <2>2 DEF TypeOK
<1>6. /\ received' \in Nat /\ received' <= request.headerSize + Len(request.payload)
      /\ state' \in {"WRITING", "FINISHED"} /\ UNCHANGED input
      /\ UNCHANGED <<readOffset, chunkBuffer, decodedBody>>
    BY <1>1 DEF TypeOK, Within
<1> QED
    BY <1>1, <1>4, <1>5, <1>6, Left

LEMMA TakeChunkStep ==
    ASSUME IInv, TakeChunk
    PROVE  IInv'
<1>1. /\ decoding /\ ChunkThere /\ ChunkSize > 0
      /\ decodedBody' = decodedBody \o DataOfChunk
      /\ UNCHANGED <<input, received, body, readOffset, cut>>
      /\ TypeOK /\ Within /\ StatusTrue
    BY DEF IInv, TakeChunk
<1>2. /\ state = "PROCESSING" /\ reqState = "REQ_CHUNKED"
      /\ request.coding = "chunked" /\ readOffset <= Len(request.payload)
      /\ request.framed => \E k \in Nat : AtChunk(k)
    BY <1>1, WhileDecoding
<1>3. decodedBody' \in Seq(Byte) /\ Erase \in Seq(Byte)
    <2>1. DataOfChunk \in Seq(Byte) /\ Erase \in Seq(Byte)
        BY <1>1, ChunkTypes DEF ChunkThere
    <2> QED
        BY <1>1, <2>1, ConcatProperties DEF TypeOK
<1>4. /\ request' \in Requests /\ maxBodySize' \in MaxBodySizes
      /\ filesFail' \in BOOLEAN
      /\ received' \in Nat
      /\ body' \in Seq(Byte) /\ readOffset' \in 0..Len(body')
      /\ cut' \in BOOLEAN
      /\ received' <= request.headerSize + Len(request.payload)
    BY <1>1 DEF TypeOK, Within, input
<1>5. ASSUME NEW k \in Nat, AtChunk(k), request.framed
      PROVE  /\ k + 1 \in 1..Len(request.chunks)
             /\ request.chunks[k + 1].at <= readOffset
             /\ request.chunks[k + 1].from <= request.chunks[k + 1].at
             /\ Erase = SubSeq(request.payload, request.chunks[k + 1].at + 1, readOffset)
             /\ decodedBody' = SubSeq(request.data, 1, request.chunks[k + 1].from)
             /\ request.chunks[k + 1].from \in Nat
             /\ request.chunks[k + 1].from <= Len(request.data)
    BY <1>1, <1>2, <1>5, ChunkTaken
<1>6. request.framed =>
        /\ Len(decodedBody') \in Nat /\ Len(decodedBody') <= Len(request.data)
        /\ decodedBody' = SubSeq(request.data, 1, Len(decodedBody'))
    <2> SUFFICES ASSUME request.framed
                 PROVE  /\ Len(decodedBody') \in Nat
                        /\ Len(decodedBody') <= Len(request.data)
                        /\ decodedBody' = SubSeq(request.data, 1, Len(decodedBody'))
        OBVIOUS
    <2>1. PICK k \in Nat : AtChunk(k)
        BY <1>2
    <2>2. PICK f \in Nat : /\ f <= Len(request.data)
                           /\ decodedBody' = SubSeq(request.data, 1, f)
        BY <2>1, <1>5
    <2>3. Len(SubSeq(request.data, 0 + 1, f)) = IF 0 <= f THEN f - 0 ELSE 0
        BY <1>1, <2>2, Part, RequestFacts
    <2>4. Len(decodedBody') = f
        BY <2>2, <2>3
    <2> QED
        BY <2>2, <2>4
<1>7. CASE OverLimit(Len(decodedBody'))
    <2>1. /\ state' = "WRITING" /\ statusCode' = 413 /\ reqState' = "REQ_ERROR"
          /\ decoding' = FALSE /\ chunkBuffer' = chunkBuffer
        BY <1>7 DEF TakeChunk, TriggerError
    <2>2. TypeOK'
        <3>1. /\ state' \in {"READING", "PROCESSING", "BUILDING", "WRITING", "FINISHED"}
              /\ reqState' \in {"REQ_HEADERS", "REQ_BODY", "REQ_CHUNKED", "REQ_DONE",
                               "REQ_ERROR"}
              /\ statusCode' \in {200, 400, 408, 413, 431, 500}
              /\ decoding' \in BOOLEAN
            BY <2>1
        <3>2. chunkBuffer' \in Seq(Byte)
            BY <1>1, <2>1 DEF TypeOK
        <3> QED
            BY <1>3, <1>4, <3>1, <3>2 DEF TypeOK
    <2>3. request.framed => TooLong(Len(request.data))
        <3>1. maxBodySize > 0 /\ Len(decodedBody') > maxBodySize /\ maxBodySize \in Nat
            BY <1>1, <1>7, RequestFacts DEF OverLimit
        <3> QED
            BY <1>1, <1>6, <3>1, RequestFacts DEF TooLong
    <2>4. StatusTrue'
        BY <1>1, <2>1, <2>3 DEF StatusTrue, TooLong, input
    <2>5. state' \in {"WRITING", "FINISHED"} /\ UNCHANGED input
        BY <1>1, <2>1
    <2> QED
        BY <1>4, <2>1, <2>2, <2>4, <2>5, Left
<1>8. CASE ~OverLimit(Len(decodedBody'))
    <2>1. /\ chunkBuffer' = Erase
          /\ UNCHANGED <<state, statusCode, reqState, decoding>>
        BY <1>8 DEF TakeChunk
    <2>2. TypeOK'
        <3>1. /\ state' \in {"READING", "PROCESSING", "BUILDING", "WRITING", "FINISHED"}
              /\ reqState' \in {"REQ_HEADERS", "REQ_BODY", "REQ_CHUNKED", "REQ_DONE",
                               "REQ_ERROR"}
              /\ statusCode' \in {200, 400, 408, 413, 431, 500}
              /\ decoding' \in BOOLEAN
            BY <1>1, <2>1 DEF TypeOK
        <3>2. chunkBuffer' \in Seq(Byte)
            BY <1>3, <2>1
        <3> QED
            BY <1>3, <1>4, <3>1, <3>2 DEF TypeOK
    <2>3. Within' /\ HeaderTaken'
        BY <1>1, <1>2, <2>1 DEF Within, HeaderTaken, input
    <2>4. DecoderIdle'
        BY <1>1, <1>2, <1>8, <2>1 DEF DecoderIdle, OverLimit, TooLong, input
    <2>5. BetweenChunks'
        <3> SUFFICES ASSUME request.framed PROVE \E k \in Nat : AtChunk(k)'
            BY <1>1 DEF BetweenChunks, input
        <3>1. PICK k \in Nat : AtChunk(k)
            BY <1>2
        <3>2. AtChunk(k + 1)'
            BY <1>1, <1>5, <2>1, <3>1 DEF AtChunk, input
        <3> QED
            BY <3>2
    <2>6. CutKnown' /\ BodyIsPayload' /\ LengthReached' /\ EndSeen'
        BY <1>1, <1>2, <2>1 DEF IInv, CutKnown, BodyIsPayload, InBody, LengthReached,
           EndSeen, Arrived, input
    <2>7. LimitsKept' /\ StatusTrue'
        BY <1>1, <1>2, <2>1 DEF IInv, LimitsKept, StatusTrue, WellFormed, Arrived,
           TooLong, input
    <2>8. Decoded'
        BY <1>1, <1>2, <1>6, <2>1 DEF Decoded, input
    <2> QED
        BY <2>2, <2>3, <2>4, <2>5, <2>6, <2>7, <2>8 DEF IInv
<1> QED
    BY <1>7, <1>8

LEMMA StutterStep ==
    ASSUME IInv, UNCHANGED vars
    PROVE  IInv'
<1>1. UNCHANGED <<request, maxBodySize, filesFail, received, state, reqState, statusCode,
                  body, readOffset, chunkBuffer, decodedBody, decoding, cut>>
    BY DEF vars, input, decode
<1>2. TypeOK' /\ Within' /\ HeaderTaken' /\ DecoderIdle'
    BY <1>1 DEF IInv, TypeOK, Within, HeaderTaken, TooLong, DecoderIdle
<1>3. BetweenChunks' /\ CutKnown'
    BY <1>1 DEF IInv, BetweenChunks, AtChunk, CutKnown, Arrived
<1>4. BodyIsPayload' /\ LengthReached' /\ LimitsKept' /\ Decoded' /\ StatusTrue' /\ EndSeen'
    BY <1>1 DEF IInv, BodyIsPayload, InBody, LengthReached, LimitsKept, Decoded,
       StatusTrue, WellFormed, EndSeen, TooLong, Arrived
<1> QED
    BY <1>2, <1>3, <1>4 DEF IInv

LEMMA StepInvariant == IInv /\ [Next]_vars => IInv'
<1> SUFFICES ASSUME IInv, [Next]_vars PROVE IInv'
    OBVIOUS
<1>1. ASSUME NEW n \in 1..MaxHeaderSize,
             \/ HeadersTooLarge(n) \/ HeadersGoOn(n) \/ HeadersRejected(n)
             \/ HeadersAlone(n) \/ HeadersThenBody(n)
             \/ ReadBody(n) \/ ReadChunked(n) \/ StoreFails(n)
      PROVE  IInv'
    BY <1>1, HeadersTooLargeStep, HeadersGoOnStep, HeadersRejectedStep,
       HeadersAloneStep, HeadersThenBodyStep, ReadBodyStep, ReadChunkedStep,
       StoreFailsStep
<1>2. CASE Read
    BY <1>1, <1>2 DEF Read
<1>3. CASE Process
    BY <1>3, HandOnStep, TakeSliceStep, ChunkIncompleteStep, ChunkMalformedStep,
       LastChunkStep, TakeChunkStep, DecodingFailsStep DEF Process
<1>4. CASE RecvEnds \/ Timeout
    BY <1>4, RecvEndsStep, TimeoutStep
<1>5. CASE UNCHANGED vars
    BY <1>5, StutterStep
<1> QED
    BY <1>2, <1>3, <1>4, <1>5 DEF Next

-----------------------------------------------------------------------------
(* The theorems.                                                               *)

(* The inductive invariant of the reader and the decoder.                      *)
THEOREM Invariance == Spec => []IInv
    BY InitInvariant, StepInvariant, PTL DEF Spec

(* Every variable keeps its type, and no chunk size makes the decoder leave    *)
(* its buffers (processBodySlice).                                             *)
THEOREM TypeCorrect == Spec => []TypeOK
<1>1. IInv => TypeOK
    BY DEF IInv
<1> QED
    BY <1>1, Invariance, PTL

(* However recv() cuts a request, the body is the bytes after the header, in   *)
(* order (_readHeaders, _readBody, _readChunked).                              *)
THEOREM BodyIsPayloadHolds == Spec => []BodyIsPayload
<1>1. IInv => BodyIsPayload
    BY DEF IInv
<1> QED
    BY <1>1, Invariance, PTL

(* A body with a length is handed on whole, with less than one recv() more     *)
(* than that (_readHeaders, _readBody).                                        *)
THEOREM LengthReachedHolds == Spec => []LengthReached
<1>1. IInv => LengthReached
    BY DEF IInv
<1> QED
    BY <1>1, Invariance, PTL

(* The data of a well-formed chunked body, of any number of chunks, comes out  *)
(* as it went in, however it is cut into recv()s and slices, in memory or in a *)
(* file (processBodySlice).                                                    *)
THEOREM DecodedHolds == Spec => []Decoded
<1>1. IInv => Decoded
    BY DEF IInv
<1> QED
    BY <1>1, Invariance, PTL

(* MAX_HEADER_SIZE and client_max_body_size hold for every request served, and *)
(* 431, 413, 400 and 500 are for the requests that deserve them, or for files  *)
(* that fail (_readHeaders, _typeOfReq, processBodySlice, and the catch        *)
(* clauses of _handleConnection and process).                                  *)
THEOREM ErrorsMeantHolds == Spec => []ErrorsMeant
<1>1. IInv => ErrorsMeant
    BY DEF IInv, ErrorsMeant
<1> QED
    BY <1>1, Invariance, PTL

(* Only a terminator that recv() cut in two is overlooked (isChunkedDone).     *)
THEOREM EndSeenHolds == Spec => []EndSeen
<1>1. IInv => EndSeen
    BY DEF IInv
<1> QED
    BY <1>1, Invariance, PTL

-----------------------------------------------------------------------------
(* Decoding ends.                                                              *)

(* What is left for the decoder to do: the bytes it has still to read and to    *)
(* take out of its buffer, and to leave the loop.                               *)
Work == 4 * (Len(body) - readOffset) + 2 * Len(chunkBuffer) + (IF decoding THEN 1 ELSE 0)

(* While a chunked body is decoded, every pass of the loop makes that less, for *)
(* any body that a size_t can count, and so does every slice of a well-formed   *)
(* body that is all there, in memory or in a file.                              *)
Advances ==
    state = "PROCESSING" /\ state' = "PROCESSING" =>
        /\ Work \in Nat
        /\ decoding /\ Len(request.payload) < Word => Work' < Work
        /\ request.framed /\ Arrived(received) >= request.whole => Work' < Work

(* The buffer holds bytes that were read, and while a well-formed body is not  *)
(* decoded its end is still to be read, or in the hands of the loop.           *)
Placed ==
    /\ Len(chunkBuffer) <= readOffset
    /\ request.framed /\ state = "PROCESSING" /\ ~decoding
         => readOffset < request.whole

(* The lengths that are counted.                                               *)
LEMMA Lengths ==
    ASSUME TypeOK
    PROVE  /\ Len(body) \in Nat /\ readOffset \in Nat /\ readOffset <= Len(body)
           /\ Len(chunkBuffer) \in Nat
BY LenProperties DEF TypeOK

(* A slice brings bytes, or the loop has nothing to read.                      *)
LEMMA SliceLength ==
    ASSUME TypeOK, TakeSlice
    PROVE  /\ Len(chunkBuffer') = Len(chunkBuffer) + (readOffset' - readOffset)
           /\ readOffset < Len(body) => readOffset < readOffset'
<1>1. /\ readOffset' \in Nat /\ readOffset <= readOffset'
      /\ readOffset' <= Len(body) /\ readOffset \in Nat /\ Len(body) \in Nat
    BY SliceEnd
<1> DEFINE part == SubSeq(body, readOffset + 1, readOffset')
<1>2. part \in Seq(Byte) /\ Len(part) = readOffset' - readOffset
    <2>1. body \in Seq(Byte)
        BY DEF TypeOK
    <2>2. \A a, b \in Nat : a <= b /\ b <= Len(body) =>
              /\ SubSeq(body, a + 1, b) \in Seq(Byte)
              /\ Len(SubSeq(body, a + 1, b)) = b - a
        BY <2>1, Part
    <2> QED
        BY <1>1, <2>2
<1>3. chunkBuffer' = chunkBuffer \o part /\ chunkBuffer \in Seq(Byte)
    BY DEF TakeSlice, TypeOK
<1> HIDE DEF part
<1>4. Len(chunkBuffer \o part) = Len(chunkBuffer) + Len(part)
    BY <1>2, <1>3, ConcatProperties
<1>5. ASSUME readOffset < Len(body)
      PROVE  readOffset < readOffset'
    <2>1. readOffset' = Least(readOffset + ParseByteSlice, Len(body))
        BY DEF TakeSlice
    <2>2. ParseByteSlice \in Nat \ {0}
        BY LimitsAssumption
    <2> QED
        BY <1>1, <1>5, <2>1, <2>2 DEF Least
<1> QED
    BY <1>2, <1>3, <1>4, <1>5

(* What stays in the buffer when a chunk is taken.                             *)
LEMMA EraseLength ==
    ASSUME TypeOK, ChunkThere
    PROVE  /\ TotalBytesNeeded \in Nat
           /\ Len(Erase) = Len(chunkBuffer) - TotalBytesNeeded
<1>1. CrlfPos \in Nat /\ ChunkSize \in Nat
    BY CrlfPosFacts, StrtoulType DEF ChunkThere, ChunkSize
<1>2. TotalBytesNeeded \in Nat
    BY <1>1, LimitsAssumption DEF TotalBytesNeeded
<1>3. /\ TotalBytesNeeded <= Len(chunkBuffer) /\ Len(chunkBuffer) \in Nat
      /\ chunkBuffer \in Seq(Byte)
    BY Lengths DEF ChunkThere, Enough, TypeOK
<1>4. Len(Erase) = IF TotalBytesNeeded <= Len(chunkBuffer)
                   THEN Len(chunkBuffer) - TotalBytesNeeded ELSE 0
    BY <1>2, <1>3, Part DEF Erase
<1> QED
    BY <1>2, <1>3, <1>4

(* A sum that stays below the modulus.                                         *)
LEMMA ModAdds ==
    ASSUME NEW n \in Nat, NEW m \in Nat, NEW w \in Nat \ {0}, (n % w) + m < w
    PROVE  (n + m) % w = (n % w) + m
<1> DEFINE q == n \div w
           r == n % w
           q1 == (n + m) \div w
           r1 == (n + m) % w
<1>1. q \in Int /\ r \in 0..(w - 1) /\ n = w * q + r
    OBVIOUS
<1>2. q1 \in Int /\ r1 \in 0..(w - 1) /\ n + m = w * q1 + r1
    OBVIOUS
<1>3. r + m < w
    OBVIOUS
<1> HIDE DEF q, r, q1, r1
<1>4. w * q1 - w * q = r + m - r1 /\ w * q \in Int /\ w * q1 \in Int
    BY <1>1, <1>2
<1>5. w * q1 - w * q = w * (q1 - q)
    BY <1>1, <1>2
<1>6. ~(q1 - q >= 1)
    <2> SUFFICES ASSUME q1 - q >= 1 PROVE FALSE
        OBVIOUS
    <2>1. w * (q1 - q) >= w
        BY <1>1, <1>2
    <2> QED
        BY <1>1, <1>2, <1>3, <1>4, <1>5, <2>1
<1>7. ~(q - q1 >= 1)
    <2> SUFFICES ASSUME q - q1 >= 1 PROVE FALSE
        OBVIOUS
    <2>1. w * (q - q1) >= w
        BY <1>1, <1>2
    <2>2. w * (q - q1) = w * q - w * q1
        BY <1>1, <1>2
    <2> QED
        BY <1>1, <1>2, <1>3, <1>4, <2>1, <2>2
<1>8. q1 = q
    BY <1>1, <1>2, <1>6, <1>7
<1>9. r1 = r + m
    BY <1>1, <1>2, <1>4, <1>8
<1> QED
    BY <1>9 DEF r, r1

(* A chunk that is taken is not empty: the sum of its parts wraps only when    *)
(* the buffer has as many bytes as a size_t can count.                         *)
LEMMA Taken ==
    ASSUME TypeOK, ChunkThere, CrlfAt(chunkBuffer, ChunkEnd), Len(chunkBuffer) < Word
    PROVE  TotalBytesNeeded > 0
<1>1. CrlfPos \in Nat /\ ChunkSize \in Nat /\ Word \in Nat \ {0}
    BY CrlfPosFacts, StrtoulType, LimitsAssumption DEF ChunkThere, ChunkSize
<1> DEFINE n == CrlfPos + 2 + ChunkSize
<1>2. /\ n \in Nat /\ ChunkEnd = n % Word
      /\ TotalBytesNeeded = (n + 2) % Word
    BY <1>1 DEF ChunkEnd, TotalBytesNeeded
<1>3. ChunkEnd + 2 <= Len(chunkBuffer) /\ Len(chunkBuffer) \in Nat
    BY Lengths DEF CrlfAt
<1> HIDE DEF n
<1>4. ChunkEnd \in 0..(Word - 1) /\ ChunkEnd + 2 < Word
    BY <1>1, <1>2, <1>3
<1>5. (n + 2) % Word = (n % Word) + 2
    BY <1>1, <1>2, <1>4, ModAdds
<1> QED
    BY <1>2, <1>4, <1>5

(* A part of a chunk is in the buffer only while its end is to be read.        *)
LEMMA ChunkMissing ==
    ASSUME IInv, decoding, request.framed, ~ChunkThere
    PROVE  readOffset < request.whole
<1>1. TypeOK /\ readOffset <= Len(request.payload)
    BY WhileDecoding DEF IInv
<1>2. PICK k \in Nat : AtChunk(k)
    BY WhileDecoding
<1>3. PICK at \in Nat, line \in Nat, size \in Nat :
          /\ request.chunks[k].at = at /\ request.chunks[k].line = line
          /\ request.chunks[k].size = size
    BY <1>1, <1>2, ChunkFields DEF AtChunk
<1>4. ~(at + (line + size + 4) <= readOffset)
    BY <1>1, <1>2, <1>3, ChunkInBuffer
<1>5. at + (line + size + 4) <= request.whole
    BY <1>1, <1>2, <1>3, ChunkWithin DEF AtChunk
<1>6. request.whole \in Nat /\ readOffset \in Nat
    BY <1>1, RequestFacts, Lengths
<1> QED
    BY <1>4, <1>5, <1>6

LEMMA PlacedInit == Init => Placed
<1> SUFFICES ASSUME Init PROVE Placed
    OBVIOUS
<1>1. Len(chunkBuffer) = 0 /\ readOffset = 0 /\ state = "READING"
    BY DEF Init
<1> QED
    BY <1>1 DEF Placed

LEMMA PlacedStep ==
    ASSUME IInv, IInv', Placed, [Next]_vars
    PROVE  Placed'
<1>1. TypeOK /\ TypeOK' /\ request.framed \in BOOLEAN
    BY RequestFacts DEF IInv
<1>2. request' = request
    BY DEF Next, Read, RecvEnds, Timeout, Process, HeadersTooLarge, HeadersGoOn,
       HeadersRejected, HeadersAlone, HeadersThenBody, ReadBody, ReadChunked, StoreFails,
       HandOn, TakeSlice, ChunkIncomplete, ChunkMalformed, LastChunk, TakeChunk,
       DecodingFails, input, vars
<1>3. CASE Read
    <2>1. UNCHANGED <<readOffset, chunkBuffer>> /\ state = "READING"
        BY <1>3 DEF Read, HeadersTooLarge, HeadersGoOn, HeadersRejected, HeadersAlone,
           HeadersThenBody, HeadersEnd, ReadBody, ReadChunked, StoreFails, Recv, decode
    <2>2. readOffset = 0 /\ (request.framed => 5 <= request.whole /\ request.whole \in Nat)
        BY <1>1, <2>1, RequestFacts DEF IInv, DecoderIdle
    <2> QED
        BY <1>2, <2>1, <2>2 DEF Placed
<1>4. CASE RecvEnds \/ Timeout \/ HandOn \/ DecodingFails
    <2>1. UNCHANGED <<readOffset, chunkBuffer>> /\ state' # "PROCESSING"
        BY <1>4 DEF RecvEnds, Timeout, TriggerError, HandOn, DecodingFails, decode
    <2> QED
        BY <2>1 DEF Placed
<1>5. CASE TakeSlice
    <2>1. decoding'
        BY <1>5 DEF TakeSlice
    <2>2. Len(chunkBuffer') = Len(chunkBuffer) + (readOffset' - readOffset)
        BY <1>1, <1>5, SliceLength
    <2>3. readOffset' \in Nat /\ readOffset \in Nat /\ Len(chunkBuffer) \in Nat
        BY <1>1, <1>5, SliceEnd, Lengths
    <2>4. Len(chunkBuffer') <= readOffset'
        BY <2>2, <2>3 DEF Placed
    <2> QED
        BY <2>1, <2>4 DEF Placed
<1>6. CASE ChunkIncomplete
    <2>1. UNCHANGED <<readOffset, chunkBuffer>> /\ decoding /\ ~ChunkThere
        BY <1>6 DEF ChunkIncomplete
    <2>2. request.framed => readOffset < request.whole
        BY <2>1, ChunkMissing
    <2> QED
        BY <1>2, <2>1, <2>2 DEF Placed
<1>7. CASE ChunkMalformed
    <2>1. UNCHANGED <<readOffset, chunkBuffer>> /\ state' # "PROCESSING"
        BY <1>7 DEF ChunkMalformed, TriggerError
    <2> QED
        BY <2>1 DEF Placed
<1>8. CASE LastChunk
    <2>1. readOffset' = 0 /\ Len(chunkBuffer') = 0 /\ state' # "PROCESSING"
        BY <1>8 DEF LastChunk
    <2> QED
        BY <2>1 DEF Placed
<1>9. CASE TakeChunk
    <2>1. ChunkThere /\ readOffset' = readOffset
        BY <1>9 DEF TakeChunk
    <2>2. \/ state' = "WRITING" /\ chunkBuffer' = chunkBuffer
          \/ decoding' /\ chunkBuffer' = Erase
        BY <1>9 DEF TakeChunk, TriggerError
    <2>3. /\ Len(Erase) = Len(chunkBuffer) - TotalBytesNeeded
          /\ TotalBytesNeeded \in Nat /\ Len(chunkBuffer) \in Nat /\ readOffset \in Nat
        BY <1>1, <2>1, EraseLength, Lengths
    <2>4. Len(chunkBuffer') <= readOffset'
        BY <2>1, <2>2, <2>3 DEF Placed
    <2> QED
        BY <2>2, <2>4 DEF Placed
<1>10. CASE UNCHANGED vars
    BY <1>10 DEF Placed, vars, input, decode
<1> QED
    BY <1>3, <1>4, <1>5, <1>6, <1>7, <1>8, <1>9, <1>10 DEF Next, Process

LEMMA AdvancesStep ==
    ASSUME IInv, IInv', Placed, Next
    PROVE  Advances
<1> SUFFICES ASSUME state = "PROCESSING", state' = "PROCESSING"
             PROVE  /\ Work \in Nat
                    /\ decoding /\ Len(request.payload) < Word => Work' < Work
                    /\ request.framed /\ Arrived(received) >= request.whole
                         => Work' < Work
    BY DEF Advances
<1>1. TypeOK /\ TypeOK' /\ request.framed \in BOOLEAN
    BY RequestFacts DEF IInv
<1> DEFINE unread == Len(body) - readOffset
           buffered == Len(chunkBuffer)
<1>2. unread \in Nat /\ buffered \in Nat /\ readOffset \in Nat /\ Len(body) \in Nat
    BY <1>1, Lengths
<1>3. Work = 4 * unread + 2 * buffered + (IF decoding THEN 1 ELSE 0)
    BY DEF Work
<1>4. Work' = 4 * unread' + 2 * buffered' + (IF decoding' THEN 1 ELSE 0)
    BY DEF Work
<1>5. Work \in Nat
    BY <1>2, <1>3
<1>6. TakeSlice \/ ChunkIncomplete \/ TakeChunk
    BY DEF Next, Read, RecvEnds, Timeout, TriggerError, Process, HeadersTooLarge,
       HeadersGoOn, HeadersRejected, HeadersAlone, HeadersThenBody, HeadersEnd, ReadBody,
       ReadChunked, StoreFails, Recv, HandOn, ChunkMalformed, LastChunk, DecodingFails
<1>7. CASE TakeSlice
    <2>1. ~decoding /\ reqState = "REQ_CHUNKED" /\ body' = body
        BY <1>7 DEF TakeSlice
    <2>2. ASSUME request.framed, Arrived(received) >= request.whole
          PROVE  Work' < Work
        <3>1. readOffset < request.whole /\ request.whole \in Nat
            BY <1>1, <2>1, <2>2, RequestFacts DEF Placed
        <3>2. readOffset < Len(body)
            BY <1>2, <2>1, <2>2, <3>1, BodyLength DEF InBody
        <3>3. /\ readOffset < readOffset' /\ readOffset' \in Nat
              /\ buffered' = buffered + (readOffset' - readOffset)
            BY <1>1, <1>7, <2>2, <3>2, SliceLength, SliceEnd
        <3> DEFINE more == readOffset' - readOffset
        <3>4. more \in Nat \ {0}
            <4>1. \A x, y \in Nat : x < y => y - x \in Nat \ {0}
                OBVIOUS
            <4> QED
                BY <1>2, <3>3, <4>1
        <3>5. buffered' = buffered + more
            BY <3>3
        <3>6. unread' = unread - more
            BY <1>2, <2>1, <3>3
        <3> HIDE DEF unread, buffered, more
        <3>7. Work = 4 * unread + 2 * buffered
            BY <1>2, <1>3, <2>1
        <3>8. Work' \in Int /\ Work' <= 4 * (unread - more) + 2 * (buffered + more) + 1
            BY <1>2, <1>4, <3>4, <3>5, <3>6
        <3> QED
            BY <1>2, <3>4, <3>7, <3>8
    <2> QED
        BY <1>5, <2>1, <2>2
<1>8. CASE ChunkIncomplete
    <2>1. decoding /\ ~decoding' /\ unread' = unread /\ buffered' = buffered
        BY <1>8 DEF ChunkIncomplete
    <2> HIDE DEF unread, buffered
    <2>2. Work' < Work
        BY <1>2, <1>3, <1>4, <2>1
    <2> QED
        BY <1>5, <2>2
<1>9. CASE TakeChunk
    <2>1. /\ decoding /\ decoding' /\ ChunkThere /\ CrlfAt(chunkBuffer, ChunkEnd)
          /\ chunkBuffer' = Erase /\ unread' = unread
        BY <1>9 DEF TakeChunk, TriggerError
    <2>2. /\ TotalBytesNeeded \in Nat
          /\ buffered' = buffered - TotalBytesNeeded
        BY <1>1, <2>1, EraseLength
    <2>3. ASSUME TotalBytesNeeded > 0 PROVE Work' < Work
        <3> HIDE DEF unread, buffered
        <3> QED
            BY <1>2, <1>3, <1>4, <2>1, <2>2, <2>3
    <2>4. ASSUME Len(request.payload) < Word PROVE TotalBytesNeeded > 0
        <3>1. Len(body) <= Len(request.payload) /\ Len(request.payload) \in Nat
            BY <1>1, <2>1, WhileDecoding, BodyLength, RequestFacts DEF InBody
        <3>2. Len(chunkBuffer) < Word
            BY <1>1, <2>4, <3>1, Lengths, LimitsAssumption DEF Placed
        <3> QED
            BY <1>1, <2>1, <3>2, Taken
    <2>5. ASSUME request.framed PROVE TotalBytesNeeded > 0
        <3>1. PICK k \in Nat : AtChunk(k)
            BY <2>1, <2>5, WhileDecoding
        <3>2. TotalBytesNeeded = request.chunks[k].line + request.chunks[k].size + 4
            BY <1>1, <2>1, <2>5, <3>1, ChunkFound, WhileDecoding
        <3>3. request.chunks[k].line \in Nat /\ request.chunks[k].size \in Nat
            BY <1>1, <2>5, <3>1, ChunkFields DEF AtChunk
        <3> QED
            BY <3>2, <3>3
    <2> QED
        BY <1>5, <2>3, <2>4, <2>5
<1> QED
    BY <1>6, <1>7, <1>8, <1>9

(* The loop of processBodySlice ends for every body, malformed or not, and a   *)
(* well-formed one is decoded after finitely many slices: the part of          *)
(* DecodingEnds that needs no fairness.                                        *)
THEOREM EverySliceAdvances == Spec => [][Advances]_vars
<1>1. IInv /\ IInv' /\ Placed /\ [Next]_vars => Placed'
    BY PlacedStep
<1>2. IInv /\ IInv' /\ Placed /\ [Next]_vars => [Advances]_vars
    BY AdvancesStep
<1> QED
    BY <1>1, <1>2, PlacedInit, Invariance, PTL DEF Spec
=============================================================================
