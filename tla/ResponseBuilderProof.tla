--------------------------- MODULE ResponseBuilderProof ---------------------------
(* Theorems about ResponseBuilder, for any clients, requests, servers and      *)
(* sizes.  Most steps leave the files alone: Quiet says what they keep; the    *)
(* slices of an upload have one lemma, SliceCases.                             *)
EXTENDS ResponseBuilder, SequenceTheorems, WellFoundedInduction, TLAPS

(* A request that no handler has seen has opened nothing.                      *)
Fresh == \A c \in Client : Building(c) => dest[c] = Closed

(* What an upload has open is what it opened.                                  *)
Opened == \A c \in Client : postOutFd[c] # Closed => postOutFd[c] = dest[c]

(* An upload writes no more than its body.                                     *)
WithinBody == \A c \in Client : postWritePos[c] <= request[c].size

(* Nobody else writes into the file of an upload that is not shared.           *)
Alone ==
    \A c, d \in Client :
        c # d /\ dest[c] # Closed /\ c \notin shared => postOutFd[d] # dest[c]

(* Such an upload goes on at the end of its file.                              *)
AtEnd ==
    \A c \in Client :
        postOutFd[c] # Closed /\ c \notin shared
            => Len(content[dest[c]]) = postWritePos[c]

(* No status is set before the answer.                                         *)
Unanswered == \A c \in Client : state[c] = "PROCESSING" => statusCode[c] = 200

Writing ==
    /\ UploadKept /\ BytesInPlace /\ Fresh /\ Opened
    /\ WithinBody /\ Alone /\ AtEnd /\ Unanswered

IInv == TypeOK /\ DescriptorsClosed /\ Writing

-----------------------------------------------------------------------------
(* The constants.                                                              *)

LEMMA RequestFacts ==
    ASSUME TypeOK, NEW c \in Client
    PROVE  /\ request[c].size \in Nat /\ request[c].statusCode \in Nat
           /\ request[c].method \in Methods /\ request[c].server \in DOMAIN Servers
<1>1. request[c] \in Requests
    BY DEF TypeOK
<1> QED
    BY <1>1, RequestsAssumption

LEMMA ReturnCodes ==
    ASSUME TypeOK, NEW c \in Client, Routed(c)
    PROVE  LocationOf(c).returnCode \in Nat
<1>1. request[c].server \in DOMAIN Servers
    BY RequestFacts
<1> DEFINE Loc == [path : Path, methods : SUBSET Methods,
                   returnCode : Nat, cgi : SUBSET Path, root : Path,
                   defaultPage : Path, autoIndex : BOOLEAN, storage : Path]
<1>2. LocationsOf(c) \in Seq(Loc)
    BY <1>1, LocationsAssumption DEF LocationsOf
<1>3. Route[request[c]] \in 1..Len(LocationsOf(c))
    BY DEF Routed
<1>4. LocationOf(c) \in Loc
    <2> HIDE DEF Loc
    <2> QED
        BY <1>2, <1>3, ElementOfSeq DEF LocationOf
<1> QED
    BY <1>4

LEMMA NoInode == Closed \notin Inode /\ Client \subseteq Inode
BY NamesAssumption DEF Inode

-----------------------------------------------------------------------------
(* What a write makes of a file.                                               *)

LEMMA Written ==
    ASSUME NEW c \in Client, NEW old \in Seq(Byte), NEW pos \in Nat, NEW n \in Nat
    PROVE  /\ WriteAt(old, pos, Data(c, pos, n)) \in Seq(Byte)
           /\ Len(WriteAt(old, pos, Data(c, pos, n)))
                = IF Len(old) > pos + n THEN Len(old) ELSE pos + n
           /\ \A k \in 1..Len(WriteAt(old, pos, Data(c, pos, n))) :
                \/ WriteAt(old, pos, Data(c, pos, n))[k] \in {<<c, k>>, Zero}
                \/ /\ k \in 1..Len(old)
                   /\ WriteAt(old, pos, Data(c, pos, n))[k] = old[k]
<1> DEFINE end == IF Len(old) > pos + n THEN Len(old) ELSE pos + n
           data == Data(c, pos, n)
           new == [k \in 1..end |->
                     IF k \in (pos + 1)..(pos + n) THEN data[k - pos]
                     ELSE IF k <= Len(old) THEN old[k] ELSE Zero]
<1>1. Len(data) = n
    BY DEF Data
<1>2. WriteAt(old, pos, data) = new
    BY <1>1 DEF WriteAt
<1>3. Len(old) \in Nat /\ end \in Nat
    OBVIOUS
<1>4. ASSUME NEW k \in 1..end
      PROVE  new[k] \in {<<c, k>>, Zero} \/ (k \in 1..Len(old) /\ new[k] = old[k])
    <2>1. CASE k \in (pos + 1)..(pos + n)
        <3>1. k - pos \in 1..n /\ pos + (k - pos) = k
            BY <2>1
        <3>2. data[k - pos] = <<c, k>>
            BY <3>1 DEF Data
        <3> QED
            BY <2>1, <3>2
    <2>2. CASE k \notin (pos + 1)..(pos + n) /\ k <= Len(old)
        BY <2>2
    <2>3. CASE k \notin (pos + 1)..(pos + n) /\ ~(k <= Len(old))
        BY <2>3
    <2> QED
        BY <2>1, <2>2, <2>3
<1>5. ASSUME NEW k \in 1..end
      PROVE  new[k] \in Byte
    <2>1. CASE new[k] \in {<<c, k>>, Zero}
        BY <2>1 DEF Byte
    <2>2. CASE k \in 1..Len(old) /\ new[k] = old[k]
        BY <2>2, ElementOfSeq
    <2> QED
        BY <1>4, <2>1, <2>2
<1>6. new \in Seq(Byte) /\ Len(new) = end
    <2>1. new \in [1..end -> Byte]
        BY <1>5
    <2> HIDE DEF new
    <2>2. new \in Seq(Byte)
        BY <2>1, <1>3
    <2> QED
        BY <2>1, <2>2, <1>3, LenProperties
<1> HIDE DEF new, data
<1> QED
    BY <1>2, <1>4, <1>6 DEF data

LEMMA Continued ==
    ASSUME NEW c \in Client, NEW pos \in Nat, NEW n \in Nat
    PROVE  WriteAt(Data(c, 0, pos), pos, Data(c, pos, n)) = Data(c, 0, pos + n)
<1> DEFINE old == Data(c, 0, pos)
           data == Data(c, pos, n)
<1>1. Len(old) = pos /\ Len(data) = n
    BY DEF Data
<1>2. WriteAt(old, pos, data) =
        [k \in 1..(pos + n) |->
           IF k \in (pos + 1)..(pos + n) THEN data[k - pos]
           ELSE IF k <= pos THEN old[k] ELSE Zero]
    BY <1>1 DEF WriteAt
<1>3. ASSUME NEW k \in 1..(pos + n)
      PROVE  (IF k \in (pos + 1)..(pos + n) THEN data[k - pos]
              ELSE IF k <= pos THEN old[k] ELSE Zero) = <<c, 0 + k>>
    <2>1. CASE k <= pos
        BY <2>1 DEF Data
    <2>2. CASE k > pos
        <3>1. k - pos \in 1..n /\ pos + (k - pos) = 0 + k
            BY <2>2
        <3>2. data[k - pos] = <<c, 0 + k>>
            BY <3>1 DEF Data
        <3> QED
            BY <2>2, <3>2
    <2> QED
        BY <2>1, <2>2
<1> HIDE DEF old, data
<1> QED
    BY <1>2, <1>3 DEF Data, old, data

-----------------------------------------------------------------------------
(* A slice of an upload.                                                       *)

Wrote(c, i, pos, base, n) ==
    content' = [base EXCEPT ![i] = WriteAt(base[i], pos, Data(c, pos, n))]

GoesOn(c, i, pos, base, n) ==
    /\ Wrote(c, i, pos, base, n)
    /\ postWritePos' = [postWritePos EXCEPT ![c] = pos + n]
    /\ buildPhase' = [buildPhase EXCEPT ![c] = "BUILD_POST_WRITING"]
    /\ postOutFd' = [postOutFd EXCEPT ![c] = i]
    /\ UNCHANGED <<state, statusCode, fileFd>>

Done(c, i, pos, base, n) ==
    /\ Wrote(c, i, pos, base, n) /\ pos + n = request[c].size
    /\ postWritePos' = [postWritePos EXCEPT ![c] = pos + n]
    /\ buildPhase' = [buildPhase EXCEPT ![c] = "BUILD_DONE"]
    /\ postOutFd' = [postOutFd EXCEPT ![c] = Closed]
    /\ Answer(c, 201) /\ UNCHANGED fileFd

Failed(c, i, pos, base) ==
    /\ \E code \in {500, 502} : BuildErrorPage(c, code)
    /\ postWritePos' = [postWritePos EXCEPT ![c] = pos]
    /\ \/ content' = base
       \/ \E n \in 0..(request[c].size - pos) : Wrote(c, i, pos, base, n)

LEMMA SliceCases ==
    ASSUME TypeOK, NEW c \in Client, NEW i, NEW pos \in Nat, NEW base,
           pos <= request[c].size, Slice(c, i, pos, base)
    PROVE  \/ \E n \in 0..(request[c].size - pos) :
                GoesOn(c, i, pos, base, n) \/ Done(c, i, pos, base, n)
           \/ Failed(c, i, pos, base)
<1>1. request[c].size \in Nat
    BY RequestFacts
<1>2. \A n \in Lengths(c, pos) : n \in 0..(request[c].size - pos)
    BY <1>1, SizesAssumption DEF Lengths, Least
<1>3. ASSUME SliceWrites(c, i, pos, base)
      PROVE  \E n \in 0..(request[c].size - pos) :
                GoesOn(c, i, pos, base, n) \/ Done(c, i, pos, base, n)
    <2>1. PICK n \in Lengths(c, pos) :
            /\ content' = [base EXCEPT ![i] = WriteAt(@, pos, Data(c, pos, n))]
            /\ postWritePos' = [postWritePos EXCEPT ![c] = pos + n]
            /\ IF AllWritten(c, pos + n)
               THEN /\ Answer(c, 201)
                    /\ buildPhase' = [buildPhase EXCEPT ![c] = "BUILD_DONE"]
                    /\ postOutFd' = [postOutFd EXCEPT ![c] = Closed]
               ELSE /\ buildPhase' = [buildPhase EXCEPT ![c] = "BUILD_POST_WRITING"]
                    /\ postOutFd' = [postOutFd EXCEPT ![c] = i]
                    /\ UNCHANGED <<state, statusCode>>
            /\ UNCHANGED fileFd
        BY <1>3 DEF SliceWrites
    <2>2. n \in 0..(request[c].size - pos)
        BY <1>2
    <2>3. Wrote(c, i, pos, base, n)
        BY <2>1 DEF Wrote
    <2>4. CASE AllWritten(c, pos + n)
        <3>1. pos + n = request[c].size
            BY <1>1, <2>2, <2>4 DEF AllWritten
        <3> QED
            BY <2>1, <2>2, <2>3, <2>4, <3>1 DEF Done
    <2>5. CASE ~AllWritten(c, pos + n)
        BY <2>1, <2>2, <2>3, <2>5 DEF GoesOn
    <2> QED
        BY <2>4, <2>5
<1>4. ASSUME SliceFails(c, i, pos, base)
      PROVE  Failed(c, i, pos, base)
    <2>1. \E code \in {500, 502} : BuildErrorPage(c, code)
        BY <1>4 DEF SliceFails
    <2>2. postWritePos' = [postWritePos EXCEPT ![c] = pos]
        BY <1>4 DEF SliceFails
    <2>3. \/ content' = base
          \/ \E m \in Lengths(c, pos) : \E n \in 1..(m - 1) : Wrote(c, i, pos, base, n)
          \/ \E n \in Lengths(c, pos) : Wrote(c, i, pos, base, n)
        BY <1>4 DEF SliceFails, Wrote
    <2>4. \A m \in Lengths(c, pos) : \A n \in 1..(m - 1) :
            n \in 0..(request[c].size - pos)
        BY <1>1, <1>2
    <2> QED
        BY <1>2, <2>1, <2>2, <2>3, <2>4 DEF Failed
<1> QED
    BY <1>3, <1>4 DEF Slice

(* What a slice does to the file.                                              *)
Filled(c, i, base) ==
    /\ content' \in [Inode -> Seq(Byte)]
    /\ \A j \in Inode \ {i} : content'[j] = base[j]
    /\ \A k \in 1..Len(content'[i]) :
         \/ content'[i][k] \in {<<c, k>>, Zero}
         \/ k \in 1..Len(base[i]) /\ content'[i][k] = base[i][k]

LEMMA WroteFills ==
    ASSUME NEW c \in Client, NEW i \in Inode, NEW pos \in Nat, NEW n \in Nat,
           NEW base \in [Inode -> Seq(Byte)], Wrote(c, i, pos, base, n)
    PROVE  /\ Filled(c, i, base)
           /\ base[i] = Data(c, 0, pos) => content'[i] = Data(c, 0, pos + n)
<1> DEFINE new == WriteAt(base[i], pos, Data(c, pos, n))
<1>1. base[i] \in Seq(Byte)
    OBVIOUS
<1>2. /\ new \in Seq(Byte)
      /\ \A k \in 1..Len(new) :
           \/ new[k] \in {<<c, k>>, Zero}
           \/ k \in 1..Len(base[i]) /\ new[k] = base[i][k]
    BY <1>1, Written
<1>3. base[i] = Data(c, 0, pos) => new = Data(c, 0, pos + n)
    BY Continued
<1>4. content' = [base EXCEPT ![i] = new]
    BY DEF Wrote
<1> HIDE DEF new
<1>5. content'[i] = new
    BY <1>4
<1>6. \A j \in Inode \ {i} : content'[j] = base[j]
    BY <1>4
<1>7. content' \in [Inode -> Seq(Byte)]
    BY <1>2, <1>4
<1> QED
    BY <1>2, <1>3, <1>5, <1>6, <1>7 DEF Filled

(* What it does to the client.                                                 *)
Moved(c, i) ==
    /\ state' \in [Client -> {"PROCESSING", "WAITING_FOR_CGI", "WRITING", "FINISHED"}]
    /\ buildPhase' \in [Client -> {"BUILD_IDLE", "BUILD_POST_WRITING",
                                   "BUILD_CGI_RUNNING", "BUILD_DONE"}]
    /\ statusCode' \in [Client -> Nat]
    /\ fileFd' \in [Client -> Inode \cup {Closed}]
    /\ postOutFd' \in [Client -> Inode \cup {Closed}]
    /\ postWritePos' \in [Client -> Nat]
    /\ \A d \in Client \ {c} :
         /\ state'[d] = state[d] /\ buildPhase'[d] = buildPhase[d]
         /\ statusCode'[d] = statusCode[d] /\ fileFd'[d] = fileFd[d]
         /\ postOutFd'[d] = postOutFd[d] /\ postWritePos'[d] = postWritePos[d]
    /\ postWritePos'[c] <= request[c].size
    /\ fileFd'[c] = Closed
    /\ postOutFd'[c] \in {i, Closed}
    /\ postOutFd'[c] # Closed
         <=> state'[c] = "PROCESSING" /\ buildPhase'[c] = "BUILD_POST_WRITING"
    /\ buildPhase'[c] # "BUILD_IDLE"
    /\ state'[c] = "PROCESSING" => statusCode'[c] = 200

LEMMA SliceMoves ==
    ASSUME TypeOK, DescriptorsClosed, Unanswered, NEW c \in Client,
           state[c] = "PROCESSING", NEW i \in Inode, NEW pos \in Nat, NEW base,
           pos <= request[c].size, Slice(c, i, pos, base)
    PROVE  Moved(c, i)
<1>1. /\ request[c].size \in Nat /\ fileFd[c] = Closed /\ statusCode[c] = 200
      /\ i # Closed
    BY RequestFacts, NoInode DEF DescriptorsClosed, Unanswered
<1>2. \A n \in 0..(request[c].size - pos) :
        pos + n \in Nat /\ pos + n <= request[c].size
    BY <1>1
<1>3. ASSUME NEW n \in 0..(request[c].size - pos), GoesOn(c, i, pos, base, n)
      PROVE  Moved(c, i)
    BY <1>1, <1>2, <1>3 DEF GoesOn, Moved, TypeOK
<1>4. ASSUME NEW n \in 0..(request[c].size - pos), Done(c, i, pos, base, n)
      PROVE  Moved(c, i)
    BY <1>1, <1>2, <1>4 DEF Done, Answer, Moved, TypeOK
<1>5. ASSUME Failed(c, i, pos, base)
      PROVE  Moved(c, i)
    BY <1>1, <1>5 DEF Failed, BuildErrorPage, Answer, Moved, TypeOK
<1> QED
    BY <1>3, <1>4, <1>5, SliceCases

(* The file of an upload that began at its start and goes on at its end.       *)
OwnFile(c, i) ==
    /\ content'[i] = Data(c, 0, Len(content'[i]))
    /\ Len(content'[i]) <= request[c].size
    /\ statusCode'[c] = 201 => Len(content'[i]) = request[c].size
    /\ postOutFd'[c] # Closed => Len(content'[i]) = postWritePos'[c]

LEMMA DataLength == \A c \in Client, n \in Nat : Len(Data(c, 0, n)) = n
BY DEF Data

LEMMA SliceFills ==
    ASSUME TypeOK, Unanswered, NEW c \in Client, state[c] = "PROCESSING",
           NEW i \in Inode, NEW pos \in Nat, NEW base \in [Inode -> Seq(Byte)],
           pos <= request[c].size, Slice(c, i, pos, base)
    PROVE  /\ Filled(c, i, base)
           /\ base[i] = Data(c, 0, pos) => OwnFile(c, i)
<1>1. request[c].size \in Nat /\ statusCode[c] = 200
    BY RequestFacts DEF Unanswered
<1>2. ASSUME NEW n \in 0..(request[c].size - pos), Wrote(c, i, pos, base, n)
      PROVE  /\ Filled(c, i, base)
             /\ base[i] = Data(c, 0, pos) =>
                  /\ content'[i] = Data(c, 0, Len(content'[i]))
                  /\ Len(content'[i]) = pos + n /\ pos + n <= request[c].size
    <2>1. n \in Nat /\ pos + n \in Nat /\ pos + n <= request[c].size
        BY <1>1
    <2>2. /\ Filled(c, i, base)
          /\ base[i] = Data(c, 0, pos) => content'[i] = Data(c, 0, pos + n)
        BY <1>2, <2>1, WroteFills
    <2> QED
        BY <2>1, <2>2, DataLength
<1>3. ASSUME NEW n \in 0..(request[c].size - pos), GoesOn(c, i, pos, base, n)
      PROVE  Filled(c, i, base) /\ (base[i] = Data(c, 0, pos) => OwnFile(c, i))
    <2>1. Wrote(c, i, pos, base, n) /\ postWritePos'[c] = pos + n
            /\ statusCode'[c] = 200
        BY <1>1, <1>3 DEF GoesOn, TypeOK
    <2> QED
        BY <1>2, <2>1 DEF OwnFile
<1>4. ASSUME NEW n \in 0..(request[c].size - pos), Done(c, i, pos, base, n)
      PROVE  Filled(c, i, base) /\ (base[i] = Data(c, 0, pos) => OwnFile(c, i))
    <2>1. Wrote(c, i, pos, base, n) /\ postOutFd'[c] = Closed
            /\ pos + n = request[c].size
        BY <1>4 DEF Done, TypeOK
    <2> QED
        BY <1>2, <2>1 DEF OwnFile
<1>5. ASSUME Failed(c, i, pos, base)
      PROVE  Filled(c, i, base) /\ (base[i] = Data(c, 0, pos) => OwnFile(c, i))
    <2>1. statusCode'[c] \in {500, 502} /\ postOutFd'[c] = Closed
        BY <1>5 DEF Failed, BuildErrorPage, Answer, TypeOK
    <2>2. CASE content' = base
        <3>1. base[i] = Data(c, 0, pos) => Len(base[i]) = pos
            BY DataLength
        <3>2. Filled(c, i, base)
            BY <2>2 DEF Filled
        <3> QED
            BY <1>1, <2>1, <2>2, <3>1, <3>2 DEF OwnFile
    <2>3. CASE \E n \in 0..(request[c].size - pos) : Wrote(c, i, pos, base, n)
        <3>1. PICK n \in 0..(request[c].size - pos) : Wrote(c, i, pos, base, n)
            BY <2>3
        <3> QED
            BY <1>2, <2>1, <3>1 DEF OwnFile
    <2> QED
        BY <1>5, <2>2, <2>3 DEF Failed
<1> QED
    BY <1>3, <1>4, <1>5, SliceCases

(* What the two handlers that write have in common: the files before the write *)
(* are base, those of others are as they were, and whoever is not counted as   *)
(* sharing has its file for itself.                                            *)
Writes(c, i, pos, base) ==
    /\ dest' = [dest EXCEPT ![c] = i]
    /\ dest[c] \in {Closed, i}
    /\ \A j \in Inode \ {i} : base[j] = content[j]
    /\ base[i] \in {<<>>, content[i]}
    /\ \A d \in Client \ {c} : d \notin shared' => d \notin shared /\ dest[d] # i
    /\ c \notin shared' => /\ base[i] = Data(c, 0, pos)
                          /\ \A d \in Client \ {c} : postOutFd[d] # i
    /\ \A d \in Client : d \notin shared' \cup removed' /\ dest'[d] # Closed
         => \E p \in DOMAIN files' : files'[p] = dest'[d]

LEMMA SliceKeeps ==
    ASSUME IInv, NEW c \in Client, NEW i \in Inode, NEW pos, NEW base,
           Moved(c, i), Filled(c, i, base), base[i] = Data(c, 0, pos) => OwnFile(c, i),
           Writes(c, i, pos, base), UNCHANGED request
    PROVE  Writing'
<1> USE NoInode
<1>1. dest' \in [Client -> Inode \cup {Closed}] /\ dest'[c] = i
        /\ \A d \in Client \ {c} : dest'[d] = dest[d]
    BY DEF IInv, TypeOK, Writes
<1>10. \A j \in Inode \ {i} : content'[j] = content[j]
    BY DEF Writes, Filled
<1>0. \A d \in Client \ {c} : /\ statusCode'[d] = statusCode[d]
                                /\ postWritePos'[d] = postWritePos[d]
                                /\ postOutFd'[d] = postOutFd[d]
    BY DEF Moved
<1>2. UploadKept'
    <2> SUFFICES ASSUME NEW d \in Client, dest'[d] # Closed, d \notin shared'
                 PROVE  /\ Len(content'[dest'[d]]) <= request[d].size
                        /\ content'[dest'[d]] = Data(d, 0, Len(content'[dest'[d]]))
                        /\ statusCode'[d] = 201 =>
                             Len(content'[dest'[d]]) = request[d].size
                        /\ d \notin removed' =>
                             \E p \in DOMAIN files' : files'[p] = dest'[d]
        BY Zenon DEF UploadKept, Data
    <2>1. d \notin removed' => \E p \in DOMAIN files' : files'[p] = dest'[d]
        BY DEF Writes
    <2>2. CASE d = c
        <3>1. OwnFile(c, i)
            BY <2>2 DEF Writes
        <3> QED
            BY <2>1, <2>2, <3>1, <1>1 DEF OwnFile
    <2>3. CASE d # c
        <3>1. d \notin shared /\ dest[d] # i /\ dest'[d] = dest[d] /\ dest[d] \in Inode
            BY <2>3, <1>1 DEF Writes, IInv, TypeOK
        <3>2. content'[dest[d]] = content[dest[d]] /\ statusCode'[d] = statusCode[d]
            BY <2>3, <3>1, <1>0, <1>10
        <3>3. /\ Len(content[dest[d]]) <= request[d].size
              /\ content[dest[d]] = Data(d, 0, Len(content[dest[d]]))
              /\ statusCode[d] = 201 => Len(content[dest[d]]) = request[d].size
            BY <3>1 DEF IInv, Writing, UploadKept
        <3> QED
            BY <2>1, <3>1, <3>2, <3>3
    <2> QED
        BY <2>2, <2>3
<1>3. BytesInPlace'
    <2> SUFFICES ASSUME NEW j \in Inode, NEW k \in 1..Len(content'[j])
                 PROVE  \/ content'[j][k] \in {Zero, Old}
                        \/ \E d \in Client : dest'[d] = j /\ content'[j][k] = <<d, k>>
        BY DEF BytesInPlace
    <2>1. ASSUME k \in 1..Len(content[j]), content'[j][k] = content[j][k]
          PROVE  \/ content'[j][k] \in {Zero, Old}
                 \/ \E d \in Client : dest'[d] = j /\ content'[j][k] = <<d, k>>
        <3>1. \/ content[j][k] \in {Zero, Old}
              \/ \E d \in Client : dest[d] = j /\ content[j][k] = <<d, k>>
            BY <2>1 DEF IInv, Writing, BytesInPlace
        <3>2. \A d \in Client : dest[d] = j => dest'[d] = j
            BY <1>1 DEF Writes
        <3> QED
            BY <2>1, <3>1, <3>2
    <2>2. CASE j # i
        <3>1. content'[j] = content[j]
            BY <2>2 DEF Filled, Writes
        <3> QED
            BY <2>1, <3>1
    <2>3. CASE j = i
        <3>1. \/ content'[i][k] \in {<<c, k>>, Zero}
              \/ k \in 1..Len(base[i]) /\ content'[i][k] = base[i][k]
            BY <2>3 DEF Filled
        <3>2. CASE content'[i][k] \in {<<c, k>>, Zero}
            BY <2>3, <3>2, <1>1
        <3>3. CASE k \in 1..Len(base[i]) /\ content'[i][k] = base[i][k]
            <4>1. base[i] = <<>> \/ base[i] = content[i]
                BY DEF Writes
            <4>2. base[i] # <<>>
                BY <3>3
            <4> QED
                BY <2>1, <2>3, <3>3, <4>1, <4>2
        <3> QED
            BY <3>1, <3>2, <3>3
    <2> QED
        BY <2>2, <2>3
<1>4. Fresh'
    BY <1>1 DEF Fresh, Building, Moved, IInv, Writing
<1>5. Opened'
    BY <1>1 DEF Opened, Moved, IInv, Writing
<1>6. WithinBody'
    BY DEF WithinBody, Moved, IInv, Writing
<1>7. Alone'
    <2> SUFFICES ASSUME NEW d \in Client, NEW e \in Client, d # e,
                        dest'[d] # Closed, d \notin shared'
                 PROVE  postOutFd'[e] # dest'[d]
        BY DEF Alone
    <2>1. CASE d = c
        <3>1. postOutFd[e] # i
            BY <2>1 DEF Writes
        <3> QED
            BY <2>1, <3>1, <1>0, <1>1
    <2>2. CASE d # c /\ e = c
        BY <2>2, <1>1 DEF Writes, Moved
    <2>3. CASE d # c /\ e # c
        BY <2>3, <1>1 DEF Writes, Moved, IInv, Writing, Alone
    <2> QED
        BY <2>1, <2>2, <2>3
<1>8. AtEnd'
    <2> SUFFICES ASSUME NEW d \in Client, postOutFd'[d] # Closed, d \notin shared'
                 PROVE  Len(content'[dest'[d]]) = postWritePos'[d]
        BY DEF AtEnd
    <2>1. CASE d = c
        <3>1. OwnFile(c, i)
            BY <2>1 DEF Writes
        <3> QED
            BY <2>1, <3>1, <1>1 DEF OwnFile
    <2>2. CASE d # c
        <3>1. d \notin shared /\ dest[d] # i /\ dest'[d] = dest[d]
                /\ postOutFd[d] # Closed
            BY <2>2, <1>1 DEF Writes, Moved
        <3>2. dest[d] = postOutFd[d] /\ dest[d] \in Inode
            BY <3>1 DEF IInv, Writing, Opened, TypeOK
        <3>3. content'[dest[d]] = content[dest[d]] /\ postWritePos'[d] = postWritePos[d]
            BY <2>2, <3>1, <3>2, <1>0, <1>10
        <3> QED
            BY <3>1, <3>3 DEF IInv, Writing, AtEnd
    <2> QED
        BY <2>1, <2>2
<1>9. Unanswered'
    BY DEF Unanswered, Moved, IInv, Writing
<1> QED
    BY <1>2, <1>3, <1>4, <1>5, <1>6, <1>7, <1>8, <1>9 DEF Writing

LEMMA SliceStep ==
    ASSUME IInv, NEW c \in Client, state[c] = "PROCESSING", NEW i \in Inode,
           NEW pos \in Nat, pos <= request[c].size,
           NEW base \in [Inode -> Seq(Byte)],
           Slice(c, i, pos, base), Writes(c, i, pos, base), UNCHANGED <<request, now>>,
           files' \in [DOMAIN files' -> Inode], shared' \subseteq Client,
           removed' \subseteq Client
    PROVE  IInv'
<1>1. Moved(c, i)
    BY SliceMoves DEF IInv, Writing
<1>2. Filled(c, i, base) /\ (base[i] = Data(c, 0, pos) => OwnFile(c, i))
    BY SliceFills DEF IInv, Writing
<1>3. Writing'
    BY <1>1, <1>2, SliceKeeps
<1>4. dest' \in [Client -> Inode \cup {Closed}]
    BY DEF IInv, TypeOK, Writes
<1>5. TypeOK'
    BY <1>1, <1>2, <1>4 DEF IInv, TypeOK, Moved, Filled
<1>6. DescriptorsClosed'
    <2> SUFFICES ASSUME NEW d \in Client
                 PROVE  /\ postOutFd'[d] # Closed
                             <=> state'[d] = "PROCESSING"
                                   /\ buildPhase'[d] = "BUILD_POST_WRITING"
                        /\ fileFd'[d] # Closed
                             => state'[d] = "WRITING" /\ statusCode'[d] = 200
        BY DEF DescriptorsClosed
    <2>1. CASE d = c
        BY <1>1, <2>1 DEF Moved
    <2>2. CASE d # c
        <3>1. /\ state'[d] = state[d] /\ buildPhase'[d] = buildPhase[d]
              /\ statusCode'[d] = statusCode[d] /\ fileFd'[d] = fileFd[d]
              /\ postOutFd'[d] = postOutFd[d]
            BY <1>1, <2>2 DEF Moved
        <3> QED
            BY <3>1 DEF IInv, DescriptorsClosed
    <2> QED
        BY <2>1, <2>2
<1> QED
    BY <1>3, <1>5, <1>6 DEF IInv

LEMMA ContinueStep ==
    ASSUME IInv, NEW c \in Client, ContinuePostWrite(c)
    PROVE  IInv'
<1> DEFINE i == postOutFd[c]
           pos == postWritePos[c]
<1>1. /\ state[c] = "PROCESSING" /\ buildPhase[c] = "BUILD_POST_WRITING"
      /\ Slice(c, i, pos, content)
      /\ UNCHANGED <<request, files, dest, shared, removed, now>>
    BY DEF ContinuePostWrite
<1>2. i # Closed /\ dest[c] = i
    BY <1>1 DEF IInv, DescriptorsClosed, Writing, Opened
<1>3. /\ i \in Inode /\ pos \in Nat /\ pos <= request[c].size
      /\ content \in [Inode -> Seq(Byte)]
    BY <1>2 DEF IInv, TypeOK, Writing, WithinBody
<1>4. ASSUME c \notin shared
      PROVE  content[i] = Data(c, 0, pos) /\ \A d \in Client \ {c} : postOutFd[d] # i
    <2>1. content[i] = Data(c, 0, Len(content[i]))
        BY <1>2, <1>4 DEF IInv, Writing, UploadKept
    <2>2. Len(content[i]) = pos
        BY <1>2, <1>4 DEF IInv, Writing, AtEnd
    <2> QED
        BY <1>2, <1>4, <2>1, <2>2 DEF IInv, Writing, Alone
<1>5. \A d \in Client \ {c} : d \notin shared => dest[d] # i
    BY <1>2 DEF IInv, Writing, Alone
<1>6. \A d \in Client : d \notin shared \cup removed /\ dest[d] # Closed
        => \E p \in DOMAIN files : files[p] = dest[d]
    BY Zenon DEF IInv, Writing, UploadKept
<1>7. Writes(c, i, pos, content)
    BY <1>1, <1>2, <1>4, <1>5, <1>6 DEF Writes, IInv, TypeOK
<1>8. /\ files' \in [DOMAIN files' -> Inode]
      /\ shared' \subseteq Client /\ removed' \subseteq Client
    BY <1>1 DEF IInv, TypeOK
<1> HIDE DEF i, pos
<1> QED
    BY <1>1, <1>3, <1>7, <1>8, SliceStep

LEMMA PostStep ==
    ASSUME IInv, NEW c \in Client, HandlePost(c)
    PROVE  IInv'
<1> DEFINE path == Destination(c)
           i == IF path \in DOMAIN files THEN files[path] ELSE c
<1>1. /\ Building(c)
      /\ files' = [p \in DOMAIN files \cup {path} |-> IF p = path THEN i ELSE files[p]]
      /\ dest' = [dest EXCEPT ![c] = i]
      /\ shared' = shared \cup {d \in Client \ {c} : dest[d] = i}
                     \cup {d \in {c} : \E e \in Client \ {c} : postOutFd[e] = i}
      /\ Slice(c, i, 0, Truncated(i)) /\ UNCHANGED <<request, removed, now>>
    BY DEF HandlePost, Handled, Permitted, Routed
<1> HIDE DEF path
<1>2. i \in Inode
    BY NoInode DEF IInv, TypeOK
<1>3. files' \in [DOMAIN files' -> Inode]
    BY <1>1, <1>2 DEF IInv, TypeOK
<1>4. \A d \in Client \ {c} : d \notin shared' /\ dest[d] # Closed /\ d \notin removed
        => \E p \in DOMAIN files' : files'[p] = dest[d]
    <2> SUFFICES ASSUME NEW d \in Client \ {c}, d \notin shared', dest[d] # Closed,
                        d \notin removed
                 PROVE  \E p \in DOMAIN files' : files'[p] = dest[d]
        OBVIOUS
    <2>1. d \notin shared /\ dest[d] # i
        BY <1>1
    <2>2. PICK p \in DOMAIN files : files[p] = dest[d]
        BY <2>1, Zenon DEF IInv, Writing, UploadKept
    <2>3. p # path
        BY <2>1, <2>2
    <2> QED
        BY <1>1, <2>2, <2>3
<1>5. path \in DOMAIN files' /\ files'[path] = i
    BY <1>1
<1> HIDE DEF i
<1> DEFINE base == Truncated(i)
<1>6. /\ base \in [Inode -> Seq(Byte)] /\ base[i] = <<>>
      /\ \A j \in Inode \ {i} : base[j] = content[j]
    BY <1>2 DEF Truncated, IInv, TypeOK
<1> HIDE DEF base
<1>7. base[i] = Data(c, 0, 0)
    BY <1>6 DEF Data
<1>8. dest[c] = Closed
    BY <1>1 DEF IInv, Writing, Fresh
<1>9. \A d \in Client : d \notin shared' \cup removed' /\ dest'[d] # Closed
        => \E p \in DOMAIN files' : files'[p] = dest'[d]
    <2>1. dest'[c] = i /\ \A d \in Client \ {c} : dest'[d] = dest[d]
        BY <1>1 DEF IInv, TypeOK
    <2>2. ASSUME NEW d \in Client, d \notin shared' \cup removed', dest'[d] # Closed
          PROVE  \E p \in DOMAIN files' : files'[p] = dest'[d]
        <3>1. CASE d = c
            BY <1>5, <2>1, <3>1
        <3>2. CASE d # c
            <4>1. dest'[d] = dest[d] /\ removed' = removed
                BY <1>1, <2>1, <3>2
            <4>2. d \notin shared' /\ dest[d] # Closed /\ d \notin removed
                BY <2>2, <4>1
            <4>3. \E p \in DOMAIN files' : files'[p] = dest[d]
                BY <1>4, <3>2, <4>2
            <4> QED
                BY <4>1, <4>3
        <3> QED
            BY <3>1, <3>2
    <2> QED
        BY <2>2
<1>10. /\ \A d \in Client \ {c} : d \notin shared' => d \notin shared /\ dest[d] # i
       /\ c \notin shared' => \A d \in Client \ {c} : postOutFd[d] # i
    BY <1>1
<1>11. Writes(c, i, 0, base)
    BY <1>1, <1>6, <1>7, <1>8, <1>9, <1>10 DEF Writes
<1>12. shared' \subseteq Client /\ removed' \subseteq Client
    BY <1>1 DEF IInv, TypeOK
<1>13. 0 <= request[c].size /\ state[c] = "PROCESSING" /\ Slice(c, i, 0, base)
    BY <1>1, RequestFacts DEF Building, base, IInv
<1> QED
    BY <1>1, <1>2, <1>3, <1>6, <1>11, <1>12, <1>13, SliceStep

-----------------------------------------------------------------------------
(* The steps that write to no file.                                            *)

(* What a request is left with when it is answered, waits for its script or    *)
(* is dropped.                                                                 *)
Ends(c) ==
    /\ state' \in [Client -> {"PROCESSING", "WAITING_FOR_CGI", "WRITING", "FINISHED"}]
    /\ buildPhase' \in [Client -> {"BUILD_IDLE", "BUILD_POST_WRITING",
                                   "BUILD_CGI_RUNNING", "BUILD_DONE"}]
    /\ statusCode' \in [Client -> Nat]
    /\ fileFd' \in [Client -> Inode \cup {Closed}]
    /\ postOutFd' \in [Client -> Inode \cup {Closed}]
    /\ \A d \in Client \ {c} :
         /\ state'[d] = state[d] /\ buildPhase'[d] = buildPhase[d]
         /\ statusCode'[d] = statusCode[d] /\ fileFd'[d] = fileFd[d]
         /\ postOutFd'[d] = postOutFd[d]
    /\ state'[c] # "PROCESSING" /\ postOutFd'[c] = Closed
    /\ fileFd'[c] # Closed => state'[c] = "WRITING" /\ statusCode'[c] = 200
    /\ statusCode'[c] = 201 => statusCode[c] = 201 \/ dest[c] = Closed

(* Files are deleted only from those that count as removed.                    *)
Keeps ==
    /\ files' \in [DOMAIN files' -> Inode]
    /\ removed' \subseteq Client /\ removed \subseteq removed'
    /\ \A d \in Client \ removed' : \A p \in DOMAIN files :
         files[p] = dest[d] => p \in DOMAIN files' /\ files'[p] = files[p]

LEMMA EndStep ==
    ASSUME IInv, NEW c \in Client, Ends(c), Keeps,
           UNCHANGED <<request, content, postWritePos, dest, shared, now>>
    PROVE  IInv'
<1>1. TypeOK'
    BY DEF IInv, TypeOK, Ends, Keeps
<1>2. DescriptorsClosed'
    BY DEF IInv, DescriptorsClosed, Ends
<1>3. UploadKept'
    <2> SUFFICES ASSUME NEW d \in Client, dest[d] # Closed, d \notin shared
                 PROVE  /\ Len(content[dest[d]]) <= request[d].size
                        /\ content[dest[d]] = Data(d, 0, Len(content[dest[d]]))
                        /\ statusCode'[d] = 201 =>
                             Len(content[dest[d]]) = request[d].size
                        /\ d \notin removed' =>
                             \E p \in DOMAIN files' : files'[p] = dest[d]
        BY Zenon DEF UploadKept, Data
    <2>1. /\ Len(content[dest[d]]) <= request[d].size
          /\ content[dest[d]] = Data(d, 0, Len(content[dest[d]]))
          /\ statusCode[d] = 201 => Len(content[dest[d]]) = request[d].size
          /\ d \notin removed => \E p \in DOMAIN files : files[p] = dest[d]
        BY Zenon DEF IInv, Writing, UploadKept
    <2>2. statusCode'[d] = 201 => statusCode[d] = 201
        BY DEF Ends
    <2>3. d \notin removed' => \E p \in DOMAIN files' : files'[p] = dest[d]
        BY <2>1 DEF Keeps
    <2> QED
        BY <2>1, <2>2, <2>3
<1>4. BytesInPlace'
    BY Zenon DEF IInv, Writing, BytesInPlace
<1>5. Fresh'
    BY DEF IInv, Writing, Fresh, Building, Ends
<1>6. \A d \in Client : postOutFd'[d] \in {postOutFd[d], Closed}
    BY DEF Ends
<1>7. Opened' /\ Alone'
    BY <1>6 DEF IInv, Writing, Opened, Alone
<1>8. WithinBody'
    BY Zenon DEF IInv, Writing, WithinBody
<1>9. AtEnd'
    BY <1>6, Zenon DEF IInv, Writing, AtEnd
<1>10. Unanswered'
    BY DEF IInv, Writing, Unanswered, Ends
<1> QED
    BY <1>1, <1>2, <1>3, <1>4, <1>5, <1>7, <1>8, <1>9, <1>10 DEF IInv, Writing

LEMMA SiteKept ==
    ASSUME IInv, UNCHANGED site
    PROVE  Keeps
BY DEF IInv, TypeOK, Keeps, site

LEMMA ErrorPageEnds ==
    ASSUME IInv, NEW c \in Client, NEW code \in Nat, BuildErrorPage(c, code),
           code = 201 => dest[c] = Closed
    PROVE  Ends(c)
BY DEF IInv, TypeOK, BuildErrorPage, Answer, Ends

LEMMA AnswerEnds ==
    ASSUME IInv, NEW c \in Client, Building(c), NEW code \in Nat, Answer(c, code),
           UNCHANGED <<buildPhase, postOutFd>>, NEW file \in Inode \cup {Closed},
           fileFd' = [fileFd EXCEPT ![c] = file], file # Closed => code = 200
    PROVE  Ends(c)
<1>1. dest[c] = Closed /\ postOutFd[c] = Closed
    BY DEF Building, IInv, DescriptorsClosed, Writing, Fresh
<1> QED
    BY <1>1 DEF IInv, TypeOK, Answer, Ends

LEMMA SameFile ==
    ASSUME IInv, NEW c \in Client, Building(c), UNCHANGED fileFd
    PROVE  fileFd' = [fileFd EXCEPT ![c] = Closed]
<1>1. fileFd[c] = Closed /\ fileFd \in [Client -> Inode \cup {Closed}]
    BY DEF Building, IInv, TypeOK, DescriptorsClosed
<1> QED
    BY <1>1

LEMMA RefuseStep ==
    ASSUME IInv, NEW c \in Client, Refuse(c)
    PROVE  IInv'
<1>1. Building(c) /\ UNCHANGED <<request, site, now>>
    BY DEF Refuse
<1>2. dest[c] = Closed
    BY <1>1 DEF IInv, Writing, Fresh
<1>3. \E code \in Nat : BuildErrorPage(c, code)
    BY RequestFacts DEF Refuse, IInv
<1>4. Ends(c)
    BY <1>2, <1>3, ErrorPageEnds
<1> QED
    BY <1>1, <1>4, SiteKept, EndStep DEF site

LEMMA RedirectStep ==
    ASSUME IInv, NEW c \in Client, Redirect(c)
    PROVE  IInv'
<1>1. /\ Permitted(c) /\ Answer(c, LocationOf(c).returnCode)
      /\ UNCHANGED <<request, buildPhase, fileFd, postOutFd, site, now>>
    BY DEF Redirect
<1>2. Routed(c) /\ Building(c)
    BY <1>1 DEF Permitted, Routed
<1>3. LocationOf(c).returnCode \in Nat
    BY <1>2, ReturnCodes DEF IInv
<1>4. fileFd' = [fileFd EXCEPT ![c] = Closed]
    BY <1>1, <1>2, SameFile
<1>5. Ends(c)
    BY <1>1, <1>2, <1>3, <1>4, AnswerEnds
<1> QED
    BY <1>1, <1>5, SiteKept, EndStep DEF site

LEMMA HandleCGIStep ==
    ASSUME IInv, NEW c \in Client, HandleCGI(c)
    PROVE  IInv'
<1>1. Building(c) /\ UNCHANGED <<request, site, now>>
    BY DEF HandleCGI, Permitted, Routed
<1>2. /\ postOutFd[c] = Closed /\ fileFd[c] = Closed
    BY <1>1 DEF Building, IInv, DescriptorsClosed
<1>3. \/ \E code \in {404, 500, 503} : BuildErrorPage(c, code)
      \/ /\ state' = [state EXCEPT ![c] = "WAITING_FOR_CGI"]
         /\ buildPhase' = [buildPhase EXCEPT ![c] = "BUILD_CGI_RUNNING"]
         /\ UNCHANGED <<statusCode, fileFd, postOutFd>>
    BY DEF HandleCGI
<1>4. ASSUME NEW code \in {404, 500, 503}, BuildErrorPage(c, code)
      PROVE  Ends(c)
    BY <1>4, ErrorPageEnds
<1>5. ASSUME state' = [state EXCEPT ![c] = "WAITING_FOR_CGI"],
             buildPhase' = [buildPhase EXCEPT ![c] = "BUILD_CGI_RUNNING"],
             UNCHANGED <<statusCode, fileFd, postOutFd>>
      PROVE  Ends(c)
    BY <1>2, <1>5 DEF IInv, TypeOK, Ends
<1>6. Ends(c)
    BY <1>3, <1>4, <1>5
<1> QED
    BY <1>1, <1>6, SiteKept, EndStep DEF site

LEMMA CgiEndsStep ==
    ASSUME IInv, NEW c \in Client, CgiEnds(c)
    PROVE  IInv'
<1>1. state[c] = "WAITING_FOR_CGI" /\ UNCHANGED <<request, site, now>>
    BY DEF CgiEnds
<1>2. postOutFd[c] = Closed /\ fileFd[c] = Closed
    BY <1>1 DEF IInv, DescriptorsClosed
<1>3. ASSUME Answer(c, 200), buildPhase' = [buildPhase EXCEPT ![c] = "BUILD_DONE"],
             UNCHANGED <<fileFd, postOutFd>>
      PROVE  Ends(c)
    BY <1>2, <1>3 DEF IInv, TypeOK, Answer, Ends
<1>4. ASSUME NEW code \in {502, 504}, BuildErrorPage(c, code)
      PROVE  Ends(c)
    BY <1>4, ErrorPageEnds
<1>5. Ends(c)
    BY <1>3, <1>4 DEF CgiEnds
<1> QED
    BY <1>1, <1>5, SiteKept, EndStep DEF site

LEMMA ServeFileEnds ==
    ASSUME IInv, NEW c \in Client, Building(c), NEW path \in DOMAIN files,
           ServeFile(c, path)
    PROVE  Ends(c)
<1>1. files[path] \in Inode
    BY DEF IInv, TypeOK
<1>2. ASSUME Answer(c, 200), fileFd' = [fileFd EXCEPT ![c] = files[path]],
             UNCHANGED <<buildPhase, postOutFd>>
      PROVE  Ends(c)
    BY <1>1, <1>2, AnswerEnds
<1>3. ASSUME BuildErrorPage(c, 404)
      PROVE  Ends(c)
    BY <1>3, ErrorPageEnds
<1> QED
    BY <1>2, <1>3 DEF ServeFile

LEMMA HandleGetStep ==
    ASSUME IInv, NEW c \in Client, HandleGet(c)
    PROVE  IInv'
<1>1. Building(c) /\ UNCHANGED <<request, site, now>>
    BY DEF HandleGet, Handled, Permitted, Routed
<1>2. \/ \E path \in DOMAIN files : ServeFile(c, path)
      \/ Answer(c, 200) /\ UNCHANGED <<buildPhase, fileFd, postOutFd>>
      \/ \E code \in {403, 404, 500} : BuildErrorPage(c, code)
    BY DEF HandleGet
<1>3. ASSUME Answer(c, 200), UNCHANGED <<buildPhase, fileFd, postOutFd>>
      PROVE  Ends(c)
    BY <1>1, <1>3, SameFile, AnswerEnds
<1>4. ASSUME NEW code \in {403, 404, 500}, BuildErrorPage(c, code)
      PROVE  Ends(c)
    BY <1>4, ErrorPageEnds
<1>5. Ends(c)
    BY <1>1, <1>2, <1>3, <1>4, ServeFileEnds
<1> QED
    BY <1>1, <1>5, SiteKept, EndStep DEF site

LEMMA HandleDeleteStep ==
    ASSUME IInv, NEW c \in Client, HandleDelete(c)
    PROVE  IInv'
<1> DEFINE path == ResolvedPath(c)
<1>1. Building(c) /\ UNCHANGED <<request, content, postWritePos, dest, shared, now>>
    BY DEF HandleDelete, Handled, Permitted, Routed
<1>2. \/ /\ path \in DOMAIN files /\ Answer(c, 204)
         /\ files' = [p \in DOMAIN files \ {path} |-> files[p]]
         /\ removed' = removed \cup {d \in Client : dest[d] = files[path]}
         /\ UNCHANGED <<buildPhase, fileFd, postOutFd>>
      \/ /\ \E code \in {403, 404, 500} : BuildErrorPage(c, code)
         /\ UNCHANGED <<files, removed>>
    BY DEF HandleDelete
<1> HIDE DEF path
<1>3. ASSUME path \in DOMAIN files, Answer(c, 204),
             files' = [p \in DOMAIN files \ {path} |-> files[p]],
             removed' = removed \cup {d \in Client : dest[d] = files[path]},
             UNCHANGED <<buildPhase, fileFd, postOutFd>>
      PROVE  Ends(c) /\ Keeps
    <2>1. Ends(c)
        BY <1>1, <1>3, SameFile, AnswerEnds
    <2>2. files' \in [DOMAIN files' -> Inode] /\ removed' \subseteq Client
        BY <1>3 DEF IInv, TypeOK
    <2>3. \A d \in Client \ removed' : \A p \in DOMAIN files :
            files[p] = dest[d] => p # path
        BY <1>3
    <2> QED
        BY <1>3, <2>1, <2>2, <2>3 DEF Keeps
<1>4. ASSUME NEW code \in {403, 404, 500}, BuildErrorPage(c, code),
             UNCHANGED <<files, removed>>
      PROVE  Ends(c) /\ Keeps
    BY <1>1, <1>4, ErrorPageEnds, SiteKept DEF site
<1>5. Ends(c) /\ Keeps
    BY <1>2, <1>3, <1>4
<1> QED
    BY <1>1, <1>5, EndStep

LEMMA PostRefusedStep ==
    ASSUME IInv, NEW c \in Client, PostRefused(c)
    PROVE  IInv'
<1>1. UNCHANGED <<request, site, now>> /\ \E code \in {500, 503} : BuildErrorPage(c, code)
    BY DEF PostRefused
<1>2. Ends(c)
    BY <1>1, ErrorPageEnds
<1> QED
    BY <1>1, <1>2, SiteKept, EndStep DEF site

LEMMA TimeoutStep ==
    ASSUME IInv, NEW c \in Client, Timeout(c)
    PROVE  IInv'
<1>1. UNCHANGED <<request, site, now>> /\ BuildErrorPage(c, 408)
    BY DEF Timeout
<1>2. Ends(c)
    BY <1>1, ErrorPageEnds
<1> QED
    BY <1>1, <1>2, SiteKept, EndStep DEF site

LEMMA DropStep ==
    ASSUME IInv, NEW c \in Client, Drop(c)
    PROVE  IInv'
<1>1. Ends(c)
    BY DEF Drop, Ends, IInv, TypeOK
<1> QED
    BY <1>1, SiteKept, EndStep DEF Drop, site

LEMMA TickStep ==
    ASSUME IInv, Tick
    PROVE  IInv'
<1>1. /\ now' \in 0..MaxTime
      /\ UNCHANGED <<request, response, site>>
    BY LocationsAssumption DEF Tick, IInv, TypeOK
<1>2. TypeOK'
    BY <1>1 DEF IInv, TypeOK, response, site
<1>3. DescriptorsClosed' /\ Writing'
    BY <1>1 DEF IInv, DescriptorsClosed, Writing, UploadKept, BytesInPlace, Fresh,
                Building, Opened, WithinBody, Alone, AtEnd, Unanswered, response, site
<1> QED
    BY <1>2, <1>3 DEF IInv

LEMMA StutterStep ==
    ASSUME IInv, UNCHANGED vars
    PROVE  IInv'
BY DEF IInv, TypeOK, DescriptorsClosed, Writing, UploadKept, BytesInPlace, Fresh,
       Building, Opened, WithinBody, Alone, AtEnd, Unanswered, response, site, vars

-----------------------------------------------------------------------------
(* The theorems.                                                               *)

LEMMA InitInvariant == Init => IInv
<1> SUFFICES ASSUME Init
             PROVE  IInv
    OBVIOUS
<1> USE DEF Init
<1>1. TypeOK
    <2>1. <<Old>> \in Seq(Byte) /\ <<>> \in Seq(Byte)
        <3>1. Old \in Byte
            BY DEF Byte
        <3> QED
            BY <3>1
    <2>2. content \in [Inode -> Seq(Byte)]
        BY <2>1
    <2>3. files \in [DOMAIN files -> Inode]
        BY DEF Inode
    <2> QED
        BY <2>2, <2>3, LocationsAssumption DEF TypeOK
<1>2. DescriptorsClosed
    BY DEF DescriptorsClosed
<1>3. UploadKept /\ Fresh /\ Opened /\ Alone /\ AtEnd /\ Unanswered
    BY DEF UploadKept, Fresh, Opened, Alone, AtEnd, Unanswered
<1>4. WithinBody
    <2>1. \A c \in Client : request[c].size \in Nat
        BY <1>1, RequestFacts
    <2> SUFFICES ASSUME NEW c \in Client
                 PROVE  postWritePos[c] <= request[c].size
        BY DEF WithinBody
    <2>2. postWritePos[c] = 0
        OBVIOUS
    <2> HIDE DEF Init
    <2> QED
        BY <2>1, <2>2
<1>5. BytesInPlace
    BY DEF BytesInPlace
<1> QED
    BY <1>1, <1>2, <1>3, <1>4, <1>5 DEF IInv, Writing

LEMMA StepInvariant == IInv /\ [Next]_vars => IInv'
<1> SUFFICES ASSUME IInv, [Next]_vars
             PROVE  IInv'
    OBVIOUS
<1>1. ASSUME NEW c \in Client, Process(c)
      PROVE  IInv'
    BY <1>1, RefuseStep, RedirectStep, HandleCGIStep, HandleGetStep, HandleDeleteStep,
       PostRefusedStep, PostStep, ContinueStep DEF Process
<1>2. ASSUME NEW c \in Client, CgiEnds(c) \/ Timeout(c) \/ Drop(c)
      PROVE  IInv'
    BY <1>2, CgiEndsStep, TimeoutStep, DropStep
<1> QED
    BY <1>1, <1>2, TickStep, StutterStep DEF Next

(* Every reachable state satisfies the inductive invariant, whatever the       *)
(* requests, the locations and the sizes, and however slices, time-outs and    *)
(* drops interleave.                                                           *)
THEOREM Invariance == Spec => []IInv
BY InitInvariant, StepInvariant, PTL DEF Spec

(* The types of the response state and of the site.                            *)
THEOREM TypeCorrect == Spec => []TypeOK
<1>1. IInv => TypeOK
    BY DEF IInv
<1> QED
    BY <1>1, Invariance, PTL

(* A descriptor is open exactly while its answer needs it: buildErrorPage and  *)
(* ~Response close what a handler left open.                                   *)
THEOREM DescriptorsClosedHolds == Spec => []DescriptorsClosed
<1>1. IInv => DescriptorsClosed
    BY DEF IInv
<1> QED
    BY <1>1, Invariance, PTL

(* The file of an upload that shares it with no other is the beginning of its  *)
(* body, all of it once 201 is answered (_handlePost, _continuePostWrite).     *)
THEOREM UploadKeptHolds == Spec => []UploadKept
<1>1. IInv => UploadKept
    BY DEF IInv, Writing
<1> QED
    BY <1>1, Invariance, PTL

(* Uploads into one file never move a byte (_continuePostWrite).               *)
THEOREM BytesInPlaceHolds == Spec => []BytesInPlace
<1>1. IInv => BytesInPlace
    BY DEF IInv, Writing
<1> QED
    BY <1>1, Invariance, PTL

-----------------------------------------------------------------------------
(* matchLocation.                                                              *)

(* A non-empty set of numbers with a bound has a greatest one.                 *)
LEMMA GreatestNumber ==
    ASSUME NEW T, T \subseteq Nat, T # {}, NEW b \in Nat, \A n \in T : n <= b
    PROVE  \E n \in T : \A m \in T : m <= n
<1> DEFINE D == {b - n : n \in T}
<1>1. D \subseteq Nat /\ D # {}
    <2>1. \A n \in T : b - n \in Nat
        OBVIOUS
    <2> QED
        BY <2>1
<1>2. PICK d \in D : \A e \in D : ~(<<e, d>> \in OpToRel(<, Nat))
    BY <1>1, NatLessThanWellFounded, WFMin, Zenon
<1>3. PICK n \in T : d = b - n
    OBVIOUS
<1>4. ASSUME NEW m \in T PROVE m <= n
    <2>1. b - m \in D /\ b - m \in Nat /\ d \in Nat
        BY <1>1
    <2>2. ~(b - m < d)
        BY <1>2, <2>1, Zenon DEF OpToRel
    <2> QED
        BY <1>3, <2>1, <2>2
<1> QED
    BY <1>4

(* The test of one location compares whole segments.                           *)
LEMMA PrefixCovers ==
    ASSUME NEW lpath \in Path, NEW url \in Path
    PROVE  MatchesPrefix(lpath, url) <=> Covers(lpath, url)
<1> DEFINE L == Len(lpath)
           N == Len(url)
           Rest(n) == SubSeq(url, n, N)
<1>1. L \in Nat /\ N \in Nat
    BY DEF Path
<1>2. ASSUME url = lpath PROVE Covers(lpath, url)
    <2>1. Rest(N + 1) = <<>>
        BY <1>1, SubSeqEmpty
    <2>2. url = lpath \o <<>>
        BY <1>2, ConcatEmptySeq DEF Path
    <2>3. N + 1 \in 1..(N + 1)
        BY <1>1
    <2> QED
        BY <2>1, <2>2, <2>3 DEF Covers
<1>3. ASSUME N > L, url[L + 1] = "/", SubSeq(url, 1, L) = lpath
      PROVE  Covers(lpath, url)
    <2>1. L + 1 \in 1..(N + 1) /\ L \in 0..N /\ 1 \in 1..(N + 1) /\ N \in L..N
        BY <1>1, <1>3
    <2>2. SubSeq(url, 1, L) \o Rest(L + 1) = SubSeq(url, 1, N)
        <3>1. url \in Seq(STRING) /\ N = Len(url)
            BY DEF Path
        <3> HIDE DEF L, N
        <3>2. 1 \in 1..N + 1 /\ L \in 1 - 1..N /\ N \in L..N
            BY <2>1, <1>1, <1>3
        <3> QED
            BY <3>1, <3>2, ConcatAdjacentSubSeq
    <2>3. url = lpath \o Rest(L + 1)
        BY <1>3, <2>2, SubSeqFull DEF Path
    <2>4. Rest(L + 1)[1] = "/"
        BY <1>1, <1>3, SubSeqProperties DEF Path
    <2> QED
        BY <2>1, <2>3, <2>4 DEF Covers
<1>4. ASSUME NEW n \in 1..(N + 1), url = lpath \o Rest(n), Rest(n) = <<>>
      PROVE  MatchesPrefix(lpath, url)
    <2>1. url = lpath
        BY <1>4, ConcatEmptySeq DEF Path
    <2> QED
        BY <2>1 DEF MatchesPrefix
<1>5. ASSUME NEW n \in 1..(N + 1), url = lpath \o Rest(n), Rest(n) # <<>>, Rest(n)[1] = "/"
      PROVE  MatchesPrefix(lpath, url)
    <2>1. Rest(n) \in Seq(STRING) /\ Len(Rest(n)) \in Nat
        BY <1>1, SubSeqProperties DEF Path
    <2>2. Len(Rest(n)) # 0
        BY <1>5, <2>1, EmptySeq
    <2> DEFINE r == Rest(n)
    <2> HIDE DEF r
    <2>3. N = L + Len(r) /\ url[L + 1] = r[1]
        <3>1. lpath \in Seq(STRING) /\ r \in Seq(STRING) /\ Len(r) \in Nat /\ Len(r) # 0
            BY <2>1, <2>2 DEF Path, r
        <3>2. url = lpath \o r
            BY <1>5 DEF r
        <3>3. /\ Len(lpath \o r) = L + Len(r)
              /\ L + 1 \in 1..(L + Len(r))
                   => (lpath \o r)[L + 1] = IF L + 1 <= L THEN lpath[L + 1] ELSE r[L + 1 - L]
            BY <3>1, ConcatProperties
        <3>4. L + 1 \in 1..(L + Len(r)) /\ ~(L + 1 <= L) /\ L + 1 - L = 1
            BY <1>1, <3>1
        <3> QED
            BY <3>2, <3>3, <3>4
    <2>4. SubSeq(url, 1, L) = lpath
        <3>1. CASE L = 0
            BY <3>1, SubSeqEmpty, EmptySeq DEF Path
        <3>2. CASE L # 0
            <4>1. 1 \in 1..L /\ L \in 1..L
                BY <1>1, <3>2
            <4>2. SubSeq(lpath \o r, 1, L) = SubSeq(lpath, 1, L)
                BY <2>1, <4>1, SubSeqOfConcat1 DEF Path, r
            <4> QED
                BY <1>5, <4>2, SubSeqFull DEF Path, r
        <3> QED
            BY <3>1, <3>2
    <2> QED
        BY <1>1, <1>5, <2>1, <2>2, <2>3, <2>4 DEF MatchesPrefix, r
<1> QED
    BY <1>2, <1>3, <1>4, <1>5 DEF MatchesPrefix, Covers

(* A location that matches is no longer than the URL, or it is "/".            *)
LEMMA MatchBounded ==
    ASSUME NEW lpath \in Path, NEW url \in Path, MatchesPrefix(lpath, url)
    PROVE  Len(lpath) \in Nat /\ Len(url) \in Nat /\ Len(lpath) <= Len(url) + 1
<1>1. Len(lpath) \in Nat /\ Len(url) \in Nat
    BY DEF Path
<1>2. CASE lpath = <<"/">>
    <2>1. Len(lpath) = 1
        BY <1>2
    <2> QED
        BY <1>1, <2>1
<1>3. CASE url = lpath \/ Len(url) > Len(lpath)
    BY <1>1, <1>3
<1> QED
    BY <1>2, <1>3 DEF MatchesPrefix

(* matchLocation takes a location that matches, and none that does is longer.  *)
LEMMA LongestMatch ==
    ASSUME NEW url \in Path, NEW locations, Len(locations) \in Nat,
           \A k \in 1..Len(locations) : locations[k].path \in Path,
           NEW i, i = MatchLocation(url, locations), i \in 1..Len(locations)
    PROVE  /\ MatchesPrefix(locations[i].path, url)
           /\ \A k \in 1..Len(locations) :
                MatchesPrefix(locations[k].path, url)
                  => Len(locations[k].path) <= Len(locations[i].path)
<1> DEFINE size(k) == Len(locations[k].path)
           matching == {k \in 1..Len(locations) : MatchesPrefix(locations[k].path, url)}
           longer(j, k) == \/ size(j) > size(k)
                           \/ size(j) = size(k) /\ j >= k
<1>1. MatchLocation(url, locations) =
        IF matching = {} THEN 0
        ELSE CHOOSE j \in matching : \A k \in matching : longer(j, k)
    BY DEF MatchLocation
<1>2. matching # {}
    BY <1>1
<1>3. \A k \in matching : size(k) \in Nat /\ size(k) <= Len(url) + 1
    BY MatchBounded
<1>4. \E j \in matching : \A k \in matching : longer(j, k)
    <2> DEFINE sizes == {size(k) : k \in matching}
    <2>1. sizes \subseteq Nat /\ sizes # {} /\ \A n \in sizes : n <= Len(url) + 1
        BY <1>2, <1>3
    <2>2. Len(url) + 1 \in Nat
        BY DEF Path
    <2>3. PICK top \in sizes : \A n \in sizes : n <= top
        <3> HIDE DEF sizes
        <3> QED
            BY <2>1, <2>2, GreatestNumber
    <2> DEFINE tops == {k \in matching : size(k) = top}
    <2>4. tops \subseteq Nat /\ tops # {} /\ \A k \in tops : k <= Len(locations)
        OBVIOUS
    <2>5. PICK j \in tops : \A k \in tops : k <= j
        <3> HIDE DEF tops
        <3> QED
            BY <2>4, GreatestNumber
    <2>6. ASSUME NEW k \in matching PROVE longer(j, k)
        <3>1. size(k) \in sizes /\ size(k) <= top /\ size(j) = top
            BY <2>3
        <3>2. size(k) \in Nat /\ size(j) \in Nat
            BY <1>3
        <3>3. CASE size(k) = top
            <4>1. k <= j
                BY <2>5, <3>3
            <4> QED
                BY <3>1, <3>3, <4>1
        <3>4. CASE size(k) # top
            BY <3>1, <3>2, <3>4
        <3> QED
            BY <3>3, <3>4
    <2> QED
        BY <2>6
<1>5. i \in matching /\ \A k \in matching : longer(i, k)
    <2> HIDE DEF matching, longer
    <2>1. i = CHOOSE j \in matching : \A k \in matching : longer(j, k)
        BY <1>1, <1>2
    <2> QED
        BY <1>4, <2>1
<1>6. \A k \in matching : size(k) <= size(i)
    BY <1>3, <1>5
<1> QED
    BY <1>5, <1>6

(* The location that buildResponse uses is the most specific one.              *)
LEMMA RouteGoverns ==
    ASSUME TypeOK, NEW c \in Client, Routed(c)
    PROVE  LocationOf(c) \in Governing(request[c])
<1> DEFINE q == request[c]
           locations == Servers[q.server]
           i == Route[q]
           Loc == [path : Path, methods : SUBSET Methods,
                   returnCode : Nat, cgi : SUBSET Path, root : Path,
                   defaultPage : Path, autoIndex : BOOLEAN, storage : Path]
           covering == {k \in 1..Len(locations) : Covers(locations[k].path, q.url)}
<1>1. q \in Requests /\ q.url \in Path /\ q.server \in DOMAIN Servers
    BY RequestsAssumption DEF TypeOK
<1>2. locations \in Seq(Loc) /\ Len(locations) \in Nat
    <2>1. \A s \in DOMAIN Servers : Servers[s] \in Seq(Loc)
        BY LocationsAssumption
    <2>2. locations \in Seq(Loc)
        <3> HIDE DEF Loc, q
        <3> QED
            BY <1>1, <2>1
    <2> QED
        BY <2>2
<1>3. \A k \in 1..Len(locations) : locations[k].path \in Path
    <2>1. \A k \in 1..Len(locations) : locations[k] \in Loc
        <3> HIDE DEF Loc, locations
        <3> QED
            BY <1>2, ElementOfSeq
    <2> QED
        BY <2>1
<1>4. i = MatchLocation(q.url, locations) /\ i \in 1..Len(locations)
    BY <1>1 DEF Routed, Route, LocationsOf
<1> HIDE DEF i, locations, q
<1>5. /\ MatchesPrefix(locations[i].path, q.url)
      /\ \A k \in 1..Len(locations) :
           MatchesPrefix(locations[k].path, q.url)
             => Len(locations[k].path) <= Len(locations[i].path)
    BY <1>1, <1>2, <1>3, <1>4, LongestMatch
<1>6. \A k \in 1..Len(locations) :
        MatchesPrefix(locations[k].path, q.url) <=> Covers(locations[k].path, q.url)
    BY <1>1, <1>3, PrefixCovers
<1>7. i \in covering /\ \A k \in covering : Len(locations[k].path) <= Len(locations[i].path)
    BY <1>4, <1>5, <1>6
<1>8. locations[i] \in Governing(q)
    BY <1>7 DEF Governing, locations
<1> QED
    BY <1>8 DEF LocationOf, LocationsOf, i, locations, q

(* A location that may change the site, for a request that is built.           *)
LEMMA HandledMayChange ==
    ASSUME TypeOK, NEW c \in Client, NEW method, Handled(c, method)
    PROVE  MayChange(c, method)
BY RouteGoverns DEF Handled, Permitted, Routed, Building, MayChange

(* An upload that goes on was allowed when it began.                           *)
Uploading ==
    \A c \in Client :
        state[c] = "PROCESSING" /\ buildPhase[c] = "BUILD_POST_WRITING"
            => MayChange(c, "POST")

(* The answers, whatever they are, end the request or leave its phase.         *)
LEMMA PhaseKept ==
    ASSUME TypeOK, NEW c \in Client,
           \/ Refuse(c) \/ Redirect(c) \/ HandleCGI(c) \/ HandleGet(c)
           \/ HandleDelete(c) \/ PostRefused(c) \/ CgiEnds(c) \/ Timeout(c) \/ Drop(c)
    PROVE  /\ \A d \in Client : state'[d] = "PROCESSING" /\ buildPhase'[d] = "BUILD_POST_WRITING"
                => state[d] = "PROCESSING" /\ buildPhase[d] = "BUILD_POST_WRITING"
           /\ UNCHANGED <<request, content>>
           /\ HandleDelete(c) \/ UNCHANGED files
           /\ DOMAIN files' \subseteq DOMAIN files
           /\ DOMAIN files \ DOMAIN files' # {}
                => HandleDelete(c) /\ statusCode'[c] = 204 /\ state'[c] = "WRITING"
<1> USE DEF TypeOK, Answer, BuildErrorPage, site
<1>1. CASE Refuse(c)
    BY <1>1 DEF Refuse
<1>2. CASE Redirect(c)
    BY <1>2 DEF Redirect
<1>3. CASE HandleCGI(c)
    BY <1>3 DEF HandleCGI
<1>4. CASE HandleGet(c)
    BY <1>4 DEF HandleGet, ServeFile
<1>5. CASE HandleDelete(c)
    BY <1>5 DEF HandleDelete
<1>6. CASE PostRefused(c)
    BY <1>6 DEF PostRefused
<1>7. CASE CgiEnds(c)
    BY <1>7 DEF CgiEnds
<1>8. CASE Timeout(c) \/ Drop(c)
    BY <1>8 DEF Timeout, Drop
<1> QED
    BY <1>1, <1>2, <1>3, <1>4, <1>5, <1>6, <1>7, <1>8

(* A slice moves its own client only.                                          *)
LEMMA SliceOthers ==
    ASSUME TypeOK, NEW c \in Client, NEW i, NEW pos, NEW base, Slice(c, i, pos, base)
    PROVE  \A d \in Client \ {c} : state'[d] = state[d] /\ buildPhase'[d] = buildPhase[d]
BY DEF TypeOK, Slice, SliceWrites, SliceFails, Answer, BuildErrorPage

(* No step continues an upload whose location does not allow POST.             *)
LEMMA UploadingStep ==
    ASSUME TypeOK, Uploading, [Next]_vars
    PROVE  Uploading'
<1>1. request' = request
    <2>1. ASSUME NEW c \in Client, Process(c) \/ CgiEnds(c) \/ Timeout(c) \/ Drop(c)
          PROVE  request' = request
        BY <2>1, PhaseKept DEF Process, HandlePost, ContinuePostWrite
    <2> QED
        BY <2>1 DEF Next, vars, Tick
<1>2. SUFFICES ASSUME NEW d \in Client, state'[d] = "PROCESSING",
                      buildPhase'[d] = "BUILD_POST_WRITING"
               PROVE  MayChange(d, "POST")
    BY <1>1 DEF Uploading, MayChange
<1>3. CASE Tick \/ UNCHANGED vars
    BY <1>2, <1>3 DEF Tick, vars, response, Uploading
<1>4. ASSUME NEW c \in Client,
             \/ Refuse(c) \/ Redirect(c) \/ HandleCGI(c) \/ HandleGet(c)
             \/ HandleDelete(c) \/ PostRefused(c) \/ CgiEnds(c) \/ Timeout(c) \/ Drop(c)
      PROVE  MayChange(d, "POST")
    BY <1>2, <1>4, PhaseKept DEF Uploading
<1>5. ASSUME NEW c \in Client, HandlePost(c) PROVE MayChange(d, "POST")
    <2>1. MayChange(c, "POST")
        BY <1>5, HandledMayChange DEF HandlePost
    <2>2. \A e \in Client \ {c} : state'[e] = state[e] /\ buildPhase'[e] = buildPhase[e]
        BY <1>5, SliceOthers DEF HandlePost
    <2> QED
        BY <1>2, <2>1, <2>2 DEF Uploading
<1>6. ASSUME NEW c \in Client, ContinuePostWrite(c) PROVE MayChange(d, "POST")
    <2>1. MayChange(c, "POST")
        BY <1>6 DEF Uploading, ContinuePostWrite
    <2>2. \A e \in Client \ {c} : state'[e] = state[e] /\ buildPhase'[e] = buildPhase[e]
        BY <1>6, SliceOthers DEF ContinuePostWrite
    <2> QED
        BY <1>2, <2>1, <2>2 DEF Uploading
<1> QED
    BY <1>3, <1>4, <1>5, <1>6 DEF Next, Process

(* What one step may change of the site.                                       *)
SiteStep ==
    /\ content' # content \/ DOMAIN files' \ DOMAIN files # {}
         => \E c \in Client : MayChange(c, "POST")
    /\ DOMAIN files \ DOMAIN files' # {}
         => \E c \in Client : /\ MayChange(c, "DELETE")
                              /\ statusCode'[c] = 204 /\ state'[c] = "WRITING"

(* Every step that changes the site is one of a client that may.               *)
LEMMA SiteStepHolds ==
    ASSUME TypeOK, Uploading, [Next]_vars
    PROVE  SiteStep
<1>1. CASE Tick \/ UNCHANGED vars
    BY <1>1 DEF Tick, vars, site, SiteStep
<1>2. ASSUME NEW c \in Client,
             \/ Refuse(c) \/ Redirect(c) \/ HandleCGI(c) \/ HandleGet(c)
             \/ HandleDelete(c) \/ PostRefused(c) \/ CgiEnds(c) \/ Timeout(c) \/ Drop(c)
      PROVE  SiteStep
    <2>1. HandleDelete(c) => MayChange(c, "DELETE")
        BY HandledMayChange DEF HandleDelete
    <2> QED
        BY <1>2, <2>1, PhaseKept DEF SiteStep
<1>3. ASSUME NEW c \in Client, HandlePost(c) PROVE SiteStep
    <2>1. MayChange(c, "POST")
        BY <1>3, HandledMayChange DEF HandlePost
    <2>2. DOMAIN files \subseteq DOMAIN files'
        BY <1>3 DEF HandlePost
    <2> QED
        BY <2>1, <2>2 DEF SiteStep
<1>4. ASSUME NEW c \in Client, ContinuePostWrite(c) PROVE SiteStep
    <2>1. MayChange(c, "POST") /\ UNCHANGED files
        BY <1>4 DEF Uploading, ContinuePostWrite
    <2> QED
        BY <2>1 DEF SiteStep
<1> QED
    BY <1>1, <1>2, <1>3, <1>4 DEF Next, Process

(* The site changes only by requests whose location, the most specific one,    *)
(* allows their method and does not redirect, however the locations lie in     *)
(* each other (buildResponse, matchLocation, _handleDelete).                   *)
THEOREM ChangesAllowedHolds == Spec => ChangesAllowed
<1>1. Init => Uploading
    BY DEF Init, Uploading
<1>2. IInv => TypeOK
    BY DEF IInv
<1>3. TypeOK /\ Uploading /\ [Next]_vars => Uploading'
    BY UploadingStep
<1>4. TypeOK /\ Uploading /\ [Next]_vars => [SiteStep]_vars
    BY SiteStepHolds
<1>5. Spec => [][SiteStep]_vars
    BY <1>1, <1>2, <1>3, <1>4, Invariance, PTL DEF Spec
<1> QED
    BY <1>5 DEF ChangesAllowed, SiteStep

-----------------------------------------------------------------------------
(* Progress.                                                                   *)

(* A slice that does not end its upload writes something, and leaves something *)
(* to write.                                                                   *)
LEMMA SliceAdvances ==
    ASSUME TypeOK, NEW c \in Client, NEW i, NEW pos \in Nat, NEW base,
           Slice(c, i, pos, base), state'[c] = "PROCESSING"
    PROVE  /\ buildPhase'[c] = "BUILD_POST_WRITING"
           /\ pos < postWritePos'[c] /\ postWritePos'[c] < request[c].size
<1>1. ~SliceFails(c, i, pos, base)
    BY DEF SliceFails, BuildErrorPage, Answer, TypeOK
<1>2. PICK n \in Lengths(c, pos) :
        /\ postWritePos' = [postWritePos EXCEPT ![c] = pos + n]
        /\ IF AllWritten(c, pos + n)
           THEN Answer(c, 201)
           ELSE buildPhase' = [buildPhase EXCEPT ![c] = "BUILD_POST_WRITING"]
    BY <1>1 DEF Slice, SliceWrites
<1>3. ~Answer(c, 201)
    BY DEF Answer, TypeOK
<1>4. ~AllWritten(c, pos + n) /\ buildPhase'[c] = "BUILD_POST_WRITING"
    BY <1>2, <1>3 DEF TypeOK
<1>5. postWritePos'[c] = pos + n
    BY <1>2 DEF TypeOK
<1>6. PICK size \in Nat : size = request[c].size
    BY RequestFacts
<1>7. pos + n < size
    <2>1. n \in Int
        BY <1>6, SizesAssumption DEF Lengths, Least
    <2> QED
        BY <1>4, <1>6, <2>1 DEF AllWritten
<1>8. n > 0
    BY <1>6, <1>7, SizesAssumption DEF Lengths, Least
<1>9. n \in Nat
    BY <1>6, <1>8, SizesAssumption DEF Lengths, Least
<1> QED
    BY <1>4, <1>5, <1>6, <1>7, <1>8, <1>9

(* A request goes to a handler once, and as long as it is in PROCESSING each   *)
(* slice brings its upload further: an upload ends after as many slices as it  *)
(* has bytes at the latest.                                                    *)
Advances ==
    \A c \in Client :
        Process(c) /\ state'[c] = "PROCESSING" =>
            /\ buildPhase'[c] = "BUILD_POST_WRITING"
            /\ postWritePos'[c] < request[c].size
            /\ Building(c) \/ postWritePos[c] < postWritePos'[c]

LEMMA AdvancesStep ==
    ASSUME IInv
    PROVE  Advances
<1> SUFFICES ASSUME NEW c \in Client, Process(c), state'[c] = "PROCESSING"
             PROVE  /\ buildPhase'[c] = "BUILD_POST_WRITING"
                    /\ postWritePos'[c] < request[c].size
                    /\ Building(c) \/ postWritePos[c] < postWritePos'[c]
    BY DEF Advances
<1>1. TypeOK
    BY DEF IInv
<1> USE <1>1 DEF TypeOK, BuildErrorPage, Answer
<1>2. ~Refuse(c) /\ ~Redirect(c) /\ ~HandleCGI(c)
    BY DEF Refuse, Redirect, HandleCGI
<1>3. ~HandleGet(c)
    BY DEF HandleGet, ServeFile
<1>4. ~HandleDelete(c) /\ ~PostRefused(c)
    BY DEF HandleDelete, PostRefused
<1>5. CASE HandlePost(c)
    <2>1. Building(c)
        BY <1>5 DEF HandlePost, Handled, Permitted, Routed
    <2>2. \E i, base : Slice(c, i, 0, base)
        BY <1>5 DEF HandlePost
    <2> QED
        BY <2>1, <2>2, SliceAdvances
<1>6. CASE ContinuePostWrite(c)
    <2>1. Slice(c, postOutFd[c], postWritePos[c], content) /\ postWritePos[c] \in Nat
        BY <1>6 DEF ContinuePostWrite
    <2> QED
        BY <2>1, SliceAdvances
<1> QED
    BY <1>2, <1>3, <1>4, <1>5, <1>6 DEF Process

(* Whatever the writes take, an upload is not continued for ever: the part of  *)
(* Answered that needs no fairness (_handlePost, _continuePostWrite).          *)
THEOREM EverySliceAdvances == Spec => [][Advances]_vars
<1>1. IInv => Advances
    BY AdvancesStep
<1> QED
    BY <1>1, Invariance, PTL
=============================================================================
