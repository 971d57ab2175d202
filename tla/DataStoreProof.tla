--------------------------- MODULE DataStoreProof ---------------------------
(* DataStore implements ByteStore, for any stores, bytes, limit and number of  *)
(* files.                                                                      *)
EXTENDS DataStore, SequenceTheorems, TLAPS

(* The inductive invariant.                                                    *)
Inv == TypeOK /\ Holds /\ FilesOwned

-----------------------------------------------------------------------------
(* Sequences.                                                                  *)

(* What an append leaves of what was there, and of a whole sequence.           *)
LEMMA PrefixKept ==
    ASSUME NEW S, NEW s \in Seq(S), NEW t \in Seq(S)
    PROVE  /\ s \o t \in Seq(S)
           /\ Len(s \o t) = Len(s) + Len(t)
           /\ SubSeq(s, 1, Len(s)) = s
           /\ SubSeq(s \o t, 1, Len(s)) = s
<1>1. s \o t \in Seq(S) /\ Len(s \o t) = Len(s) + Len(t)
  BY ConcatProperties
<1>2. \A i \in 1..Len(s) : (s \o t)[i] = s[i]
  BY ConcatProperties
<1>3. SubSeq(s, 1, Len(s)) = s
  OBVIOUS
<1>4. SubSeq(s \o t, 1, Len(s)) = s
  BY <1>1, <1>2
<1> QED
  BY <1>1, <1>3, <1>4

(* A read that stays within the bytes returns as many as it asked for.         *)
LEMMA ReadWithin ==
    ASSUME NEW S, NEW s \in Seq(S), NEW from \in Nat, NEW n \in Nat,
           from + n <= Len(s)
    PROVE  /\ ReadAt(s, from, n) = SubSeq(s, from + 1, from + n)
           /\ ReadAt(s, from, n) \in Seq(S)
           /\ Len(ReadAt(s, from, n)) = n
<1>1. Least(from + n, Len(s)) = from + n
  BY DEF Least
<1>2. ReadAt(s, from, n) = SubSeq(s, from + 1, from + n)
  BY <1>1 DEF ReadAt
<1>3. SubSeq(s, from + 1, from + n) \in Seq(S)
  OBVIOUS
<1>4. Len(SubSeq(s, from + 1, from + n)) = n
  OBVIOUS
<1> QED
  BY <1>2, <1>3, <1>4

(* The data of one append.                                                     *)
LEMMA PieceSeq ==
    \A data \in Piece : data \in Seq(Byte) /\ Len(data) \in Nat
<1>1. \A b \in Byte : <<b>> \in Seq(Byte) /\ Len(<<b>>) \in Nat
  OBVIOUS
<1>2. \A b, c \in Byte : <<b, c>> \in Seq(Byte) /\ Len(<<b, c>>) \in Nat
  OBVIOUS
<1>3. ASSUME NEW data \in Piece
      PROVE  data \in Seq(Byte) /\ Len(data) \in Nat
  <2>1. CASE \E b \in Byte : data = <<b>>
    BY <1>1, <2>1
  <2>2. CASE \E b, c \in Byte : data = <<b, c>>
    BY <1>2, <2>2
  <2> QED
    BY <2>1, <2>2 DEF Piece
<1> QED
  BY <1>3

(* What a failed write left.                                                   *)
LEMMA WrittenSeq ==
    ASSUME NEW b \in Byte, NEW n \in {0, 1}
    PROVE  [i \in 1..n |-> b] \in Seq(Byte) /\ Len([i \in 1..n |-> b]) = n
  OBVIOUS

-----------------------------------------------------------------------------
(* Files.                                                                      *)

(* The file of a store that is in file mode.                                   *)
LEMMA FileOf ==
    ASSUME Inv, NEW s \in Store, mode[s] = "FILE_MODE"
    PROVE  path[s] \in Name /\ disk[path[s]] \in Seq(Byte)
<1>1. path[s] \in Name
  BY DEF Inv, TypeOK, Holds
<1>2. disk[path[s]] \in Seq(Byte) \cup {NoFile} /\ disk[path[s]] # NoFile
  BY <1>1 DEF Inv, TypeOK, Holds
<1> QED
  BY <1>1, <1>2

(* A name belongs to a store in file mode, whose file exists.                  *)
LEMMA Named ==
    ASSUME Inv, NEW s \in Store, path[s] # NoName
    PROVE  mode[s] = "FILE_MODE" /\ path[s] \in Name /\ disk[path[s]] # NoFile
  BY DEF Inv, TypeOK, Holds

(* A new name is nobody's.                                                     *)
LEMMA NewIsFree ==
    ASSUME Inv, NEW n \in Name, NewName(n)
    PROVE  /\ disk[n] = NoFile /\ n \in Nat /\ n # NoName
           /\ file_counter' \in Nat
           /\ \A s \in Store : path[s] # n
<1>1. n \in Nat /\ n # NoName
  BY StoreAssumption DEF Name
<1>2. disk[n] = NoFile /\ file_counter' \in Nat
  BY <1>1 DEF NewName
<1>3. ASSUME NEW s \in Store, path[s] = n PROVE FALSE
  BY <1>1, <1>2, <1>3, Named
<1> QED
  BY <1>1, <1>2, <1>3

-----------------------------------------------------------------------------
(* What the longer operations do.                                              *)

(* The file of a store on which no call failed has its bytes, no more.         *)
LEMMA WholeFile ==
    ASSUME Inv, NEW s \in Store, mode[s] = "FILE_MODE", ~failed[s]
    PROVE  /\ Len(disk[path[s]]) = currentSize[s]
           /\ SubSeq(disk[path[s]], 1, currentSize[s]) = disk[path[s]]
<1>1. Len(disk[path[s]]) = currentSize[s]
  BY DEF Inv, Holds
<1>2. disk[path[s]] \in Seq(Byte)
  BY FileOf
<1> QED
  BY <1>1, <1>2, PrefixKept

(* The move to a file (switchToFileMode, append).                              *)
LEMMA SwitchEffect ==
    ASSUME Inv, NEW s \in Store, NEW data \in Seq(Byte),
           SwitchAndWrite(s, data)
    PROVE  \E n \in Name :
             /\ \A u \in Store : path[u] # n
             /\ n # NoName /\ disk[n] = NoFile
             /\ dataBuffer[s] \o data \in Seq(Byte)
             /\ Len(dataBuffer[s] \o data) = currentSize[s] + Len(data)
             /\ disk' = [disk EXCEPT ![n] = dataBuffer[s] \o data]
             /\ path' = [path EXCEPT ![s] = n]
             /\ TypeOK'
<1>1. TypeOK
  BY DEF Inv
<1>2. PICK n \in Name :
        /\ NewName(n)
        /\ disk' = [disk EXCEPT ![n] = dataBuffer[s] \o data]
        /\ path' = [path EXCEPT ![s] = n]
  BY DEF SwitchAndWrite
<1>3. /\ \A u \in Store : path[u] # n
      /\ n # NoName /\ disk[n] = NoFile
      /\ file_counter' \in Nat
  BY <1>2, NewIsFree
<1>4. dataBuffer[s] \in Seq(Byte) /\ Len(dataBuffer[s]) = currentSize[s]
  BY <1>1 DEF TypeOK, Inv, Holds, SwitchAndWrite
<1>5. /\ dataBuffer[s] \o data \in Seq(Byte)
      /\ Len(dataBuffer[s] \o data) = currentSize[s] + Len(data)
  BY <1>4, PrefixKept
<1>6. TypeOK'
  <2>1. /\ disk' \in [Name -> Seq(Byte) \cup {NoFile}]
        /\ path' \in [Store -> Name \cup {NoName}]
    BY <1>1, <1>2, <1>5 DEF TypeOK
  <2>2. /\ fileOffset' \in [Store -> Nat]
        /\ currentSize' \in [Store -> Nat]
        /\ dataBuffer' \in [Store -> Seq(Byte)]
        /\ mode' \in [Store -> {"RAM", "FILE_MODE"}]
    BY <1>1, <1>4 DEF TypeOK, SwitchAndWrite
  <2> QED
    BY <1>1, <1>3, <2>1, <2>2 DEF TypeOK, SwitchAndWrite, left
<1> QED
  BY <1>2, <1>3, <1>5, <1>6

(* The bytes of a store.                                                       *)
Bytes(s) == IF mode[s] = "RAM" THEN dataBuffer[s] ELSE disk[path[s]]

(* A read in step returns the bytes after the position (read).                 *)
LEMMA ReadEffect ==
    ASSUME Inv, NEW s \in Store, InStep(s), Read(s)
    PROVE  /\ \E k \in 0..(currentSize[s] - readOffset[s]) :
                /\ k = 0 => readOffset[s] = currentSize[s]
                /\ output' = SubSeq(Bytes(s), readOffset[s] + 1,
                                    readOffset[s] + k)
                /\ readOffset' = [readOffset EXCEPT ![s] = @ + k]
                /\ readOffset'[s] <= currentSize[s]
           /\ TypeOK'
<1>1. TypeOK
  BY DEF Inv
<1>2. PICK length \in {1, 2} :
        LET toRead == Least(length, currentSize[s] - readOffset[s])
        IN  IF mode[s] = "RAM"
            THEN /\ output' = ReadAt(dataBuffer[s], readOffset[s], toRead)
                 /\ UNCHANGED fileOffset
            ELSE /\ output' = ReadAt(disk[path[s]], fileOffset[s], toRead)
                 /\ fileOffset' = [fileOffset EXCEPT ![s] = @ + Len(output')]
  BY DEF Read
<1> DEFINE k == Least(length, currentSize[s] - readOffset[s])
<1>3. /\ currentSize[s] \in Nat /\ readOffset[s] \in Nat
      /\ readOffset[s] <= currentSize[s]
  BY <1>1 DEF TypeOK, Inv, Holds
<1>4. /\ k \in 0..(currentSize[s] - readOffset[s]) /\ k \in Nat
      /\ readOffset[s] + k <= currentSize[s]
      /\ k = 0 => readOffset[s] = currentSize[s]
  BY <1>3 DEF Least
<1>5. Bytes(s) \in Seq(Byte) /\ Len(Bytes(s)) = currentSize[s]
  <2>1. CASE mode[s] = "RAM"
    BY <1>1, <2>1 DEF TypeOK, Inv, Holds, Bytes
  <2>2. CASE mode[s] = "FILE_MODE"
    BY <2>2, FileOf, WholeFile DEF Bytes, Read
  <2> QED
    BY <1>1, <2>1, <2>2 DEF TypeOK
<1>6. /\ output' = ReadAt(Bytes(s), readOffset[s], k)
      /\ fileOffset' \in {fileOffset,
                          [fileOffset EXCEPT ![s] = @ + Len(output')]}
  BY <1>1, <1>2 DEF Bytes, InStep, TypeOK
<1> HIDE DEF k
<1>7. /\ output' = SubSeq(Bytes(s), readOffset[s] + 1, readOffset[s] + k)
      /\ output' \in Seq(Byte) /\ Len(output') = k
  <2>1. readOffset[s] + k <= Len(Bytes(s))
    BY <1>4, <1>5
  <2>2. /\ ReadAt(Bytes(s), readOffset[s], k)
             = SubSeq(Bytes(s), readOffset[s] + 1, readOffset[s] + k)
        /\ ReadAt(Bytes(s), readOffset[s], k) \in Seq(Byte)
        /\ Len(ReadAt(Bytes(s), readOffset[s], k)) = k
    <3>1. Bytes(s) \in Seq(Byte) /\ readOffset[s] \in Nat /\ k \in Nat
      BY <1>3, <1>4, <1>5
    <3> QED
      BY <2>1, <3>1, ReadWithin, Zenon
  <2> QED
    BY <1>6, <2>2
<1>8. readOffset' = [readOffset EXCEPT ![s] = @ + k]
  BY <1>7 DEF Read
<1>9. readOffset' \in [Store -> Nat] /\ readOffset'[s] <= currentSize[s]
  BY <1>1, <1>3, <1>4, <1>8 DEF TypeOK
<1>10. fileOffset' \in [Store -> Nat]
  <2>1. fileOffset' \in {fileOffset, [fileOffset EXCEPT ![s] = @ + k]}
    BY <1>6, <1>7
  <2> QED
    <3>1. fileOffset \in [Store -> Nat] /\ k \in Nat
      BY <1>1, <1>4 DEF TypeOK
    <3>2. CASE fileOffset' = fileOffset
      BY <3>1, <3>2
    <3>3. CASE fileOffset' = [fileOffset EXCEPT ![s] = @ + k]
      BY <3>1, <3>3
    <3> QED
      BY <2>1, <3>2, <3>3
<1>11. TypeOK'
  BY <1>1, <1>7, <1>9, <1>10 DEF TypeOK, Read, left
<1> QED
  BY <1>4, <1>7, <1>8, <1>9, <1>11

-----------------------------------------------------------------------------
(* The invariant is kept, one lemma for each of its parts.                     *)

(* The members have their types (all operations).                              *)
LEMMA TypeInv == ASSUME Inv, [Next]_vars PROVE TypeOK'
<1>1. TypeOK
  BY DEF Inv
<1> USE <1>1 DEF TypeOK, vars, members, left
<1>2. ASSUME NEW s \in Store, AppendBytes(s) PROVE TypeOK'
  <2>1. PICK data \in Piece : \/ AppendRam(s, data) \/ AppendFile(s, data)
                             \/ AppendOver(s, data)
    BY <1>2 DEF AppendBytes
  <2>2. data \in Seq(Byte) /\ Len(data) \in Nat
    BY PieceSeq
  <2>3. CASE AppendRam(s, data)
    BY <2>2, <2>3 DEF AppendRam
  <2>4. CASE AppendFile(s, data)
    <3>1. path[s] \in Name /\ disk[path[s]] \in Seq(Byte)
      BY <2>4, FileOf DEF AppendFile
    <3>2. disk[path[s]] \o data \in Seq(Byte)
      BY <2>2, <3>1
    <3>3. disk' \in [Name -> Seq(Byte) \cup {NoFile}]
      BY <2>4, <3>1, <3>2 DEF AppendFile
    <3>4. fileOffset' \in [Store -> Nat]
      BY <2>2, <2>4, <3>1 DEF AppendFile
    <3>5. currentSize' \in [Store -> Nat]
      BY <2>2, <2>4 DEF AppendFile
    <3> QED
      BY <2>4, <3>3, <3>4, <3>5 DEF AppendFile
  <2>5. CASE AppendOver(s, data)
    BY <2>2, <2>5, SwitchEffect DEF AppendOver
  <2> QED
    BY <2>1, <2>3, <2>4, <2>5
<1>3. ASSUME NEW s \in Store, SwitchToFileMode(s) PROVE TypeOK'
  <2>1. <<>> \in Seq(Byte)
    OBVIOUS
  <2> QED
    BY <1>3, <2>1, SwitchEffect DEF SwitchToFileMode
<1>4. ASSUME NEW s \in Store, ResetReadPosition(s) PROVE TypeOK'
  BY <1>4 DEF ResetReadPosition
<1>5. ASSUME NEW s \in Store, Clear(s) PROVE TypeOK'
  BY <1>5 DEF Clear
<1>6. ASSUME NEW s \in Store, AppendFails(s) PROVE TypeOK'
  <2>1. path[s] \in Name /\ disk[path[s]] \in Seq(Byte)
    BY <1>6, FileOf DEF AppendFails
  <2>2. PICK b \in Byte, n \in {0, 1} :
          /\ disk' = [disk EXCEPT ![path[s]] = @ \o [i \in 1..n |-> b]]
          /\ fileOffset' = [fileOffset EXCEPT ![s] = Len(disk[path[s]]) + n]
    BY <1>6 DEF AppendFails
  <2>3. disk[path[s]] \o [i \in 1..n |-> b] \in Seq(Byte)
    BY <2>1, WrittenSeq
  <2>4. disk' \in [Name -> Seq(Byte) \cup {NoFile}]
    BY <2>1, <2>2, <2>3
  <2>5. fileOffset' \in [Store -> Nat]
    BY <2>1, <2>2
  <2> QED
    BY <1>6, <2>4, <2>5 DEF AppendFails
<1>7. ASSUME NEW s \in Store, ReadFails(s) PROVE TypeOK'
  BY <1>7 DEF ReadFails
<1>8. ASSUME NEW s \in Store, CreationFails(s) PROVE TypeOK'
  <2>1. PICK n \in Name :
          /\ NewName(n)
          /\ \/ /\ disk' = [disk EXCEPT ![n] = <<>>]
                /\ orphans' = orphans \cup {n}
             \/ UNCHANGED <<disk, orphans>>
    BY <1>8 DEF CreationFails
  <2>2. file_counter' \in Nat
    BY <2>1, NewIsFree
  <2>3. /\ disk' \in [Name -> Seq(Byte) \cup {NoFile}]
        /\ orphans' \subseteq Name
    <3>1. <<>> \in Seq(Byte)
      OBVIOUS
    <3> QED
      BY <2>1, <3>1
  <2> QED
    BY <1>8, <2>2, <2>3 DEF CreationFails
<1>9. ASSUME NEW s \in Store, NEW t \in Store, Assign(s, t) PROVE TypeOK'
  <2>1. CASE mode[t] = "RAM"
    <3>1. AssignRam(s)
      BY <1>9, <2>1 DEF Assign
    <3>2. path' \in [Store -> Name \cup {NoName}]
      BY <3>1 DEF AssignRam
    <3>3. /\ disk' \in [Name -> Seq(Byte) \cup {NoFile}]
          /\ file_counter' \in Nat
      BY <3>1 DEF AssignRam
    <3> QED
      BY <1>9, <3>2, <3>3 DEF Assign
  <2>2. CASE mode[t] = "FILE_MODE"
    <3>1. AssignFile(s, t)
      BY <1>9, <2>2 DEF Assign
    <3>2. PICK n \in Name :
            /\ NewName(n)
            /\ path' = [path EXCEPT ![s] = n]
            /\ disk' = [k \in Name |->
                          IF k = n
                          THEN SubSeq(disk[path[t]], 1, currentSize[t])
                          ELSE IF k = path[s] THEN NoFile ELSE disk[k]]
      BY <3>1 DEF AssignFile
    <3>3. SubSeq(disk[path[t]], 1, currentSize[t]) = disk[path[t]]
      BY <1>9, <2>2, WholeFile DEF Assign
    <3>4. /\ path' \in [Store -> Name \cup {NoName}]
          /\ disk' \in [Name -> Seq(Byte) \cup {NoFile}]
          /\ file_counter' \in Nat
      BY <2>2, <3>2, <3>3, FileOf, NewIsFree
    <3> QED
      BY <1>9, <3>4 DEF Assign
  <2> QED
    BY <2>1, <2>2
<1>10. ASSUME Crash PROVE TypeOK'
  BY <1>10 DEF Crash
<1>11. ASSUME NEW s \in Store, InStep(s), Read(s) PROVE TypeOK'
  BY <1>11, ReadEffect
<1>12. ASSUME UNCHANGED vars PROVE TypeOK'
  BY <1>12
<1> QED
  BY <1>2, <1>3, <1>4, <1>5, <1>6, <1>7, <1>8, <1>9, <1>10, <1>11, <1>12
     DEF Next, Change

-----------------------------------------------------------------------------
(* What an operation on one store leaves of the others.                        *)

Kept(u) ==
    /\ mode'[u] = mode[u] /\ dataBuffer'[u] = dataBuffer[u]
    /\ currentSize'[u] = currentSize[u] /\ readOffset'[u] = readOffset[u]
    /\ path'[u] = path[u] /\ failed'[u] = failed[u]
    /\ mode[u] = "FILE_MODE" => disk'[path[u]] = disk[path[u]]

OneStep(s) ==
    \/ AppendBytes(s) \/ SwitchToFileMode(s) \/ ResetReadPosition(s) \/ Clear(s)
    \/ AppendFails(s) \/ ReadFails(s) \/ CreationFails(s)
    \/ InStep(s) /\ Read(s)
    \/ \E t \in Store : Assign(s, t)

(* The steps of the server: one on a store, a crash, or none.                  *)
LEMMA Steps ==
    ASSUME [Next]_vars
    PROVE  (\E s \in Store : OneStep(s)) \/ Crash \/ UNCHANGED vars
  BY DEF Next, Change, OneStep

(* No store keeps its bytes in the file of another (OneOwner), and a new file  *)
(* has a name of its own, so what one store does leaves the others alone.      *)
LEMMA OthersKept ==
    ASSUME Inv, NEW s \in Store, OneStep(s), NEW u \in Store, u # s
    PROVE  Kept(u)
<1>1. TypeOK /\ OneOwner
  BY DEF Inv, FilesOwned
<1>2. ASSUME mode[u] = "FILE_MODE"
      PROVE  path[u] \in Name /\ path[u] # NoName /\ path[u] # path[s]
  BY <1>1, <1>2, FileOf DEF Inv, Holds, OneOwner
<1>3. ASSUME NEW data \in Seq(Byte), SwitchAndWrite(s, data) PROVE Kept(u)
  <2>1. PICK n \in Name :
          /\ path[u] # n
          /\ disk' = [disk EXCEPT ![n] = dataBuffer[s] \o data]
          /\ path' = [path EXCEPT ![s] = n]
    BY <1>3, SwitchEffect
  <2>2. mode[u] = "FILE_MODE" => disk'[path[u]] = disk[path[u]]
    BY <1>1, <1>2, <2>1 DEF TypeOK
  <2> QED
    BY <1>1, <1>3, <2>1, <2>2 DEF TypeOK, SwitchAndWrite, Kept
<1>4. CASE AppendBytes(s)
  <2>1. PICK data \in Piece : \/ AppendRam(s, data) \/ AppendFile(s, data)
                             \/ AppendOver(s, data)
    BY <1>4 DEF AppendBytes
  <2>2. data \in Seq(Byte)
    BY PieceSeq
  <2>3. CASE AppendRam(s, data)
    BY <1>1, <2>3 DEF TypeOK, AppendRam, Kept
  <2>4. CASE AppendFile(s, data)
    <3>1. \A k \in Name : k # path[s] => disk'[k] = disk[k]
      BY <1>1, <2>4 DEF TypeOK, AppendFile
    <3>2. mode[u] = "FILE_MODE" => disk'[path[u]] = disk[path[u]]
      BY <1>2, <3>1
    <3> QED
      BY <1>1, <2>4, <3>2 DEF TypeOK, AppendFile, Kept
  <2>5. CASE AppendOver(s, data)
    BY <1>3, <2>2, <2>5 DEF AppendOver
  <2> QED
    BY <2>1, <2>3, <2>4, <2>5
<1>5. CASE SwitchToFileMode(s)
  <2>1. <<>> \in Seq(Byte)
    OBVIOUS
  <2> QED
    BY <1>3, <1>5, <2>1 DEF SwitchToFileMode
<1>6. CASE ResetReadPosition(s)
  BY <1>1, <1>6 DEF TypeOK, ResetReadPosition, Kept
<1>7. CASE Clear(s)
  BY <1>1, <1>2, <1>7 DEF TypeOK, Clear, Kept
<1>8. CASE AppendFails(s)
  <2>1. \A k \in Name : k # path[s] => disk'[k] = disk[k]
    BY <1>1, <1>8 DEF TypeOK, AppendFails
  <2>2. mode[u] = "FILE_MODE" => disk'[path[u]] = disk[path[u]]
    BY <1>2, <2>1
  <2> QED
    BY <1>1, <1>8, <2>2 DEF TypeOK, AppendFails, Kept
<1>9. CASE ReadFails(s)
  BY <1>1, <1>9 DEF TypeOK, ReadFails, Kept
<1>10. CASE CreationFails(s)
  <2>1. PICK n \in Name :
          NewName(n) /\ (disk' = [disk EXCEPT ![n] = <<>>] \/ disk' = disk)
    BY <1>10 DEF CreationFails
  <2>2. path[u] # n
    BY <2>1, NewIsFree
  <2> QED
    BY <1>1, <1>2, <1>10, <2>1, <2>2
       DEF TypeOK, CreationFails, members, Kept
<1>11. CASE InStep(s) /\ Read(s)
  BY <1>1, <1>11, ReadEffect DEF TypeOK, Read, Kept
<1>12. CASE \E t \in Store : Assign(s, t)
  <2>1. PICK t \in Store : Assign(s, t)
    BY <1>12
  <2>2. CASE mode[t] = "RAM"
    BY <1>1, <1>2, <2>1, <2>2 DEF TypeOK, Assign, AssignRam, Kept
  <2>3. CASE mode[t] # "RAM"
    <3>1. PICK n \in Name :
            /\ NewName(n)
            /\ path' = [path EXCEPT ![s] = n]
            /\ disk' = [k \in Name |->
                          IF k = n
                          THEN SubSeq(disk[path[t]], 1, currentSize[t])
                          ELSE IF k = path[s] THEN NoFile ELSE disk[k]]
      BY <2>1, <2>3 DEF Assign, AssignFile
    <3>2. path[u] # n
      BY <3>1, NewIsFree
    <3> QED
      BY <1>1, <1>2, <2>1, <3>1, <3>2 DEF TypeOK, Assign, Kept
  <2> QED
    BY <2>2, <2>3
<1> QED
  BY <1>4, <1>5, <1>6, <1>7, <1>8, <1>9, <1>10, <1>11, <1>12 DEF OneStep

-----------------------------------------------------------------------------
(* What an operation leaves of the store it is called on.                      *)

HoldsAt(s) ==
    /\ mode[s] = "RAM" => path[s] = NoName /\ Len(dataBuffer[s]) = currentSize[s]
    /\ mode[s] = "FILE_MODE" =>
         /\ path[s] # NoName /\ dataBuffer[s] = <<>>
         /\ disk[path[s]] # NoFile
         /\ Len(disk[path[s]]) = currentSize[s] \/ failed[s]
    /\ readOffset[s] <= currentSize[s]

(* The bytes that a store shows its users.                                     *)
Shown(s) ==
    IF mode[s] = "RAM" THEN dataBuffer[s]
    ELSE SubSeq(disk[path[s]], 1, currentSize[s])

(* Without a failure these are all its bytes.                                  *)
LEMMA ShownWhole ==
    ASSUME Inv, NEW s \in Store, ~failed[s]
    PROVE  /\ Shown(s) = Bytes(s) /\ Bytes(s) \in Seq(Byte)
           /\ Len(Bytes(s)) = currentSize[s]
<1>1. CASE mode[s] = "RAM"
  BY <1>1 DEF Inv, TypeOK, Holds, Shown, Bytes
<1>2. CASE mode[s] = "FILE_MODE"
  BY <1>2, FileOf, WholeFile DEF Shown, Bytes
<1> QED
  BY <1>1, <1>2 DEF Inv, TypeOK

(* The store after the step: it holds what it counts, and shows the bytes of   *)
(* the abstract step.                                                          *)
LEMMA SwitchOwn ==
    ASSUME Inv, NEW s \in Store, NEW data \in Seq(Byte),
           SwitchAndWrite(s, data)
    PROVE  HoldsAt(s)' /\ Shown(s)' = Bytes(s) \o data
<1>1. TypeOK
  BY DEF Inv
<1>2. PICK n \in Name :
        /\ n # NoName
        /\ dataBuffer[s] \o data \in Seq(Byte)
        /\ Len(dataBuffer[s] \o data) = currentSize[s] + Len(data)
        /\ disk' = [disk EXCEPT ![n] = dataBuffer[s] \o data]
        /\ path' = [path EXCEPT ![s] = n]
  BY SwitchEffect
<1> DEFINE all == dataBuffer[s] \o data
<1>3. /\ mode'[s] = "FILE_MODE" /\ dataBuffer'[s] = <<>>
      /\ currentSize'[s] = currentSize[s] + Len(data)
      /\ readOffset'[s] = readOffset[s]
      /\ path'[s] = n /\ disk'[n] = all
  BY <1>1, <1>2 DEF TypeOK, SwitchAndWrite
<1>4. readOffset[s] <= currentSize[s] + Len(data)
  BY <1>1 DEF TypeOK, Inv, Holds
<1>5. SubSeq(all, 1, Len(all)) = all /\ all # NoFile
  <2>1. all \in Seq(Byte)
    BY <1>2
  <2> HIDE DEF all
  <2> QED
    BY <2>1, PrefixKept, StoreAssumption
<1>6. all = Bytes(s) \o data
  BY DEF SwitchAndWrite, Bytes
<1>7. Len(all) = currentSize[s] + Len(data)
  BY <1>2
<1> HIDE DEF all
<1>8. HoldsAt(s)'
  BY <1>2, <1>3, <1>4, <1>5, <1>7 DEF HoldsAt
<1>9. Shown(s)' = all
  BY <1>3, <1>5, <1>7 DEF Shown
<1> QED
  BY <1>6, <1>8, <1>9

LEMMA AppendOwn ==
    ASSUME Inv, NEW s \in Store, AppendBytes(s)
    PROVE  /\ HoldsAt(s)'
           /\ Shown(s)' \in Seq(Byte)
           /\ Len(Shown(s)) <= Len(Shown(s)')
           /\ SubSeq(Shown(s)', 1, Len(Shown(s))) = Shown(s)
<1>1. TypeOK /\ ~failed[s]
  BY DEF Inv, AppendBytes
<1>2. PICK data \in Piece : \/ AppendRam(s, data) \/ AppendFile(s, data)
                           \/ AppendOver(s, data)
  BY DEF AppendBytes
<1>3. data \in Seq(Byte) /\ Len(data) \in Nat
  BY PieceSeq
<1>4. /\ Shown(s) = Bytes(s) /\ Bytes(s) \in Seq(Byte)
      /\ Len(Bytes(s)) = currentSize[s]
  BY <1>1, ShownWhole
<1>5. /\ Bytes(s) \o data \in Seq(Byte)
      /\ Len(Bytes(s) \o data) = currentSize[s] + Len(data)
      /\ SubSeq(Bytes(s) \o data, 1, Len(Bytes(s))) = Bytes(s)
      /\ SubSeq(Bytes(s) \o data, 1, currentSize[s] + Len(data))
           = Bytes(s) \o data
  <2>1. PICK b \in Seq(Byte) : b = Bytes(s)
    BY <1>4
  <2>2. /\ b \o data \in Seq(Byte) /\ Len(b \o data) = Len(b) + Len(data)
        /\ SubSeq(b \o data, 1, Len(b)) = b
    BY <1>3, <2>1, PrefixKept
  <2>3. SubSeq(b \o data, 1, Len(b \o data)) = b \o data
    BY <2>2, PrefixKept
  <2> QED
    BY <1>4, <2>1, <2>2, <2>3
<1>6. /\ currentSize[s] \in Nat /\ readOffset[s] \in Nat
      /\ readOffset[s] <= currentSize[s]
  <2>1. Holds
    BY DEF Inv
  <2>2. readOffset[s] <= currentSize[s]
    BY <2>1 DEF Holds
  <2>3. currentSize[s] \in Nat /\ readOffset[s] \in Nat
    BY <1>1 DEF TypeOK
  <2> QED
    BY <2>2, <2>3
<1>7. HoldsAt(s)' /\ Shown(s)' = Bytes(s) \o data
  <2>1. CASE AppendRam(s, data)
    <3>1. /\ mode'[s] = "RAM" /\ mode[s] = "RAM" /\ path'[s] = path[s]
          /\ dataBuffer'[s] = Bytes(s) \o data
          /\ currentSize'[s] = currentSize[s] + Len(data)
          /\ readOffset'[s] = readOffset[s]
      BY <1>1, <2>1 DEF TypeOK, AppendRam, Bytes
    <3>2. path[s] = NoName
      BY <3>1 DEF Inv, Holds
    <3> QED
      BY <1>3, <1>5, <1>6, <3>1, <3>2 DEF HoldsAt, Shown
  <2>2. CASE AppendFile(s, data)
    <3>1. path[s] \in Name /\ path[s] # NoName /\ dataBuffer[s] = <<>>
      BY <2>2, FileOf DEF AppendFile, Inv, Holds
    <3>2. /\ mode'[s] = "FILE_MODE" /\ path'[s] = path[s]
          /\ dataBuffer'[s] = dataBuffer[s]
          /\ disk'[path[s]] = Bytes(s) \o data
          /\ currentSize'[s] = currentSize[s] + Len(data)
          /\ readOffset'[s] = readOffset[s]
      BY <1>1, <2>2, <3>1 DEF TypeOK, AppendFile, Bytes
    <3>3. Bytes(s) \o data # NoFile
      BY <1>5, StoreAssumption
    <3>4. HoldsAt(s)'
      <4>1. /\ readOffset'[s] <= currentSize'[s]
            /\ Len(disk'[path[s]]) = currentSize'[s]
        BY <1>3, <1>5, <1>6, <3>2
      <4> QED
        BY <3>1, <3>2, <3>3, <4>1 DEF HoldsAt
    <3>5. Shown(s)' = Bytes(s) \o data
      BY <1>5, <3>2 DEF Shown
    <3> QED
      BY <3>4, <3>5
  <2>3. CASE AppendOver(s, data)
    <3>1. SwitchAndWrite(s, data)
      BY <2>3 DEF AppendOver
    <3> QED
      BY <1>3, <1>5, <3>1, SwitchOwn
  <2> QED
    BY <1>2, <2>1, <2>2, <2>3
<1> QED
  BY <1>3, <1>4, <1>5, <1>6, <1>7

LEMMA ReadOwn ==
    ASSUME Inv, NEW s \in Store, InStep(s), Read(s)
    PROVE  HoldsAt(s)' /\ Shown(s)' = Shown(s)
<1>1. readOffset'[s] <= currentSize[s]
  BY ReadEffect
<1>2. HoldsAt(s)
  BY DEF Inv, Holds, HoldsAt
<1> QED
  BY <1>1, <1>2 DEF Read, HoldsAt, Shown

LEMMA ResetOwn ==
    ASSUME Inv, NEW s \in Store, ResetReadPosition(s) \/ ReadFails(s)
    PROVE  /\ HoldsAt(s)' /\ Shown(s)' = Shown(s)
<1>1. HoldsAt(s) /\ TypeOK
  BY DEF Inv, Holds, HoldsAt
<1>2. /\ readOffset'[s] \in {readOffset[s], 0} /\ currentSize[s] \in Nat
      /\ failed[s] => failed'[s]
      /\ UNCHANGED <<mode, dataBuffer, currentSize, path, disk>>
  BY <1>1 DEF TypeOK, ResetReadPosition, ReadFails
<1> QED
  BY <1>1, <1>2 DEF HoldsAt, Shown

LEMMA ClearOwn ==
    ASSUME Inv, NEW s \in Store, Clear(s)
    PROVE  HoldsAt(s)' /\ Shown(s)' = <<>>
<1>1. TypeOK
  BY DEF Inv
<1>2. /\ mode'[s] = "RAM" /\ dataBuffer'[s] = <<>> /\ currentSize'[s] = 0
      /\ readOffset'[s] = 0 /\ path'[s] = NoName
  BY <1>1 DEF TypeOK, Clear
<1> QED
  BY <1>2 DEF HoldsAt, Shown

LEMMA AppendFailsOwn ==
    ASSUME Inv, NEW s \in Store, AppendFails(s)
    PROVE  HoldsAt(s)' /\ Shown(s)' = Shown(s)
<1>1. TypeOK /\ HoldsAt(s) /\ mode[s] = "FILE_MODE" /\ ~failed[s]
  BY DEF Inv, Holds, HoldsAt, AppendFails
<1>2. path[s] \in Name /\ disk[path[s]] \in Seq(Byte)
  BY <1>1, FileOf
<1>3. PICK b \in Byte, n \in {0, 1} :
        disk' = [disk EXCEPT ![path[s]] = @ \o [i \in 1..n |-> b]]
  BY DEF AppendFails
<1> DEFINE w == [i \in 1..n |-> b]
<1>4. w \in Seq(Byte)
  BY WrittenSeq
<1>5. disk'[path[s]] = disk[path[s]] \o w
  BY <1>1, <1>2, <1>3 DEF TypeOK
<1> HIDE DEF w
<1>6. /\ Len(disk[path[s]]) = currentSize[s]
      /\ SubSeq(disk[path[s]], 1, currentSize[s]) = disk[path[s]]
  BY <1>1, WholeFile
<1>7. /\ disk[path[s]] \o w \in Seq(Byte)
      /\ SubSeq(disk[path[s]] \o w, 1, Len(disk[path[s]])) = disk[path[s]]
  BY <1>2, <1>4, PrefixKept
<1>8. failed'[s] /\ disk'[path[s]] # NoFile
  BY <1>1, <1>5, <1>7, StoreAssumption DEF TypeOK, AppendFails
<1>9. UNCHANGED <<mode, dataBuffer, currentSize, readOffset, path>>
  BY DEF AppendFails
<1>10. HoldsAt(s)'
  BY <1>1, <1>8, <1>9 DEF HoldsAt
<1>11. Shown(s)' = Shown(s)
  BY <1>1, <1>5, <1>6, <1>7, <1>9 DEF Shown
<1> QED
  BY <1>10, <1>11

LEMMA CreationFailsOwn ==
    ASSUME Inv, NEW s \in Store, CreationFails(s)
    PROVE  HoldsAt(s)' /\ Shown(s)' = Shown(s)
<1>1. TypeOK /\ HoldsAt(s)
  BY DEF Inv, Holds, HoldsAt
<1>2. PICK n \in Name :
        NewName(n) /\ (disk' = [disk EXCEPT ![n] = <<>>] \/ disk' = disk)
  BY DEF CreationFails
<1>3. path[s] # n
  BY <1>2, NewIsFree
<1>4. failed'[s] /\ UNCHANGED members
  BY <1>1 DEF TypeOK, CreationFails
<1>5. mode[s] = "FILE_MODE" => disk'[path[s]] = disk[path[s]]
  BY <1>1, <1>2, <1>3, FileOf DEF TypeOK
<1>6. mode[s] \in {"RAM", "FILE_MODE"}
  BY <1>1 DEF TypeOK
<1> QED
  BY <1>1, <1>4, <1>5, <1>6 DEF HoldsAt, Shown, members

LEMMA AssignOwn ==
    ASSUME Inv, NEW s \in Store, NEW t \in Store, Assign(s, t)
    PROVE  HoldsAt(s)' /\ Shown(s)' = Shown(t)
<1>1. TypeOK /\ HoldsAt(t) /\ ~failed[t]
  BY DEF Inv, Holds, HoldsAt, Assign
<1>2. /\ Shown(t) = Bytes(t) /\ Bytes(t) \in Seq(Byte)
      /\ Len(Bytes(t)) = currentSize[t] /\ currentSize[t] \in Nat
  BY <1>1, ShownWhole DEF TypeOK
<1>3. /\ mode'[s] = mode[t] /\ dataBuffer'[s] = dataBuffer[t]
      /\ currentSize'[s] = currentSize[t] /\ readOffset'[s] = 0
  BY <1>1 DEF TypeOK, Assign
<1>4. CASE mode[t] = "RAM"
  <2>1. path'[s] = NoName
    BY <1>1, <1>4 DEF TypeOK, Assign, AssignRam
  <2> QED
    BY <1>1, <1>2, <1>3, <1>4, <2>1 DEF HoldsAt, Shown
<1>5. CASE mode[t] = "FILE_MODE"
  <2>1. PICK n \in Name :
          /\ NewName(n)
          /\ path' = [path EXCEPT ![s] = n]
          /\ disk' = [k \in Name |->
                        IF k = n
                        THEN SubSeq(disk[path[t]], 1, currentSize[t])
                        ELSE IF k = path[s] THEN NoFile ELSE disk[k]]
    BY <1>5 DEF Assign, AssignFile
  <2>2. n # NoName
    BY <2>1, NewIsFree
  <2>3. SubSeq(disk[path[t]], 1, currentSize[t]) = Bytes(t)
    BY <1>1, <1>5, WholeFile DEF Bytes
  <2>4. path'[s] = n /\ disk'[n] = Bytes(t)
    BY <1>1, <2>1, <2>3 DEF TypeOK
  <2>5. Bytes(t) # NoFile /\ SubSeq(Bytes(t), 1, currentSize[t]) = Bytes(t)
    BY <1>2, <1>5, <2>3, StoreAssumption DEF Bytes
  <2> QED
    BY <1>1, <1>2, <1>3, <1>5, <2>2, <2>4, <2>5 DEF HoldsAt, Shown
<1> QED
  BY <1>1, <1>4, <1>5 DEF TypeOK

(* A store on which an operation is called holds what it counts.               *)
LEMMA OwnHolds ==
    ASSUME Inv, NEW s \in Store, OneStep(s) PROVE HoldsAt(s)'
<1>1. CASE SwitchToFileMode(s)
  <2>1. <<>> \in Seq(Byte)
    OBVIOUS
  <2> QED
    BY <1>1, <2>1, SwitchOwn DEF SwitchToFileMode
<1> QED
  BY <1>1, AppendOwn, ReadOwn, ResetOwn, ClearOwn, AppendFailsOwn,
     CreationFailsOwn, AssignOwn DEF OneStep

(* The name it has afterwards is the old one, a new one or none, and a file    *)
(* that is there was there before, or is the store's, or an orphan.            *)
LEMMA OwnFiles ==
    ASSUME Inv, NEW s \in Store, OneStep(s)
    PROVE  /\ path'[s] \in {path[s], NoName} \/ \A u \in Store : path[u] # path'[s]
           /\ \A k \in Name : disk'[k] # NoFile =>
                \/ path'[s] = k
                \/ disk[k] # NoFile /\ path[s] # k
                \/ k \in orphans'
           /\ orphans \subseteq orphans' /\ crashed' = crashed
<1>1. TypeOK
  BY DEF Inv
<1>2. ASSUME NEW data \in Seq(Byte), SwitchAndWrite(s, data)
      PROVE  /\ \A u \in Store : path[u] # path'[s]
             /\ \A k \in Name : disk'[k] # NoFile =>
                  path'[s] = k \/ (disk[k] # NoFile /\ path[s] # k)
             /\ orphans \subseteq orphans' /\ crashed' = crashed
  <2>1. PICK n \in Name :
          /\ \A u \in Store : path[u] # n
          /\ disk' = [disk EXCEPT ![n] = dataBuffer[s] \o data]
          /\ path' = [path EXCEPT ![s] = n]
    BY <1>2, SwitchEffect
  <2>2. path[s] = NoName
    BY <1>2 DEF SwitchAndWrite, Inv, Holds
  <2>3. \A k \in Name : k # NoName
    BY StoreAssumption DEF Name
  <2>4. path'[s] = n /\ \A k \in Name : k # n => disk'[k] = disk[k]
    BY <1>1, <2>1 DEF TypeOK
  <2> QED
    BY <1>2, <2>1, <2>2, <2>3, <2>4 DEF SwitchAndWrite, left
<1>3. CASE AppendBytes(s)
  <2>1. PICK data \in Piece : \/ AppendRam(s, data) \/ AppendFile(s, data)
                             \/ AppendOver(s, data)
    BY <1>3 DEF AppendBytes
  <2>2. data \in Seq(Byte)
    BY PieceSeq
  <2>3. CASE AppendRam(s, data)
    <3>1. \A k \in Name : disk[k] # NoFile /\ path[s] = k => path'[s] = k
      BY <2>3 DEF AppendRam
    <3> QED
      BY <1>1, <2>3, <3>1 DEF AppendRam, left
  <2>4. CASE AppendFile(s, data)
    <3>1. \A k \in Name : k # path[s] => disk'[k] = disk[k]
      BY <1>1, <2>4 DEF TypeOK, AppendFile
    <3>2. path' = path /\ orphans' = orphans /\ crashed' = crashed
      BY <2>4 DEF AppendFile, left
    <3> QED
      BY <3>1, <3>2
  <2>5. CASE AppendOver(s, data)
    BY <1>2, <2>2, <2>5 DEF AppendOver
  <2> QED
    BY <2>1, <2>3, <2>4, <2>5
<1>4. CASE SwitchToFileMode(s)
  <2>1. <<>> \in Seq(Byte)
    OBVIOUS
  <2> QED
    BY <1>2, <1>4, <2>1 DEF SwitchToFileMode
<1>5. CASE ResetReadPosition(s) \/ ReadFails(s)
  BY <1>5 DEF ResetReadPosition, ReadFails, left
<1>6. CASE Clear(s)
  BY <1>1, <1>6 DEF TypeOK, Clear, left
<1>7. CASE AppendFails(s)
  <2>1. \A k \in Name : k # path[s] => disk'[k] = disk[k]
    BY <1>1, <1>7 DEF TypeOK, AppendFails
  <2>2. path' = path /\ orphans' = orphans /\ crashed' = crashed
    BY <1>7 DEF AppendFails, left
  <2> QED
    BY <2>1, <2>2
<1>8. CASE CreationFails(s)
  <2>1. PICK n \in Name :
          \/ /\ disk' = [disk EXCEPT ![n] = <<>>]
             /\ orphans' = orphans \cup {n}
          \/ UNCHANGED <<disk, orphans>>
    BY <1>8 DEF CreationFails
  <2>2. path' = path /\ crashed' = crashed
    BY <1>8 DEF CreationFails, members
  <2> QED
    BY <1>1, <2>1, <2>2 DEF TypeOK
<1>9. CASE InStep(s) /\ Read(s)
  BY <1>9 DEF Read, left
<1>10. CASE \E t \in Store : Assign(s, t)
  <2>1. PICK t \in Store : Assign(s, t)
    BY <1>10
  <2>2. orphans' = orphans /\ crashed' = crashed
    BY <2>1 DEF Assign, left
  <2>3. CASE mode[t] = "RAM"
    BY <1>1, <2>1, <2>2, <2>3 DEF TypeOK, Assign, AssignRam
  <2>4. CASE mode[t] # "RAM"
    <3>1. PICK n \in Name :
            /\ NewName(n)
            /\ path' = [path EXCEPT ![s] = n]
            /\ disk' = [k \in Name |->
                          IF k = n
                          THEN SubSeq(disk[path[t]], 1, currentSize[t])
                          ELSE IF k = path[s] THEN NoFile ELSE disk[k]]
      BY <2>1, <2>4 DEF Assign, AssignFile
    <3>2. \A u \in Store : path[u] # n
      BY <3>1, NewIsFree
    <3>3. path'[s] = n
      BY <1>1, <3>1 DEF TypeOK
    <3>4. \A k \in Name : k # n =>
            disk'[k] = IF k = path[s] THEN NoFile ELSE disk[k]
      BY <3>1
    <3> QED
      BY <2>2, <3>2, <3>3, <3>4
  <2> QED
    BY <2>3, <2>4
<1> QED
  BY <1>3, <1>4, <1>5, <1>6, <1>7, <1>8, <1>9, <1>10 DEF OneStep

(* What is there stays, but for the store's own file; a file that a failed     *)
(* call leaves is new and nobody's; and so is a name that the store gets.      *)
LEMMA FilesKept ==
    ASSUME Inv, NEW s \in Store, OneStep(s)
    PROVE  /\ \A k \in Name : disk[k] # NoFile /\ path[s] # k => disk'[k] # NoFile
           /\ \A k \in orphans' : \/ k \in orphans
                                  \/ /\ disk'[k] # NoFile /\ path' = path
                                     /\ \A u \in Store : path[u] # k
           /\ \/ path'[s] \in {path[s], NoName}
              \/ /\ path'[s] \in Name /\ disk[path'[s]] = NoFile
                 /\ orphans' = orphans
<1>1. TypeOK
  BY DEF Inv
<1>2. ASSUME NEW data \in Seq(Byte), SwitchAndWrite(s, data)
      PROVE  /\ \A k \in Name : disk[k] # NoFile => disk'[k] # NoFile
             /\ path'[s] \in Name /\ disk[path'[s]] = NoFile
             /\ orphans' = orphans
  <2>1. PICK n \in Name :
          /\ NewName(n)
          /\ disk' = [disk EXCEPT ![n] = dataBuffer[s] \o data]
          /\ path' = [path EXCEPT ![s] = n]
    BY <1>2 DEF SwitchAndWrite
  <2>2. disk[n] = NoFile
    BY <2>1, NewIsFree
  <2>3. path'[s] = n /\ \A k \in Name : k # n => disk'[k] = disk[k]
    BY <1>1, <2>1 DEF TypeOK
  <2>4. orphans' = orphans
    BY <1>2 DEF SwitchAndWrite, left
  <2> QED
    BY <2>2, <2>3, <2>4
<1>3. CASE AppendBytes(s)
  <2>1. PICK data \in Piece : \/ AppendRam(s, data) \/ AppendFile(s, data)
                             \/ AppendOver(s, data)
    BY <1>3 DEF AppendBytes
  <2>2. data \in Seq(Byte)
    BY PieceSeq
  <2>3. CASE AppendRam(s, data)
    BY <2>3 DEF AppendRam, left
  <2>4. CASE AppendFile(s, data)
    <3>1. \A k \in Name : k # path[s] => disk'[k] = disk[k]
      BY <1>1, <2>4 DEF TypeOK, AppendFile
    <3>2. path' = path /\ orphans' = orphans
      BY <2>4 DEF AppendFile, left
    <3> QED
      BY <3>1, <3>2
  <2>5. CASE AppendOver(s, data)
    BY <1>2, <2>2, <2>5 DEF AppendOver
  <2> QED
    BY <2>1, <2>3, <2>4, <2>5
<1>4. CASE SwitchToFileMode(s)
  <2>1. <<>> \in Seq(Byte)
    OBVIOUS
  <2> QED
    BY <1>2, <1>4, <2>1 DEF SwitchToFileMode
<1>5. CASE ResetReadPosition(s) \/ ReadFails(s)
  BY <1>5 DEF ResetReadPosition, ReadFails, left
<1>6. CASE Clear(s)
  BY <1>1, <1>6 DEF TypeOK, Clear, left
<1>7. CASE AppendFails(s)
  <2>1. \A k \in Name : k # path[s] => disk'[k] = disk[k]
    BY <1>1, <1>7 DEF TypeOK, AppendFails
  <2>2. path' = path /\ orphans' = orphans
    BY <1>7 DEF AppendFails, left
  <2> QED
    BY <2>1, <2>2
<1>8. CASE CreationFails(s)
  <2>1. PICK n \in Name :
          /\ NewName(n)
          /\ \/ /\ disk' = [disk EXCEPT ![n] = <<>>]
                /\ orphans' = orphans \cup {n}
             \/ UNCHANGED <<disk, orphans>>
    BY <1>8 DEF CreationFails
  <2>2. path' = path
    BY <1>8 DEF CreationFails, members
  <2>3. disk[n] = NoFile /\ \A u \in Store : path[u] # n
    BY <2>1, NewIsFree
  <2>4. CASE UNCHANGED <<disk, orphans>>
    BY <2>2, <2>4
  <2>5. CASE disk' = [disk EXCEPT ![n] = <<>>] /\ orphans' = orphans \cup {n}
    <3>1. <<>> # NoFile
      <4>1. <<>> \in Seq(Byte)
        OBVIOUS
      <4> QED
        BY <4>1, StoreAssumption
    <3>2. disk'[n] = <<>> /\ \A k \in Name : k # n => disk'[k] = disk[k]
      BY <1>1, <2>5 DEF TypeOK
    <3> QED
      BY <2>2, <2>3, <2>5, <3>1, <3>2
  <2> QED
    BY <2>1, <2>4, <2>5
<1>9. CASE InStep(s) /\ Read(s)
  BY <1>9 DEF Read, left
<1>10. CASE \E t \in Store : Assign(s, t)
  <2>1. PICK t \in Store : Assign(s, t)
    BY <1>10
  <2>2. orphans' = orphans
    BY <2>1 DEF Assign, left
  <2>3. CASE mode[t] = "RAM"
    BY <1>1, <2>1, <2>2, <2>3 DEF TypeOK, Assign, AssignRam
  <2>4. CASE mode[t] # "RAM"
    <3>1. PICK n \in Name :
            /\ NewName(n)
            /\ path' = [path EXCEPT ![s] = n]
            /\ disk' = [k \in Name |->
                          IF k = n
                          THEN SubSeq(disk[path[t]], 1, currentSize[t])
                          ELSE IF k = path[s] THEN NoFile ELSE disk[k]]
      BY <2>1, <2>4 DEF Assign, AssignFile
    <3>2. disk[n] = NoFile
      BY <3>1, NewIsFree
    <3>3. path'[s] = n
      BY <1>1, <3>1 DEF TypeOK
    <3>4. \A k \in Name : k # n =>
            disk'[k] = IF k = path[s] THEN NoFile ELSE disk[k]
      BY <3>1
    <3> QED
      BY <2>2, <3>2, <3>3, <3>4
  <2> QED
    BY <2>3, <2>4
<1> QED
  BY <1>3, <1>4, <1>5, <1>6, <1>7, <1>8, <1>9, <1>10 DEF OneStep

-----------------------------------------------------------------------------
(* The invariant.                                                              *)

LEMMA InitInv == Init => Inv
<1> SUFFICES ASSUME Init PROVE Inv
  OBVIOUS
<1>1. <<>> \in Seq(Byte)
  OBVIOUS
<1>2. TypeOK
  BY <1>1 DEF Init, TypeOK
<1>3. Holds /\ OneOwner
  BY DEF Init, Holds, OneOwner
<1>4. NoStrayFile /\ LeftAlone
  BY StoreAssumption DEF Init, NoStrayFile, LeftAlone, Name
<1> QED
  BY <1>2, <1>3, <1>4 DEF Inv, FilesOwned

(* One step on one store keeps it.                                             *)
LEMMA OneStepInv ==
    ASSUME Inv, NEW s \in Store, OneStep(s)
    PROVE  Holds' /\ FilesOwned'
<1>1. \A u \in Store : u # s => Kept(u)
  BY OthersKept
<1>2. HoldsAt(s)'
  BY OwnHolds
<1>3. Holds'
  <2>1. ASSUME NEW u \in Store, u # s PROVE HoldsAt(u)'
    <3>1. HoldsAt(u)
      BY DEF Inv, Holds, HoldsAt
    <3>2. Kept(u)
      BY <1>1, <2>1
    <3> QED
      BY <3>1, <3>2 DEF HoldsAt, Kept
  <2>2. \A u \in Store : HoldsAt(u)'
    BY <1>2, <2>1
  <2> QED
    BY <2>2 DEF Holds, HoldsAt
<1>4. \A u \in Store : u # s => path'[u] = path[u]
  BY <1>1 DEF Kept
<1>5. OneOwner'
  <2>1. OneOwner
    BY DEF Inv, FilesOwned
  <2> QED
    BY <1>4, <2>1, OwnFiles DEF OneOwner
<1>6. orphans \subseteq orphans' /\ crashed' = crashed
  BY OwnFiles
<1>7. TypeOK'
  <2>1. Next
    BY DEF Next, Change, OneStep
  <2> QED
    BY <2>1, TypeInv
<1>8. LeftAlone'
  <2>1. orphans \cup crashed \subseteq Name /\ NoName \notin Name
    BY StoreAssumption DEF Inv, TypeOK, Name
  <2>2. \A k \in orphans \cup crashed :
          disk[k] # NoFile /\ \A u \in Store : path[u] # k
    BY <2>1 DEF Inv, FilesOwned, NoStrayFile, LeftAlone
  <2>3. orphans' \subseteq Name
    BY <1>7 DEF TypeOK
  <2>4. ASSUME NEW k \in orphans' \cup crashed', NEW u \in Store, path'[u] = k
        PROVE  FALSE
    <3>1. CASE k \in orphans \cup crashed
      BY <1>4, <2>1, <2>2, <2>4, <3>1, FilesKept
    <3>2. CASE k \notin orphans \cup crashed
      BY <1>6, <2>4, <3>2, FilesKept
    <3> QED
      BY <3>1, <3>2
  <2> QED
    BY <2>4 DEF LeftAlone
<1>9. NoStrayFile'
  <2>1. NoStrayFile /\ LeftAlone
    BY DEF Inv, FilesOwned
  <2>2. ASSUME NEW k \in Name, disk'[k] # NoFile
        PROVE  (\E u \in Store : path'[u] = k) \/ k \in orphans' \cup crashed'
    <3>1. \/ path'[s] = k
          \/ disk[k] # NoFile /\ path[s] # k
          \/ k \in orphans'
      BY <2>2, OwnFiles
    <3> QED
      BY <1>4, <1>6, <2>1, <3>1 DEF NoStrayFile
  <2>3. ASSUME NEW k \in Name, NEW u \in Store, path'[u] = k
        PROVE  disk'[k] # NoFile
    <3>1. k # NoName
      BY StoreAssumption DEF Name
    <3>2. mode'[u] \in {"RAM", "FILE_MODE"}
      BY <1>7 DEF TypeOK
    <3> QED
      BY <1>3, <2>3, <3>1, <3>2 DEF Holds
  <2>4. ASSUME NEW k \in Name, k \in orphans' \cup crashed'
        PROVE  disk'[k] # NoFile
    <3>1. CASE k \in orphans \cup crashed
      <4>1. disk[k] # NoFile /\ path[s] # k
        BY <2>1, <3>1 DEF NoStrayFile, LeftAlone
      <4> QED
        BY <4>1, FilesKept
    <3>2. CASE k \notin orphans \cup crashed
      BY <1>6, <2>4, <3>2, FilesKept
    <3> QED
      BY <3>1, <3>2
  <2> QED
    BY <2>2, <2>3, <2>4 DEF NoStrayFile
<1> QED
  BY <1>3, <1>5, <1>8, <1>9 DEF FilesOwned

LEMMA CrashInv ==
    ASSUME Inv, Crash PROVE Holds' /\ FilesOwned'
<1>1. Holds' /\ OneOwner'
  BY DEF Crash, Holds, OneOwner
<1>2. \A s \in Store : path'[s] = NoName
  BY DEF Crash
<1>3. NoName \notin Name /\ orphans \cup crashed \subseteq Name
  BY StoreAssumption DEF Inv, TypeOK, Name
<1>4. \A n \in orphans \cup crashed : disk[n] # NoFile
  BY <1>3 DEF Inv, FilesOwned, NoStrayFile
<1>5. NoStrayFile'
  BY <1>2, <1>3, <1>4 DEF Crash, NoStrayFile
<1>6. LeftAlone'
  BY <1>2, <1>3 DEF Crash, LeftAlone
<1> QED
  BY <1>1, <1>5, <1>6 DEF FilesOwned

LEMMA NextInv == Inv /\ [Next]_vars => Inv'
<1> SUFFICES ASSUME Inv, [Next]_vars PROVE Inv'
  OBVIOUS
<1>1. TypeOK'
  BY TypeInv
<1>2. CASE \E s \in Store : OneStep(s)
  BY <1>1, <1>2, OneStepInv DEF Inv
<1>3. CASE Crash
  BY <1>1, <1>3, CrashInv DEF Inv
<1>4. CASE UNCHANGED vars
  BY <1>1, <1>4
     DEF Inv, Holds, FilesOwned, OneOwner, NoStrayFile, LeftAlone, vars,
         members, left
<1> QED
  BY <1>2, <1>3, <1>4, Steps

(* Inv holds in every state of a store's life.                                 *)
THEOREM Invariance == Spec => []Inv
  BY InitInv, NextInv, PTL DEF Spec

(* The members of a store always have their types.                             *)
THEOREM TypeCorrect == Spec => []TypeOK
<1>1. Inv => TypeOK
  BY DEF Inv
<1> QED
  BY <1>1, Invariance, PTL

(* A store has its bytes in one place and as many as it says.                  *)
THEOREM HoldsAlways == Spec => []Holds
<1>1. Inv => Holds
  BY DEF Inv
<1> QED
  BY <1>1, Invariance, PTL

(* No two stores ever write into one file, a temporary file is on the disk if  *)
(* and only if a store has it or a failure or a crash left it, and what was    *)
(* left is never a store's again (_generateTempFileName, operator=, clear).    *)
THEOREM FilesOwnedHolds == Spec => []FilesOwned
<1>1. Inv => FilesOwned
  BY DEF Inv
<1> QED
  BY <1>1, Invariance, PTL

-----------------------------------------------------------------------------
(* The refinement.                                                             *)

(* Only the bytes of the store in question are seen to change.                 *)
LEMMA ContentStep ==
    ASSUME Inv, NEW s \in Store, OneStep(s)
    PROVE  /\ Content = [u \in Store |-> Shown(u)]
           /\ Content' = [Content EXCEPT ![s] = Shown(s)']
           /\ Content'[s] = Shown(s)'
<1>1. Content = [u \in Store |-> Shown(u)]
  BY DEF Content, Shown
<1>2. Content' = [u \in Store |-> Shown(u)']
  BY DEF Content, Shown
<1>3. ASSUME NEW u \in Store, u # s PROVE Shown(u)' = Shown(u)
  <2>1. Kept(u) /\ mode[u] \in {"RAM", "FILE_MODE"}
    BY <1>3, OthersKept DEF Inv, TypeOK
  <2> QED
    BY <2>1 DEF Kept, Shown
<1> QED
  BY <1>1, <1>2, <1>3, Zenon

LEMMA InitSimulation == Init => Promised!Init
  BY DEF Init, Promised!Init, Content

LEMMA StepSimulation ==
    ASSUME Inv, NEW s \in Store, OneStep(s)
    PROVE  Promised!Next \/ UNCHANGED Promised!vars
<1>1. TypeOK
  BY DEF Inv
<1>2. /\ Content[s] = Shown(s)
      /\ Content' = [Content EXCEPT ![s] = Content'[s]]
      /\ Content'[s] = Shown(s)'
      /\ \A t \in Store : Content[t] = Shown(t)
      /\ Content = [u \in Store |-> Shown(u)]
  BY ContentStep
<1>3. ASSUME Shown(s)' = Shown(s) PROVE Content' = Content
  BY <1>2, <1>3
<1>4. CASE AppendBytes(s)
  <2>1. /\ Shown(s)' \in Seq(Byte)
        /\ Len(Shown(s)) <= Len(Shown(s)')
        /\ SubSeq(Shown(s)', 1, Len(Shown(s))) = Shown(s)
    BY <1>4, AppendOwn
  <2>2. UNCHANGED <<readOffset, output>>
    BY <1>4 DEF AppendBytes, AppendRam, AppendFile, AppendOver, SwitchAndWrite
  <2>3. Promised!AppendBytes(s)
    BY <1>2, <2>1, <2>2 DEF Promised!AppendBytes
  <2> QED
    BY <2>3 DEF Promised!Next
<1>5. CASE SwitchToFileMode(s)
  <2>1. ~failed[s] /\ SwitchAndWrite(s, <<>>) /\ <<>> \in Seq(Byte)
    BY <1>5 DEF SwitchToFileMode
  <2>2. Shown(s)' = Bytes(s) \o <<>>
    BY <2>1, SwitchOwn
  <2>3. Bytes(s) \in Seq(Byte) /\ Shown(s) = Bytes(s)
    BY <2>1, ShownWhole
  <2>4. Bytes(s) \o <<>> = Bytes(s)
    BY <2>3, ConcatEmptySeq
  <2>5. UNCHANGED <<readOffset, output>>
    BY <2>1 DEF SwitchAndWrite
  <2> QED
    BY <1>3, <2>2, <2>3, <2>4, <2>5 DEF Promised!vars
<1>6. CASE ResetReadPosition(s) \/ ReadFails(s)
  <2>1. Content' = Content
    BY <1>3, <1>6, ResetOwn
  <2>2. /\ output' = output
        /\ readOffset' = readOffset \/ readOffset' = [readOffset EXCEPT ![s] = 0]
    BY <1>6 DEF ResetReadPosition, ReadFails
  <2> QED
    BY <2>1, <2>2 DEF Promised!Next, Promised!Reset, Promised!vars
<1>7. CASE Clear(s)
  <2>1. Content' = [Content EXCEPT ![s] = <<>>]
    BY <1>2, <1>7, ClearOwn
  <2>2. readOffset' = [readOffset EXCEPT ![s] = 0] /\ output' = output
    BY <1>7 DEF Clear
  <2> QED
    BY <2>1, <2>2 DEF Promised!Next, Promised!Clear
<1>8. CASE AppendFails(s)
  <2>1. Content' = Content
    BY <1>3, <1>8, AppendFailsOwn
  <2> QED
    BY <1>8, <2>1 DEF AppendFails, Promised!vars
<1>9. CASE CreationFails(s)
  <2>1. Content' = Content
    BY <1>3, <1>9, CreationFailsOwn
  <2> QED
    BY <1>9, <2>1 DEF CreationFails, members, Promised!vars
<1>10. CASE InStep(s) /\ Read(s)
  <2>1. ~failed[s]
    BY <1>10 DEF Read
  <2>2. /\ Content[s] = Bytes(s) /\ Len(Content[s]) = currentSize[s]
    BY <1>2, <2>1, ShownWhole
  <2>3. PICK k \in 0..(currentSize[s] - readOffset[s]) :
          /\ k = 0 => readOffset[s] = currentSize[s]
          /\ output' = SubSeq(Bytes(s), readOffset[s] + 1, readOffset[s] + k)
          /\ readOffset' = [readOffset EXCEPT ![s] = @ + k]
    BY <1>10, ReadEffect
  <2>4. Content' = Content
    BY <1>3, <1>10, ReadOwn
  <2>5. Promised!Read(s)
    BY <2>2, <2>3, <2>4 DEF Promised!Read
  <2> QED
    BY <2>5 DEF Promised!Next
<1>11. CASE \E t \in Store : Assign(s, t)
  <2>1. PICK t \in Store : Assign(s, t)
    BY <1>11
  <2>2. Content' = [Content EXCEPT ![s] = Content[t]]
    BY <1>2, <2>1, AssignOwn
  <2>3. readOffset' = [readOffset EXCEPT ![s] = 0] /\ output' = output
    BY <2>1 DEF Assign
  <2>4. Promised!Assign(s, t)
    BY <2>2, <2>3 DEF Promised!Assign
  <2> QED
    BY <2>4 DEF Promised!Next
<1> QED
  BY <1>4, <1>5, <1>6, <1>7, <1>8, <1>9, <1>10, <1>11 DEF OneStep

LEMMA CrashSimulation == ASSUME Crash PROVE Promised!Next
<1>1. Content' = [s \in Store |-> <<>>]
  BY DEF Crash, Content
<1> QED
  BY <1>1 DEF Crash, Promised!Next, Promised!Restart

LEMMA Simulation ==
    Inv /\ [Next]_vars => [Promised!Next]_(Promised!vars)
<1> SUFFICES ASSUME Inv, [Next]_vars
             PROVE  [Promised!Next]_(Promised!vars)
  OBVIOUS
<1>1. CASE UNCHANGED vars
  BY <1>1 DEF vars, members, left, Content, Promised!vars
<1> QED
  BY <1>1, Steps, StepSimulation, CrashSimulation

(* A store, in memory or in a file, is to its users the sequence of bytes and  *)
(* the position of ByteStore.                                                  *)
THEOREM PromiseKept == Spec => Promise
  BY Invariance, InitSimulation, Simulation, PTL DEF Spec, Promise, Promised!Spec
=============================================================================
