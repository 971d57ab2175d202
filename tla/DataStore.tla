----------------------------- MODULE DataStore -----------------------------
(* src/src/DataStore.cpp: a store that keeps its bytes in memory and moves to  *)
(* a temporary file when they are many, with the directory the files are in.   *)
EXTENDS Integers, Sequences, FiniteSets

CONSTANTS
    Store,        \* the DataStore objects of the server
    Byte,
    BufferLimit,  \* BUFFERLIMIT
    MaxSize,      \* bound on the bytes of a store
    MaxName,      \* bound on the numbers of the temporary files
    NoName,       \* an empty _absolutePath
    NoFile        \* no file of that name

ASSUME StoreAssumption ==
    /\ BufferLimit \in Nat /\ MaxSize \in Nat /\ MaxName \in Nat
    /\ NoName \notin Nat
    /\ NoFile \notin Seq(Byte)

Name == 0..MaxName

VARIABLES
    mode, dataBuffer, currentSize, readOffset,  \* the members of a store
    path,         \* _absolutePath
    fileOffset,   \* the offset of _fileFd, in the kernel
    failed,       \* a call on the store threw
    file_counter, \* the static counter of _generateTempFileName
    disk,         \* the temporary files
    output,       \* what the last read() returned
    orphans,      \* files whose creation failed half way
    crashed       \* files that a dead process left

members == <<mode, dataBuffer, currentSize, readOffset, path, fileOffset>>
left == <<orphans, crashed>>
vars == <<members, failed, file_counter, disk, output, left>>

TypeOK ==
    /\ mode \in [Store -> {"RAM", "FILE_MODE"}]
    /\ dataBuffer \in [Store -> Seq(Byte)]
    /\ currentSize \in [Store -> Nat]
    /\ readOffset \in [Store -> Nat]
    /\ path \in [Store -> Name \cup {NoName}]
    /\ fileOffset \in [Store -> Nat]
    /\ failed \in [Store -> BOOLEAN]
    /\ file_counter \in Nat
    /\ disk \in [Name -> Seq(Byte) \cup {NoFile}]
    /\ output \in Seq(Byte)
    /\ orphans \subseteq Name /\ crashed \subseteq Name

Init ==
    /\ mode = [s \in Store |-> "RAM"]
    /\ dataBuffer = [s \in Store |-> <<>>]
    /\ currentSize = [s \in Store |-> 0]
    /\ readOffset = [s \in Store |-> 0]
    /\ path = [s \in Store |-> NoName]
    /\ fileOffset = [s \in Store |-> 0]
    /\ failed = [s \in Store |-> FALSE]
    /\ file_counter = 0
    /\ disk = [n \in Name |-> NoFile]
    /\ output = <<>> /\ orphans = {} /\ crashed = {}

Least(a, b) == IF a < b THEN a ELSE b

(* What is appended or read in one call: one byte or two.                      *)
Piece == {<<b>> : b \in Byte} \cup {<<b, c>> : b, c \in Byte}

NewName_NoExcl(n) == n = file_counter /\ file_counter' = n + 1

(* open() with O_EXCL: the counter goes up until the name is free.             *)
NewName(n) ==
    /\ n >= file_counter /\ disk[n] = NoFile
    /\ \A k \in Name : k >= file_counter /\ k < n => disk[k] # NoFile
    /\ file_counter' = n + 1

-----------------------------------------------------------------------------
(* append() that stays in memory.                                              *)
AppendRam(s, data) ==
    /\ mode[s] = "RAM" /\ currentSize[s] + Len(data) <= BufferLimit
    /\ dataBuffer' = [dataBuffer EXCEPT ![s] = @ \o data]
    /\ currentSize' = [currentSize EXCEPT ![s] = @ + Len(data)]
    /\ UNCHANGED <<mode, readOffset, path, fileOffset, failed, file_counter,
                   disk, output, left>>

(* append() to the file: O_APPEND writes at its end and leaves the offset there.*)
AppendFile(s, data) ==
    /\ mode[s] = "FILE_MODE"
    /\ disk' = [disk EXCEPT ![path[s]] = @ \o data]
    /\ fileOffset' = [fileOffset EXCEPT ![s] = Len(disk[path[s]]) + Len(data)]
    /\ currentSize' = [currentSize EXCEPT ![s] = @ + Len(data)]
    /\ UNCHANGED <<mode, dataBuffer, readOffset, path, failed, file_counter,
                   output, left>>

(* switchToFileMode, then more is written, nothing if it is called by itself.  *)
SwitchAndWrite(s, data) ==
    /\ mode[s] = "RAM"
    /\ \E n \in Name :
         /\ NewName(n)
         /\ disk' = [disk EXCEPT ![n] = dataBuffer[s] \o data]
         /\ path' = [path EXCEPT ![s] = n]
    /\ fileOffset' =
         [fileOffset EXCEPT ![s] = Len(dataBuffer[s]) + Len(data)]
    /\ currentSize' = [currentSize EXCEPT ![s] = @ + Len(data)]
    /\ dataBuffer' = [dataBuffer EXCEPT ![s] = <<>>]
    /\ mode' = [mode EXCEPT ![s] = "FILE_MODE"]
    /\ UNCHANGED <<readOffset, failed, output, left>>

(* append() that goes over the limit.                                          *)
AppendOver(s, data) ==
    /\ currentSize[s] + Len(data) > BufferLimit
    /\ SwitchAndWrite(s, data)

AppendBytes(s) ==
    /\ ~failed[s]
    /\ \E data \in Piece :
         /\ currentSize[s] + Len(data) <= MaxSize
         /\ AppendRam(s, data) \/ AppendFile(s, data) \/ AppendOver(s, data)

(* The CGI handler moves a body to a file whatever its size.                   *)
SwitchToFileMode(s) == ~failed[s] /\ SwitchAndWrite(s, <<>>)

(* The bytes that a read of length bytes finds from an offset on.              *)
ReadAt(bytes, offset, length) ==
    SubSeq(bytes, offset + 1, Least(offset + length, Len(bytes)))

(* read(): the length is clamped to what is not read yet; in memory the bytes  *)
(* are those after _readOffset, in a file those after the kernel's offset.     *)
Read(s) ==
    /\ ~failed[s]
    /\ \E length \in {1, 2} :
         LET toRead == Least(length, currentSize[s] - readOffset[s])
         IN  IF mode[s] = "RAM"
             THEN /\ output' = ReadAt(dataBuffer[s], readOffset[s], toRead)
                  /\ UNCHANGED fileOffset
             ELSE /\ output' = ReadAt(disk[path[s]], fileOffset[s], toRead)
                  /\ fileOffset' = [fileOffset EXCEPT ![s] = @ + Len(output')]
    /\ readOffset' = [readOffset EXCEPT ![s] = @ + Len(output')]
    /\ UNCHANGED <<mode, dataBuffer, currentSize, path, failed, file_counter,
                   disk, left>>

ResetReadPosition_Unreads(s) ==
    /\ ~failed[s]
    /\ readOffset' = [readOffset EXCEPT ![s] = @ - Len(output)]
    /\ UNCHANGED <<mode, dataBuffer, currentSize, path, fileOffset, failed,
                   file_counter, disk, output, left>>

(* resetReadPosition() opens the file again, for the offset to be 0.           *)
ResetReadPosition(s) ==
    /\ ~failed[s]
    /\ readOffset' = [readOffset EXCEPT ![s] = 0]
    /\ fileOffset' = [fileOffset EXCEPT ![s] =
                        IF mode[s] = "FILE_MODE" THEN 0 ELSE @]
    /\ UNCHANGED <<mode, dataBuffer, currentSize, path, failed, file_counter,
                   disk, output, left>>

Clear_KeepsOffset(s) ==
    /\ mode' = [mode EXCEPT ![s] = "RAM"]
    /\ dataBuffer' = [dataBuffer EXCEPT ![s] = <<>>]
    /\ currentSize' = [currentSize EXCEPT ![s] = 0]
    /\ path' = [path EXCEPT ![s] = NoName]
    /\ fileOffset' = [fileOffset EXCEPT ![s] = 0]
    /\ failed' = [failed EXCEPT ![s] = FALSE]
    /\ disk' = [n \in Name |-> IF n = path[s] THEN NoFile ELSE disk[n]]
    /\ UNCHANGED <<readOffset, file_counter, output, left>>

(* clear(), which is also the destructor: the file is removed.                 *)
Clear(s) ==
    /\ mode' = [mode EXCEPT ![s] = "RAM"]
    /\ dataBuffer' = [dataBuffer EXCEPT ![s] = <<>>]
    /\ currentSize' = [currentSize EXCEPT ![s] = 0]
    /\ readOffset' = [readOffset EXCEPT ![s] = 0]
    /\ path' = [path EXCEPT ![s] = NoName]
    /\ fileOffset' = [fileOffset EXCEPT ![s] = 0]
    /\ failed' = [failed EXCEPT ![s] = FALSE]
    /\ disk' = [n \in Name |-> IF n = path[s] THEN NoFile ELSE disk[n]]
    /\ UNCHANGED <<file_counter, output, left>>

(* The copy of a store in a file has a file of its own.  The old file of s     *)
(* goes with the temporary that took it over.                                  *)
AssignFile(s, t) ==
    \E n \in Name :
      /\ NewName(n)
      /\ path' = [path EXCEPT ![s] = n]
      /\ disk' = [k \in Name |->
                    IF k = n THEN SubSeq(disk[path[t]], 1, currentSize[t])
                    ELSE IF k = path[s] THEN NoFile ELSE disk[k]]

AssignRam(s) ==
    /\ path' = [path EXCEPT ![s] = NoName]
    /\ disk' = [k \in Name |-> IF k = path[s] THEN NoFile ELSE disk[k]]
    /\ UNCHANGED file_counter

(* operator=: the copy constructor, then swap.  The copy is not read yet.      *)
Assign(s, t) ==
    /\ s # t /\ ~failed[t]
    /\ IF mode[t] = "RAM" THEN AssignRam(s) ELSE AssignFile(s, t)
    /\ mode' = [mode EXCEPT ![s] = mode[t]]
    /\ dataBuffer' = [dataBuffer EXCEPT ![s] = dataBuffer[t]]
    /\ currentSize' = [currentSize EXCEPT ![s] = currentSize[t]]
    /\ readOffset' = [readOffset EXCEPT ![s] = 0]
    /\ fileOffset' = [fileOffset EXCEPT ![s] = currentSize[t]]
    /\ failed' = [failed EXCEPT ![s] = FALSE]
    /\ UNCHANGED <<output, left>>

-----------------------------------------------------------------------------
(* What goes wrong.                                                            *)

(* The disk is full: write_all throws after a part of the data.  After a call  *)
(* that threw, the handlers make an error page and only clear the store.       *)
AppendFails(s) ==
    /\ ~failed[s] /\ mode[s] = "FILE_MODE"
    /\ \E b \in Byte, n \in {0, 1} :
         LET written == [i \in 1..n |-> b]
         IN  /\ disk' = [disk EXCEPT ![path[s]] = @ \o written]
             /\ fileOffset' = [fileOffset EXCEPT ![s] = Len(disk[path[s]]) + n]
    /\ failed' = [failed EXCEPT ![s] = TRUE]
    /\ UNCHANGED <<mode, dataBuffer, currentSize, readOffset, path,
                   file_counter, output, left>>

(* read() or resetReadPosition() throws: an error of the disk, or no           *)
(* descriptor for the file, which is closed by then.                           *)
ReadFails(s) ==
    /\ ~failed[s] /\ mode[s] = "FILE_MODE"
    /\ readOffset' \in {readOffset, [readOffset EXCEPT ![s] = 0]}
    /\ failed' = [failed EXCEPT ![s] = TRUE]
    /\ UNCHANGED <<mode, dataBuffer, currentSize, path, fileOffset,
                   file_counter, disk, output, left>>

(* switchToFileMode or the copy constructor throws: no file was made, or they  *)
(* forget the name of the one they began.                                      *)
CreationFails(s) ==
    /\ ~failed[s]
    /\ mode[s] = "RAM" \/ \E t \in Store \ {s} : mode[t] = "FILE_MODE"
    /\ \E n \in Name :
         /\ NewName(n)
         /\ \/ /\ disk' = [disk EXCEPT ![n] = <<>>]
               /\ orphans' = orphans \cup {n}
            \/ UNCHANGED <<disk, orphans>>
    /\ failed' = [failed EXCEPT ![s] = TRUE]
    /\ UNCHANGED <<members, output, crashed>>

(* The process dies; the next one finds the files.                             *)
Crash ==
    /\ mode' = [s \in Store |-> "RAM"]
    /\ dataBuffer' = [s \in Store |-> <<>>]
    /\ currentSize' = [s \in Store |-> 0]
    /\ readOffset' = [s \in Store |-> 0]
    /\ path' = [s \in Store |-> NoName]
    /\ fileOffset' = [s \in Store |-> 0]
    /\ failed' = [s \in Store |-> FALSE]
    /\ file_counter' = 0
    /\ crashed' = crashed \cup {n \in Name : disk[n] # NoFile}
    /\ UNCHANGED <<disk, output, orphans>>

-----------------------------------------------------------------------------
InStep_Anywhere(s) == mode[s] \in {"RAM", "FILE_MODE"}

(* Reading where nothing was appended since the position was reset.            *)
InStep(s) == mode[s] = "FILE_MODE" => fileOffset[s] = readOffset[s]

Change ==
    \/ \E s \in Store : \/ AppendBytes(s) \/ SwitchToFileMode(s)
                        \/ ResetReadPosition(s) \/ Clear(s)
                        \/ AppendFails(s) \/ ReadFails(s) \/ CreationFails(s)
    \/ \E s, t \in Store : Assign(s, t)
    \/ Crash

(* The users reset the position after the last append and before they read.    *)
Next == Change \/ \E s \in Store : InStep(s) /\ Read(s)

Spec == Init /\ [][Next]_vars

-----------------------------------------------------------------------------
(* A store has its bytes in one place, as many as currentSize says (append,    *)
(* switchToFileMode, operator=).                                               *)
Holds ==
    \A s \in Store :
        /\ mode[s] = "RAM" => /\ path[s] = NoName
                              /\ Len(dataBuffer[s]) = currentSize[s]
        /\ mode[s] = "FILE_MODE" =>
             /\ path[s] # NoName /\ dataBuffer[s] = <<>>
             /\ disk[path[s]] # NoFile
             /\ Len(disk[path[s]]) = currentSize[s] \/ failed[s]
        /\ readOffset[s] <= currentSize[s]

(* Two stores never write into one file (_generateTempFileName, operator=).    *)
OneOwner ==
    \A s, t \in Store : path[s] = path[t] /\ path[s] # NoName => s = t

(* A file on the disk belongs to a store, or a failure or a crash left it, and *)
(* then to none: its name is stepped over (clear, operator=,                   *)
(* _generateTempFileName).                                                     *)
NoStrayFile ==
    \A n \in Name :
        disk[n] # NoFile <=> \/ \E s \in Store : path[s] = n
                            \/ n \in orphans \cup crashed

LeftAlone == \A s \in Store : path[s] \notin orphans \cup crashed

(* Files and stores belong together, one to one, whatever is copied, cleared   *)
(* or fails, and a store never gets a file that a failed call or a dead        *)
(* process left (operator=, clear, _generateTempFileName).  That such files    *)
(* stay is not denied here: see CleanedUpOnCrash.                              *)
FilesOwned == OneOwner /\ NoStrayFile /\ LeftAlone

(* The doc comment of switchToFileMode (DataStore.hpp:114, DataStore.cpp:252): *)
(* it "uses the immediate unlink() trick to ensure OS-level cleanup on         *)
(* crashes".  So nothing is left of the files of a process that died.          *)
CleanedUpOnCrash == \A n \in crashed : disk[n] = NoFile

Content ==
    [s \in Store |-> IF mode[s] = "RAM" THEN dataBuffer[s]
                     ELSE SubSeq(disk[path[s]], 1, currentSize[s])]

Promised == INSTANCE ByteStore WITH content <- Content, position <- readOffset

(* A store is a sequence of bytes read in order, in memory or in a file, if    *)
(* the position is reset between an append and a read.                         *)
Promise == Promised!Spec
=============================================================================
