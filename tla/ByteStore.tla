----------------------------- MODULE ByteStore -----------------------------
(* What a DataStore promises its users ("you dont care about it's form", says  *)
(* includes/DataStore.hpp:4): a sequence of bytes that grows at its end and a  *)
(* position from which it is read.                                             *)
EXTENDS Naturals, Sequences, FiniteSets

CONSTANTS Store, Byte

VARIABLES
    content,   \* the bytes appended since the store was cleared
    position,  \* how many of them were read
    output     \* what the last read returned

vars == <<content, position, output>>

Init ==
    /\ content = [s \in Store |-> <<>>]
    /\ position = [s \in Store |-> 0]
    /\ output = <<>>

AppendBytes(s) ==
    /\ content'[s] \in Seq(Byte)
    /\ Len(content[s]) <= Len(content'[s])
    /\ SubSeq(content'[s], 1, Len(content[s])) = content[s]
    /\ content' = [content EXCEPT ![s] = content'[s]]
    /\ UNCHANGED <<position, output>>

(* The bytes after the position, at least one of them if there are any.        *)
Read(s) ==
    /\ \E n \in 0..(Len(content[s]) - position[s]) :
         /\ n = 0 => position[s] = Len(content[s])
         /\ output' = SubSeq(content[s], position[s] + 1, position[s] + n)
         /\ position' = [position EXCEPT ![s] = @ + n]
    /\ UNCHANGED content

Reset(s) ==
    /\ position' = [position EXCEPT ![s] = 0]
    /\ UNCHANGED <<content, output>>

Clear(s) ==
    /\ content' = [content EXCEPT ![s] = <<>>]
    /\ position' = [position EXCEPT ![s] = 0]
    /\ UNCHANGED output

(* A copy is read from its beginning.                                          *)
Assign(s, t) ==
    /\ content' = [content EXCEPT ![s] = content[t]]
    /\ position' = [position EXCEPT ![s] = 0]
    /\ UNCHANGED output

(* The process ends, another one begins.                                       *)
Restart ==
    /\ content' = [s \in Store |-> <<>>]
    /\ position' = [s \in Store |-> 0]
    /\ UNCHANGED output

Next ==
    \/ \E s \in Store : AppendBytes(s) \/ Read(s) \/ Reset(s) \/ Clear(s)
    \/ \E s, t \in Store : Assign(s, t)
    \/ Restart

Spec == Init /\ [][Next]_vars
=============================================================================
