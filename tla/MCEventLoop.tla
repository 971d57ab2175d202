---------------------------- MODULE MCEventLoop ----------------------------
(* Small instances of EventLoop for TLC.                                   *)
EXTENDS EventLoopInv, TLC

(* Addresses and descriptors are interchangeable: both are chosen freely   *)
(* among the free ones.                                                    *)
Symmetry == Permutations(Conn) \cup Permutations(Fd)

(* Bound of the model: after a hang-up has closed a file, the loop is      *)
(* followed until the file's owner has closed the number for the second    *)
(* time, whoever has it by then.                                           *)
UntilSecondClose ==
    stray => \E c \in Conn : \E f \in files[c] :
                \/ f \notin openFds \/ IsClient(f)
                \/ \E d \in Conn \ {c} : f \in ClosedWith(d)
=============================================================================
