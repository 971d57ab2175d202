----------------------------- MODULE MCDispatch -----------------------------
(***************************************************************************)
(* EventLoop with a history variable: the connections accepted since the   *)
(* last epoll_wait() returned.  No event of the current batch is about one *)
(* of them.                                                                *)
(***************************************************************************)
EXTENDS EventLoop, TLC

VARIABLE newcomers

InitH == Init /\ newcomers = {}

NextH ==
    /\ Next
    /\ newcomers' = IF pc = "poll" THEN {}
                    ELSE {c \in Conn : /\ state'[c] # "FREED"
                                       /\ state[c] = "FREED" \/ c \in newcomers}

SpecH == InitH /\ [][NextH]_<<vars, newcomers>>

(* The doc comment of _handleConnection (ServerManager.hpp:123): it        *)
(* "dispatches epoll events to the correct Connection handler", and that   *)
(* of _dropConnection (ServerManager.hpp:137): it "closes a client fd".  So*)
(* an event reported before a client connected never drops that client's   *)
(* connection, and a hang-up never closes a file.                          *)
OwnEventsOnly ==
    [][/\ \A c \in newcomers : state'[c] # "FREED" \/ pc' = "stopped"
       /\ stray' = stray]_<<vars, newcomers>>

Symmetry == Permutations(Conn) \cup Permutations(Fd)
=============================================================================
