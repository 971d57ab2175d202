---------------------------- MODULE EventLoopInv ----------------------------
(***************************************************************************)
(* The inductive invariant of EventLoop: its safety invariants and what    *)
(* they rest on.                                                           *)
(***************************************************************************)
EXTENDS EventLoop

IsClient(f) == connections[f] # NoConn
IsPipe(f)   == cgiPipeToConn[f] # NoConn

(* _connections maps a number to the live connection that was accepted on  *)
(* it, and only a connection that has run a CGI has a pipe.                *)
ClientMap ==
    /\ \A f \in Fd : IsClient(f) => acceptFd[connections[f]] = f
    /\ \A c \in Conn : state[c] = "FREED" => acceptFd[c] = NoFd /\ files[c] = {}
    /\ \A c \in Conn : state[c] # "FREED" => acceptFd[c] \in Fd
    /\ \A c \in Conn : state[c] \in {"FREED", "READING", "PROCESSING"} => cgiPipe[c] = NoFd

(* A registered pipe belongs to a connection that waits for it, except     *)
(* between the two sweeps, where a 408 may have moved it to WRITING; the   *)
(* clock of the pipe is then already past the limit, for it started with   *)
(* the activity timer of its connection.                                   *)
PipeMap ==
    /\ \A p \in Fd : IsPipe(p) => cgiPipe[cgiPipeToConn[p]] = p
    /\ \A p \in Fd : IsPipe(p) =>
          \/ state[cgiPipeToConn[p]] = "WAITING_FOR_CGI"
          \/ /\ pc = "sweepCgi"
             /\ state[cgiPipeToConn[p]] = "WRITING"
             /\ cgiAge[p] >= CGI_TIMEOUT_S
    /\ \A p \in Fd : IsPipe(p) =>
          cgiAge[p] >= CGI_TIMEOUT_S \/ cgiAge[p] >= idle[cgiPipeToConn[p]]

BatchOver == pc \notin {"dispatch", "accept"} => batch = NoEvents

(* The rest holds until a hang-up closes a file.                           *)

(* Every live connection is in the map, every waiting one has its pipe     *)
(* registered, and a pending event of an open pipe is for a registered one.*)
Reachable ==
    /\ \A c \in Conn : state[c] # "FREED" => connections[acceptFd[c]] = c
    /\ \A c \in Conn : state[c] = "WAITING_FOR_CGI" =>
          cgiPipe[c] \in Fd /\ cgiPipeToConn[cgiPipe[c]] = c
    /\ \A c \in Conn : cgiPipe[c] # NoFd /\ batch[cgiPipe[c]] # "none" => IsPipe(cgiPipe[c])

(* The interest list holds the clients and the registered pipes.           *)
Interest ==
    /\ \A f \in Fd : f \in epollSet <=> IsClient(f) \/ IsPipe(f)
    /\ \A f \in Fd : fdEvents[f] = "unregistered" <=> f \notin epollSet
    /\ MaskMatchesState

(* Descriptors have one owner, and some have none.                         *)
Ownership ==
    /\ \A f \in Fd : f \in openFds
          <=> IsClient(f) \/ f \in lost \/ \E c \in Conn : f \in ClosedWith(c)
    /\ \A c, d \in Conn : ClosedWith(c) \cap ClosedWith(d) \cap Fd # {} => c = d
    /\ \A c \in Conn : cgiPipe[c] \notin files[c]
    /\ \A c \in Conn : \A f \in ClosedWith(c) \cap Fd : ~IsClient(f) /\ f \notin lost
    /\ \A f \in lost : ~IsClient(f)

IInv ==
    /\ TypeOK
    /\ ClientMap
    /\ NoLostWakeup
    /\ PipeMap
    /\ BatchOver
    /\ ~stray => Reachable /\ Interest /\ Ownership
=============================================================================
