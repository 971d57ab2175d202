---------------------------- MODULE CgiChildren -----------------------------
(* src/src/CGIManager.cpp, what src/src/Response.cpp and ServerManager.cpp do  *)
(* with it, and the processes: scripts that are forked, run, write, end, are   *)
(* reaped in four places, and whose numbers the system gives out again.        *)
EXTENDS Naturals, FiniteSets

CONSTANTS
    Request,    \* connections; each has one request at a time
    Pid,        \* process numbers
    MaxActive,  \* MAX_ACTIVE_CGI_CHILDREN
    PipeSize,   \* what a pipe holds
    ChunkSize,  \* RESPONSE_SEND_CHUNK, what one read() takes
    NoPid,      \* _pId = -1
    NoRequest   \* no pipe, or one that nobody reads

ASSUME ChildrenAssumption ==
    /\ IsFiniteSet(Pid) /\ NoPid \notin Pid
    /\ NoRequest \notin Request
    /\ MaxActive \in Nat \ {0}
    /\ PipeSize \in Nat /\ ChunkSize \in Nat \ {0}

VARIABLES
    pc,          \* where the server is
    phase,       \* of each request; "waiting" and "failed" have a CGIManager
    pId,         \* CGIManager::_pId
    activePids,  \* CGIManager::_activePids
    proc,        \* the processes of the system
    known,       \* the copy of _activePids in a child that did not exec yet
    out,         \* the pipe on the standard output of a process
    held,        \* a descendant of the script has the pipe too
    unread,      \* bytes in the pipe
    event        \* what the last epoll_wait said of the pipe

pipes == <<out, held, unread>>
vars == <<pc, phase, pId, activePids, proc, known, pipes, event>>

TypeOK ==
    /\ pc \in {"loop", "events", "grace", "exited"}
    /\ phase \in [Request -> {"idle", "waiting", "failed", "output", "error"}]
    /\ pId \in [Request -> Pid \cup {NoPid}]
    /\ activePids \subseteq Pid
    /\ proc \in [Pid -> {"free", "forked", "running", "zombie", "foreign"}]
    /\ known \in [Pid -> SUBSET Pid]
    /\ out \in [Pid -> Request \cup {NoRequest}]
    /\ held \in [Request -> BOOLEAN]
    /\ unread \in [Request -> 0..PipeSize]
    /\ event \in [Request -> {"none", "in", "hup"}]

Init ==
    /\ pc = "loop"
    /\ phase = [r \in Request |-> "idle"]
    /\ pId = [r \in Request |-> NoPid]
    /\ activePids = {}
    /\ proc = [p \in Pid |-> "free"]
    /\ known = [p \in Pid |-> {}]
    /\ out = [p \in Pid |-> NoRequest]
    /\ held = [r \in Request |-> FALSE]
    /\ unread = [r \in Request |-> 0]
    /\ event = [r \in Request |-> "none"]

Least(a, b) == IF a < b THEN a ELSE b

Alive(p) == proc[p] \in {"forked", "running"}

(* Not waited for yet: what waitpid() knows.                                   *)
Children == {p \in Pid : Alive(p) \/ proc[p] = "zombie"}

Writers(r) == held[r] \/ \E p \in Pid : out[p] = r /\ Alive(p)

-----------------------------------------------------------------------------
(* Processes.                                                                  *)

(* The processes of P end; the kernel closes what they had open.               *)
End(P) ==
    /\ proc' = [p \in Pid |-> IF p \in P THEN "zombie" ELSE proc[p]]
    /\ known' = [p \in Pid |-> IF p \in P THEN {} ELSE known[p]]
    /\ out' = [p \in Pid |-> IF p \in P THEN NoRequest ELSE out[p]]

(* execve() of a forked child.                                                 *)
Exec(p) ==
    /\ proc[p] = "forked"
    /\ proc' = [proc EXCEPT ![p] = "running"]
    /\ known' = [known EXCEPT ![p] = {}]
    /\ UNCHANGED <<pc, phase, pId, activePids, pipes, event>>

(* chdir, dup2 or execve fails in the child: the exception leaves main, and on *)
(* its way the destructor of the server calls cleanupAllProcesses, which sends *)
(* SIGTERM to the children of the parent; a script may ignore it.              *)
ExecFails(p) ==
    /\ proc[p] = "forked"
    /\ \E victims \in SUBSET {q \in known[p] : Alive(q)} :
         /\ {q \in known[p] : proc[q] = "forked"} \subseteq victims
         /\ End(victims \cup {p})
    /\ UNCHANGED <<pc, phase, pId, activePids, held, unread, event>>

(* A script writes, ends, and may leave a descendant with its output.          *)
Write(r) ==
    /\ held[r] \/ \E p \in Pid : out[p] = r /\ proc[p] = "running"
    /\ unread[r] < PipeSize
    /\ unread' = [unread EXCEPT ![r] = @ + 1]
    /\ UNCHANGED <<pc, phase, pId, activePids, proc, known, out, held, event>>

Exit(p) ==
    /\ proc[p] = "running"
    /\ End({p})
    /\ held' \in {held, [r \in Request |-> held[r] \/ out[p] = r]}
    /\ UNCHANGED <<pc, phase, pId, activePids, unread, event>>

DescendantEnds(r) ==
    /\ held[r]
    /\ held' = [held EXCEPT ![r] = FALSE]
    /\ UNCHANGED <<pc, phase, pId, activePids, proc, known, out, unread, event>>

(* Other processes of the system take and free the same numbers.               *)
Foreign(p) ==
    /\ \/ proc[p] = "free" /\ proc' = [proc EXCEPT ![p] = "foreign"]
       \/ proc[p] = "foreign" /\ proc' = [proc EXCEPT ![p] = "free"]
    /\ UNCHANGED <<pc, phase, pId, activePids, known, pipes, event>>

System ==
    \/ \E p \in Pid : Exec(p) \/ ExecFails(p) \/ Exit(p) \/ Foreign(p)
    \/ \E r \in Request : Write(r) \/ DescendantEnds(r)

-----------------------------------------------------------------------------
(* The server.                                                                 *)

(* waitpid(WNOHANG) on the numbers of P: zombies are reaped.                   *)
Reaped(P) == [p \in Pid |-> IF p \in P /\ proc[p] = "zombie" THEN "free"
                            ELSE proc[p]]

(* _reapFinishedActivePids keeps those for which waitpid said 0.               *)
StillRunning == {p \in activePids : Alive(p)}

SpawnLimitReached_OneMore == Cardinality(StillRunning) > MaxActive

SpawnLimitReached == Cardinality(StillRunning) >= MaxActive

(* execute(), called while the request is processed.                           *)
Execute(r) ==
    /\ pc = "loop" /\ phase[r] = "idle"
    /\ ~SpawnLimitReached
    /\ \E p \in Pid :
         /\ Reaped(activePids)[p] = "free"
         /\ proc' = [Reaped(activePids) EXCEPT ![p] = "forked"]
         /\ known' = [known EXCEPT ![p] = StillRunning]
         /\ activePids' = StillRunning \cup {p}
         /\ pId' = [pId EXCEPT ![r] = p]
         /\ out' = [out EXCEPT ![p] = r]
    /\ phase' = [phase EXCEPT ![r] = "waiting"]
    /\ unread' = [unread EXCEPT ![r] = 0]
    /\ UNCHANGED <<pc, held, event>>

ExecuteFails_Registers(r) ==
    /\ pc = "loop" /\ phase[r] = "idle"
    /\ proc' = Reaped(activePids)
    /\ activePids' = StillRunning \cup {NoPid}
    /\ phase' = [phase EXCEPT ![r] = "error"]
    /\ UNCHANGED <<pc, pId, known, pipes, event>>

(* 503 at the limit, 500 when pipe() or fork() fails: no CGIManager is kept.   *)
ExecuteFails(r) ==
    /\ pc = "loop" /\ phase[r] = "idle"
    /\ proc' = Reaped(activePids)
    /\ activePids' = StillRunning
    /\ phase' = [phase EXCEPT ![r] = "error"]
    /\ UNCHANGED <<pc, pId, known, pipes, event>>

(* epoll_wait: EPOLLHUP when nobody has the other end, EPOLLIN for bytes.      *)
EpollWait ==
    /\ pc = "loop"
    /\ pc' = "events"
    /\ event' = [r \in Request |->
                   IF phase[r] # "waiting" THEN "none"
                   ELSE IF ~Writers(r) THEN "hup"
                   ELSE IF unread[r] > 0 THEN "in" ELSE "none"]
    /\ UNCHANGED <<phase, pId, activePids, proc, known, pipes>>

NextIteration ==
    /\ pc = "events" /\ \A r \in Request : event[r] = "none"
    /\ pc' = "loop"
    /\ UNCHANGED <<phase, pId, activePids, proc, known, pipes, event>>

(* delete _cgiInstance: the pipe is closed, the child left to itself.          *)
DeleteManager(r) ==
    /\ pId' = [pId EXCEPT ![r] = NoPid]
    /\ out' = [p \in Pid |-> IF out[p] = r THEN NoRequest ELSE out[p]]
    /\ held' = [held EXCEPT ![r] = FALSE]
    /\ event' = [event EXCEPT ![r] = "none"]

(* _handleCgiPipeEvent, EPOLLHUP: the output is taken to be complete.          *)
HandleHup(r) ==
    /\ event[r] = "hup"
    /\ phase' = [phase EXCEPT ![r] = "output"]
    /\ DeleteManager(r)
    /\ UNCHANGED <<pc, activePids, proc, known, unread>>

IsDone_KeepsPid(r) ==
    /\ ~Alive(pId[r])
    /\ proc' = Reaped({pId[r]})
    /\ UNCHANGED activePids

(* isDone() finds that the child ended, or is no child any more.               *)
IsDone(r) ==
    /\ ~Alive(pId[r])
    /\ proc' = Reaped({pId[r]})
    /\ activePids' = activePids \ {pId[r]}

(* _handleCgiPipeEvent, EPOLLIN: one read(), and the end if the child ended.   *)
HandleIn(r) ==
    /\ event[r] = "in"
    /\ unread' = [unread EXCEPT ![r] = @ - Least(@, ChunkSize)]
    /\ \/ /\ Alive(pId[r])
          /\ event' = [event EXCEPT ![r] = "none"]
          /\ UNCHANGED <<phase, pId, activePids, proc, out, held>>
       \/ /\ IsDone(r)
          /\ phase' = [phase EXCEPT ![r] = "output"]
          /\ DeleteManager(r)
    /\ UNCHANGED <<pc, known>>

(* The store cannot keep what was read: an error page, and the CGIManager      *)
(* stays, with its pipe, until the connection is deleted.                      *)
HandleInThrows(r) ==
    /\ event[r] = "in"
    /\ unread' = [unread EXCEPT ![r] = @ - Least(@, ChunkSize)]
    /\ phase' = [phase EXCEPT ![r] = "failed"]
    /\ event' = [event EXCEPT ![r] = "none"]
    /\ UNCHANGED <<pc, pId, activePids, proc, known, out, held>>

(* cgiTimeout(): SIGKILL to the number, waitpid() for it, isDone().  The       *)
(* number may be that of another process by now: _reapFinishedActivePids does  *)
(* not tell the CGIManager that its child was reaped.                          *)
Timeout(r) ==
    /\ pc = "loop" /\ phase[r] = "waiting"
    /\ proc' = [proc EXCEPT ![pId[r]] =
                  IF pId[r] \in Children \/ @ = "foreign" THEN "free" ELSE @]
    /\ known' = [known EXCEPT ![pId[r]] = {}]
    /\ activePids' = activePids \ {pId[r]}
    /\ phase' = [phase EXCEPT ![r] = "error"]
    /\ pId' = [pId EXCEPT ![r] = NoPid]
    /\ out' = [p \in Pid |-> IF out[p] = r \/ p = pId[r] THEN NoRequest
                             ELSE out[p]]
    /\ held' = [held EXCEPT ![r] = FALSE]
    /\ UNCHANGED <<pc, unread, event>>

(* _dropConnection: the client hung up, or has its answer.                     *)
Drop(r) ==
    /\ pc \in {"loop", "events"} /\ phase[r] # "idle"
    /\ phase' = [phase EXCEPT ![r] = "idle"]
    /\ DeleteManager(r)
    /\ UNCHANGED <<pc, activePids, proc, known, unread>>

(* ~ServerManager: every connection is deleted, then cleanupAllProcesses sends *)
(* SIGTERM; some children end of it.                                           *)
Shutdown ==
    /\ pc \in {"loop", "events"}
    /\ phase' = [r \in Request |-> "idle"]
    /\ pId' = [r \in Request |-> NoPid]
    /\ held' = [r \in Request |-> FALSE]
    /\ event' = [r \in Request |-> "none"]
    /\ out' = [p \in Pid |-> NoRequest]
    /\ \E victims \in SUBSET StillRunning :
         /\ {p \in activePids : proc[p] = "forked"} \subseteq victims
         /\ proc' = [p \in Pid |-> IF p \in victims THEN "zombie" ELSE proc[p]]
         /\ known' = [p \in Pid |-> IF p \in victims THEN {} ELSE known[p]]
    /\ pc' = IF activePids = {} THEN "exited" ELSE "grace"
    /\ UNCHANGED <<activePids, unread>>

(* The loop of the grace period.                                               *)
PollChildren ==
    /\ pc = "grace" /\ activePids # {}
    /\ proc' = Reaped(activePids)
    /\ activePids' = StillRunning
    /\ UNCHANGED <<pc, phase, pId, known, pipes, event>>

KillRemaining_NoWait ==
    /\ pc = "grace"
    /\ proc' = [p \in Pid |-> IF p \in activePids THEN "zombie" ELSE proc[p]]
    /\ known' = [p \in Pid |-> IF p \in activePids THEN {} ELSE known[p]]
    /\ activePids' = {}
    /\ pc' = "exited"
    /\ UNCHANGED <<phase, pId, pipes, event>>

(* It is over: SIGKILL to those left, and waitpid() for each.                  *)
KillRemaining ==
    /\ pc = "grace"
    /\ proc' = [p \in Pid |-> IF p \in activePids THEN "free" ELSE proc[p]]
    /\ known' = [p \in Pid |-> IF p \in activePids THEN {} ELSE known[p]]
    /\ activePids' = {}
    /\ pc' = "exited"
    /\ UNCHANGED <<phase, pId, pipes, event>>

Server ==
    \/ \E r \in Request :
         \/ Execute(r) \/ ExecuteFails(r)
         \/ HandleHup(r) \/ HandleIn(r) \/ HandleInThrows(r)
         \/ Timeout(r) \/ Drop(r)
    \/ EpollWait \/ NextIteration
    \/ Shutdown \/ PollChildren \/ KillRemaining

Next == System \/ Server

Spec == Init /\ [][Next]_vars

-----------------------------------------------------------------------------
(* _activePids is the set of the children not waited for, whoever reaps them   *)
(* and however numbers are reused: every child can be reaped and ended at the  *)
(* shutdown, and no other process is signalled there (_registerPid,            *)
(* _unregisterPid, _reapFinishedActivePids, cleanupAllProcesses).              *)
ActiveAreChildren == activePids = Children

(* No more children than the limit, zombies counted (_isSpawnLimitReached).    *)
LimitKept == Cardinality(Children) <= MaxActive

(* includes/CGIManager.hpp:56, at the end of the server no child is left       *)
(* (cleanupAllProcesses).                                                      *)
NoneLeft == pc = "exited" => Children = {}

(* includes/Response.hpp:89, "@return true if CGI output is fully consumed     *)
(* (EOF reached)": an output taken to be complete left nothing in the pipe.    *)
OutputConsumed == \A r \in Request : phase[r] = "output" => unread[r] = 0
=============================================================================
