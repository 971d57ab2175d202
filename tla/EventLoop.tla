----------------------------- MODULE EventLoop -----------------------------
(***************************************************************************)
(* The single-threaded epoll loop of the server: ServerManager::run() and  *)
(* every handler it calls, together with the state machine of a Connection *)
(* (Connection.hpp, Connection.cpp).                                       *)
(*                                                                         *)
(* One action is one handler call.  The kernel (descriptors, the interest  *)
(* list of epoll), the clients and the CGI children appear only through    *)
(* what the server can observe: which events epoll_wait() reports and what *)
(* a read, a write or a processing slice returns.  Connection objects are  *)
(* heap addresses, and both addresses and descriptors are reused.          *)
(***************************************************************************)
EXTENDS Naturals, Sequences, FiniteSets

CONSTANTS
    Conn,                  \* addresses the heap may return for a Connection
    Fd,                    \* descriptors for clients, CGI pipes and files
    ListenFd,              \* the listening socket
    NoConn, NoFd,          \* a map entry that is absent; the -1 descriptor
    Budget,                \* BACKLOG / 2, slices per round-robin pass
    MaxEvents,             \* size of _eventBuffer
    MaxQueue,              \* bound of the model: the deque itself has none
    MaxFiles, MaxLost,     \* bounds of the model on files and lost
    CONNECTION_TIMEOUT_S,
    CGI_TIMEOUT_S,
    SWEEP_INTERVAL_S       \* the 5 seconds between two idle sweeps

ASSUME NamesAssumption ==
    /\ NoConn \notin Conn
    /\ NoFd \notin Fd
    /\ ListenFd \notin Fd

ASSUME LimitsAssumption ==
    /\ Budget \in Nat \ {0}
    /\ MaxEvents \in Nat \ {0}
    /\ MaxQueue \in Nat
    /\ MaxFiles \in Nat
    /\ MaxLost \in Nat

(* 60, 10 and 5 seconds in the code; only their order matters.             *)
ASSUME TimeoutsAssumption ==
    /\ CONNECTION_TIMEOUT_S \in Nat \ {0}
    /\ CGI_TIMEOUT_S \in Nat \ {0}
    /\ SWEEP_INTERVAL_S \in Nat
    /\ CGI_TIMEOUT_S <= CONNECTION_TIMEOUT_S

VARIABLES
    g_running,             \* cleared by the signal handler
    pc,                    \* where run() is
    processed,             \* slices done in this round-robin pass
    batch,                 \* events of the last epoll_wait() not yet handled
    sweepAge,              \* seconds since lastSweep
    connections,           \* _connections : fd -> Connection*
    cgiPipeToConn,         \* _cgiPipeToConn : pipe fd -> Connection*
    cgiAge,                \* seconds since _cgiStartTimes[pipe fd]
    fdEvents,              \* _fdEvents : fd -> event mask
    processingQueue,       \* _processingQueue
    processingSet,         \* _processingSet
    state,                 \* Connection::_state, FREED when deleted
    acceptFd,              \* Connection::_acceptFD
    cgiPipe,               \* Connection::getCgiPipeFd()
    idle,                  \* seconds since Connection::_lastActivity
    openFds,               \* descriptors that are open in the kernel
    epollSet,              \* descriptors on the kernel's interest list
    files,                 \* descriptors that the stores, the served file and
                           \* the upload of a connection hold
    lost,                  \* open descriptors that nothing will close
    stray                  \* a hang-up closed a file: it has two closers now

serverVars == <<connections, cgiPipeToConn, cgiAge, fdEvents>>
queueVars  == <<processingQueue, processingSet>>
connVars   == <<state, acceptFd, cgiPipe, idle>>
kernelVars == <<openFds, epollSet, files, lost, stray>>
loopVars   == <<g_running, pc, processed, batch, sweepAge>>
vars == <<loopVars, serverVars, queueVars, connVars, kernelVars>>

(* FINISHED never outlives the handler that sets it: the connection is     *)
(* dropped before the handler returns.                                     *)
LiveState == {"READING", "PROCESSING", "WRITING", "WAITING_FOR_CGI"}
ConnState == LiveState \cup {"FREED"}
Mask      == {"IN", "INOUT", "0", "unregistered"}
Phase     == {"top", "rr", "sweep", "sweepCgi", "poll", "dispatch", "accept", "stopped"}

(* An event with EPOLLHUP or EPOLLERR is "HUP": the other flags reported   *)
(* with it are never looked at.                                            *)
Event     == {"IN", "OUT", "INOUT", "HUP"}
HasIn(e)  == e \in {"IN", "INOUT"}
HasOut(e) == e \in {"OUT", "INOUT"}

(* EPOLLHUP and EPOLLERR are reported whatever the mask.                   *)
Reported(mask) ==
    CASE mask = "IN"    -> {"none", "IN", "HUP"}
      [] mask = "INOUT" -> {"none", "IN", "OUT", "INOUT", "HUP"}
      [] mask = "0"     -> {"none", "HUP"}
      [] OTHER          -> {"none"}

(* The interest a connection needs in each of its states.                  *)
MaskOf(s) == CASE s = "READING" -> "IN"
               [] s = "WRITING" -> "INOUT"
               [] OTHER         -> "0"

Elems(q) == {q[i] : i \in 1..Len(q)}

NoEvents == [f \in Fd \cup {ListenFd} |-> "none"]

-----------------------------------------------------------------------------
Init ==
    /\ g_running = TRUE
    /\ pc = "top"
    /\ processed = 0
    /\ batch = NoEvents
    /\ sweepAge = SWEEP_INTERVAL_S
    /\ connections = [f \in Fd |-> NoConn]
    /\ cgiPipeToConn = [f \in Fd |-> NoConn]
    /\ cgiAge = [f \in Fd |-> 0]
    /\ fdEvents = [f \in Fd |-> "unregistered"]
    /\ processingQueue = <<>>
    /\ processingSet = {}
    /\ state = [c \in Conn |-> "FREED"]
    /\ acceptFd = [c \in Conn |-> NoFd]
    /\ cgiPipe = [c \in Conn |-> NoFd]
    /\ idle = [c \in Conn |-> 0]
    /\ openFds = {}
    /\ epollSet = {}
    /\ files = [c \in Conn |-> {}]
    /\ lost = {}
    /\ stray = FALSE

-----------------------------------------------------------------------------
(* Building blocks of the handlers.  Operators with an underscore in their *)
(* name are faulty variants of the definition that follows them: replacing *)
(* that definition must make a property fail.                              *)

DequeueProcessing_Forgotten(c) == UNCHANGED processingSet

(* _dequeueProcessing: the queue entry stays where it is.                  *)
DequeueProcessing(c) == processingSet' = processingSet \ {c}

(* epoll_ctl(DEL) with _fdEvents.erase, for the descriptors in S.          *)
EraseFdEvents(S) ==
    fdEvents' = [f \in Fd |-> IF f \in S THEN "unregistered" ELSE fdEvents[f]]

(* What a handler does to descriptors.  Each connection in S closes some of  *)
(* its files and opens others (temporary files, DataStore.cpp:235, 287, an   *)
(* upload, a file to serve); the pipes in shut are closed, those in unwatch  *)
(* unregistered, and more is opened.  Then addPollFd() is called for watch:  *)
(* ADD if _fdEvents has no entry, MOD if it has one, and epoll_ctl() refuses *)
(* what does not fit the kernel's list (see EscapedException).               *)
Descriptors(S, shut, unwatch, more, watch) ==
    \E closed, opened \in [S -> SUBSET Fd] :
       LET gone  == shut \cup UNION {closed[c] : c \in S}
           fresh == UNION {opened[c] : c \in S}
       IN
       /\ \A c \in S : closed[c] \subseteq files[c]
       /\ \A c, d \in S : c # d => opened[c] \cap opened[d] = {}
       /\ (more \cup fresh) \cap (openFds \ gone) = {} /\ more \cap fresh = {}
       /\ files' = [c \in Conn |-> IF c \in S THEN (files[c] \ closed[c]) \cup opened[c]
                                              ELSE files[c]]
       /\ \A c \in S : Cardinality(files'[c]) <= MaxFiles
       /\ openFds' = (openFds \ gone) \cup fresh \cup more
       /\ watch \subseteq openFds'
       /\ \A f \in watch :
             fdEvents[f] # "unregistered" <=> f \in epollSet \ (gone \cup unwatch)
       /\ epollSet' = (epollSet \ (gone \cup unwatch)) \cup watch

(* An error page whose append() throws stays open (Response.cpp:392-399), and*)
(* so does a client that is not in the maps yet (_acceptNewConnections).     *)
Leaks == {L \in SUBSET Fd : L \cap lost = {} /\ Cardinality(L \cup lost) <= MaxLost}

ClosedWith_KeepsPipe(c) == files[c]

(* What ~Connection closes, with its Response, CGIManager and stores.        *)
ClosedWith(c) == files[c] \cup {cgiPipe[c]}

(* _dropConnection(fd) for an fd that has a connection c: unregister its   *)
(* pipe, leave the queue entry behind, delete the object, then remove and  *)
(* close fd.                                                               *)
DropOwned(fd, c) ==
    LET pipe == cgiPipe[c] IN
    /\ cgiPipeToConn' = [f \in Fd |-> IF f = pipe THEN NoConn ELSE cgiPipeToConn[f]]
    /\ cgiAge' = [f \in Fd |-> IF f = pipe THEN 0 ELSE cgiAge[f]]
    /\ EraseFdEvents({pipe, fd})
    /\ epollSet' = epollSet \ (ClosedWith(c) \cup {pipe, fd})
    /\ openFds' = openFds \ (ClosedWith(c) \cup {fd})
    /\ files' = [files EXCEPT ![c] = {}]
    /\ DequeueProcessing(c)
    /\ connections' = [connections EXCEPT ![fd] = NoConn]
    /\ state' = [state EXCEPT ![c] = "FREED"]
    /\ acceptFd' = [acceptFd EXCEPT ![c] = NoFd]
    /\ cgiPipe' = [cgiPipe EXCEPT ![c] = NoFd]
    /\ idle' = [idle EXCEPT ![c] = 0]
    /\ UNCHANGED <<processingQueue, lost, stray>>

(* _dropConnection(fd) for an fd that is in no map: it is closed anyway,   *)
(* also when a handler earlier in the batch has opened a file on it.       *)
DropUnknown(fd) ==
    /\ epollSet' = epollSet \ {fd}
    /\ openFds' = openFds \ {fd}
    /\ lost' = lost \ {fd}
    /\ stray' = (stray \/ \E c \in Conn : fd \in files[c])
    /\ EraseFdEvents({fd})
    /\ UNCHANGED <<connections, cgiPipeToConn, cgiAge, queueVars, connVars, files>>

SetState_NoPoll(c, s) ==
    /\ state' = [state EXCEPT ![c] = s]
    /\ UNCHANGED fdEvents

(* c moves to state s and addPollFd() gives its socket the mask for s.     *)
SetState(c, s) ==
    /\ state' = [state EXCEPT ![c] = s]
    /\ fdEvents' = [fdEvents EXCEPT ![acceptFd[c]] = MaskOf(s)]

EnqueueProcessing_ByQueue(c) ==
    IF c \in Elems(processingQueue)
    THEN UNCHANGED queueVars
    ELSE /\ Len(processingQueue) < MaxQueue
         /\ processingSet' = processingSet \cup {c}
         /\ processingQueue' = Append(processingQueue, c)

(* _enqueueProcessing *)
EnqueueProcessing(c) ==
    /\ processingSet' = processingSet \cup {c}
    /\ IF c \in processingSet
       THEN UNCHANGED processingQueue
       ELSE /\ Len(processingQueue) < MaxQueue
            /\ processingQueue' = Append(processingQueue, c)

Touch_NoRefresh(c) == UNCHANGED idle

(* _updateActivityTimer *)
Touch(c) == idle' = [idle EXCEPT ![c] = 0]

(* ~ServerManager, after run() returned or an exception left it, with left *)
(* open and in no map.                                                     *)
CloseAllFds(left) ==
    LET closed == {f \in Fd : fdEvents[f] # "unregistered"}
                  \cup UNION {ClosedWith(c) : c \in Conn}
    IN
    /\ pc' = "stopped"
    /\ processed' = 0
    /\ batch' = NoEvents
    /\ connections' = [f \in Fd |-> NoConn]
    /\ cgiPipeToConn' = [f \in Fd |-> NoConn]
    /\ cgiAge' = [f \in Fd |-> 0]
    /\ fdEvents' = [f \in Fd |-> "unregistered"]
    /\ processingQueue' = <<>>
    /\ processingSet' = {}
    /\ state' = [c \in Conn |-> "FREED"]
    /\ acceptFd' = [c \in Conn |-> NoFd]
    /\ cgiPipe' = [c \in Conn |-> NoFd]
    /\ idle' = [c \in Conn |-> 0]
    /\ openFds' = (openFds \cup left) \ closed
    /\ lost' = (lost \cup left) \ closed
    /\ files' = [c \in Conn |-> {}]
    /\ epollSet' = {}
    /\ UNCHANGED <<g_running, sweepAge, stray>>

-----------------------------------------------------------------------------
(* run(): the head of the loop.                                            *)

StartIteration_IgnoresSignal ==
    /\ pc = "top"
    /\ pc' = "rr"
    /\ processed' = 0
    /\ UNCHANGED <<g_running, batch, sweepAge, serverVars, queueVars, connVars, kernelVars>>

StartIteration ==
    /\ pc = "top"
    /\ g_running
    /\ pc' = "rr"
    /\ processed' = 0
    /\ UNCHANGED <<g_running, batch, sweepAge, serverVars, queueVars, connVars, kernelVars>>

Shutdown ==
    /\ pc = "top"
    /\ ~g_running
    /\ CloseAllFds({})

(* A handler throws outside every try block, or a system call of the loop  *)
(* fails fatally, epoll_ctl() among them: main() catches, and the          *)
(* destructor runs.  The client just accepted, or the error page just      *)
(* opened, is then nobody's.                                               *)
EscapedException ==
    /\ pc \in {"rr", "sweep", "sweepCgi", "poll", "dispatch", "accept"}
    /\ \E left \in Leaks : /\ left \cap openFds = {}
                           /\ pc = "poll" => left = {}
                           /\ CloseAllFds(left)

-----------------------------------------------------------------------------
(* _runRoundRobin                                                          *)

InPass_OffByOne == /\ pc = "rr"
                   /\ processingQueue # <<>>
                   /\ processed <= Budget

InPass == /\ pc = "rr"
          /\ processingQueue # <<>>
          /\ processed < Budget

(* An entry whose connection was dequeued or dropped costs no budget.      *)
SkipStale ==
    /\ InPass
    /\ Head(processingQueue) \notin processingSet
    /\ processingQueue' = Tail(processingQueue)
    /\ UNCHANGED <<loopVars, processingSet, serverVars, connVars, kernelVars>>

BeginSlice(c) ==
    /\ InPass
    /\ c = Head(processingQueue)
    /\ c \in processingSet
    /\ processed' = processed + 1
    /\ Touch(c)
    /\ UNCHANGED <<g_running, pc, batch, sweepAge>>

Requeue_Front(c) == processingQueue' = <<c>> \o Tail(processingQueue)

Requeue(c) == processingQueue' = Append(Tail(processingQueue), c)

(* process() needs another slice: chunked body or upload not finished.     *)
ProcessMore(c) ==
    /\ BeginSlice(c)
    /\ Requeue(c)
    /\ Descriptors({c}, {}, {}, {}, {})
    /\ UNCHANGED <<processingSet, state, acceptFd, cgiPipe, serverVars, lost, stray>>

(* process() built a response, or failed and built an error page.          *)
ProcessDone(c) ==
    /\ BeginSlice(c)
    /\ processingQueue' = Tail(processingQueue)
    /\ DequeueProcessing(c)
    /\ SetState(c, "WRITING")
    /\ \E page \in Leaks : /\ Descriptors({c}, {}, {}, page, {acceptFd[c]})
                           /\ lost' = lost \cup page
    /\ UNCHANGED <<acceptFd, cgiPipe, connections, cgiPipeToConn, cgiAge, stray>>

(* process() started a CGI child on a new pipe; _finalizeProcessed         *)
(* silences the client socket and registers the pipe.                      *)
ProcessCgi(c) ==
    /\ BeginSlice(c)
    /\ processingQueue' = Tail(processingQueue)
    /\ DequeueProcessing(c)
    /\ state' = [state EXCEPT ![c] = "WAITING_FOR_CGI"]
    /\ \E p \in Fd :
          /\ Descriptors({c}, {}, {}, {p}, {acceptFd[c], p})
          /\ cgiPipe' = [cgiPipe EXCEPT ![c] = p]
          /\ cgiPipeToConn' = [cgiPipeToConn EXCEPT ![p] = c]
          /\ cgiAge' = [cgiAge EXCEPT ![p] = 0]
          /\ fdEvents' = [fdEvents EXCEPT ![acceptFd[c]] = "0", ![p] = "IN"]
    /\ UNCHANGED <<acceptFd, connections, lost, stray>>

EndRoundRobin_SweepWhenIdle ==
    /\ pc = "rr"
    /\ \/ processingQueue = <<>> /\ pc' = "sweep"
       \/ processed = Budget /\ pc' = "poll"
    /\ processed' = 0
    /\ UNCHANGED <<g_running, batch, sweepAge, serverVars, queueVars, connVars, kernelVars>>

EndRoundRobin ==
    /\ pc = "rr"
    /\ \/ processingQueue = <<>>
       \/ processed = Budget
    /\ pc' = "sweep"
    /\ processed' = 0
    /\ UNCHANGED <<g_running, batch, sweepAge, serverVars, queueVars, connVars, kernelVars>>

-----------------------------------------------------------------------------
(* _sweepTimeouts: every connection idle for too long, whatever its state, *)
(* gets a 408 page and leaves the processing set.  It is not dropped, and  *)
(* its activity timer is not reset.                                        *)
TimedOut ==
    {c \in Conn : (\E f \in Fd : connections[f] = c) /\ idle[c] >= CONNECTION_TIMEOUT_S}

SweepTimeouts ==
    /\ pc = "sweep"
    /\ pc' = "sweepCgi"
    /\ IF sweepAge < SWEEP_INTERVAL_S
       THEN UNCHANGED <<sweepAge, state, processingSet, fdEvents, openFds, epollSet, files>>
       ELSE /\ sweepAge' = 0
            /\ state' = [c \in Conn |-> IF c \in TimedOut THEN "WRITING" ELSE state[c]]
            /\ processingSet' = processingSet \ TimedOut
            /\ fdEvents' = [f \in Fd |-> IF connections[f] \in TimedOut
                                         THEN MaskOf("WRITING") ELSE fdEvents[f]]
            /\ Descriptors(TimedOut, {}, {}, {}, {acceptFd[c] : c \in TimedOut})
    /\ UNCHANGED <<g_running, processed, batch, connections, cgiPipeToConn, cgiAge,
                   processingQueue, acceptFd, cgiPipe, idle, lost, stray>>

(* _sweepCgiTimeouts: the child is killed, its pipe closed, and the client *)
(* gets a 504 page.                                                        *)
CgiExpired == {p \in Fd : cgiPipeToConn[p] # NoConn /\ cgiAge[p] >= CGI_TIMEOUT_S}

SweepCgiTimeouts ==
    LET killed == {cgiPipeToConn[p] : p \in CgiExpired} IN
    /\ pc = "sweepCgi"
    /\ pc' = "poll"
    /\ state' = [c \in Conn |-> IF c \in killed THEN "WRITING" ELSE state[c]]
    /\ cgiPipe' = [c \in Conn |-> IF c \in killed THEN NoFd ELSE cgiPipe[c]]
    /\ cgiPipeToConn' = [p \in Fd |-> IF p \in CgiExpired THEN NoConn ELSE cgiPipeToConn[p]]
    /\ cgiAge' = [p \in Fd |-> IF p \in CgiExpired THEN 0 ELSE cgiAge[p]]
    /\ fdEvents' = [f \in Fd |-> IF f \in CgiExpired THEN "unregistered"
                                 ELSE IF \E c \in killed : acceptFd[c] = f
                                 THEN MaskOf("WRITING") ELSE fdEvents[f]]
    /\ Descriptors(killed, CgiExpired, CgiExpired, {}, {acceptFd[c] : c \in killed})
    /\ UNCHANGED <<g_running, processed, batch, sweepAge, connections, queueVars,
                   acceptFd, idle, lost, stray>>

-----------------------------------------------------------------------------
(* epoll_wait() returns at most MaxEvents events, or none (time-out, EINTR).*)
Batches ==
    {b \in [Fd \cup {ListenFd} -> Event \cup {"none"}] :
        /\ \A f \in Fd : b[f] \in Reported(IF f \in epollSet THEN fdEvents[f]
                                                             ELSE "unregistered")
        /\ b[ListenFd] \in {"none", "IN", "HUP"}
        /\ Cardinality({f \in DOMAIN b : b[f] # "none"}) <= MaxEvents}

EpollWait ==
    /\ pc = "poll"
    /\ batch' \in Batches
    /\ pc' = IF batch' = NoEvents THEN "top" ELSE "dispatch"
    /\ UNCHANGED <<g_running, processed, sweepAge, serverVars, queueVars, connVars, kernelVars>>

EndDispatch ==
    /\ pc = "dispatch"
    /\ batch = NoEvents
    /\ pc' = "top"
    /\ UNCHANGED <<g_running, processed, batch, sweepAge, serverVars, queueVars, connVars, kernelVars>>

(* The loop takes the next event, of descriptor f; ready lists come in any *)
(* order.                                                                  *)
TakeEvent(f) ==
    /\ pc = "dispatch"
    /\ batch[f] # "none"
    /\ batch' = [batch EXCEPT ![f] = "none"]
    /\ UNCHANGED <<g_running, processed, sweepAge>>

IsCgiPipe(f) == f \in Fd /\ cgiPipeToConn[f] # NoConn

-----------------------------------------------------------------------------
(* _handleCgiPipeEvent                                                     *)

(* End of the CGI: EPOLLHUP, or readCgiOutput() returned true.  The page   *)
(* is built and the CGIManager, with its pipe, deleted.                    *)
CgiPipeDone(p) ==
    LET c == cgiPipeToConn[p] IN
    /\ TakeEvent(p)
    /\ IsCgiPipe(p)
    /\ UNCHANGED pc
    /\ cgiPipeToConn' = [cgiPipeToConn EXCEPT ![p] = NoConn]
    /\ cgiAge' = [cgiAge EXCEPT ![p] = 0]
    /\ cgiPipe' = [cgiPipe EXCEPT ![c] = NoFd]
    /\ state' = [state EXCEPT ![c] = "WRITING"]
    /\ fdEvents' = [fdEvents EXCEPT ![p] = "unregistered", ![acceptFd[c]] = MaskOf("WRITING")]
    /\ Descriptors({c}, {p}, {p}, {}, {acceptFd[c]})
    /\ UNCHANGED <<connections, queueVars, acceptFd, idle, lost, stray>>

(* readCgiOutput() stored a chunk and expects more.                        *)
CgiPipeMore(p) ==
    /\ TakeEvent(p)
    /\ IsCgiPipe(p)
    /\ batch[p] = "IN"
    /\ Descriptors({cgiPipeToConn[p]}, {}, {}, {}, {})
    /\ UNCHANGED <<pc, serverVars, queueVars, connVars, lost, stray>>

(* readCgiOutput() threw: an error page is built and the pipe unregistered,*)
(* but the CGIManager keeps it open until the connection is deleted.       *)
CgiPipeThrow(p) ==
    LET c == cgiPipeToConn[p] IN
    /\ TakeEvent(p)
    /\ IsCgiPipe(p)
    /\ batch[p] = "IN"
    /\ UNCHANGED pc
    /\ cgiPipeToConn' = [cgiPipeToConn EXCEPT ![p] = NoConn]
    /\ cgiAge' = [cgiAge EXCEPT ![p] = 0]
    /\ state' = [state EXCEPT ![c] = "WRITING"]
    /\ fdEvents' = [fdEvents EXCEPT ![p] = "unregistered", ![acceptFd[c]] = MaskOf("WRITING")]
    /\ Descriptors({c}, {}, {p}, {}, {acceptFd[c]})
    /\ UNCHANGED <<connections, queueVars, acceptFd, idle, cgiPipe, lost, stray>>

-----------------------------------------------------------------------------
(* Events of client sockets and of the listening socket.                   *)

(* EPOLLHUP or EPOLLERR on anything that is not a registered pipe.         *)
DispatchHup(f) ==
    /\ TakeEvent(f)
    /\ ~IsCgiPipe(f)
    /\ batch[f] = "HUP"
    /\ UNCHANGED pc
    /\ \/ f = ListenFd /\ UNCHANGED <<serverVars, queueVars, connVars, kernelVars>>
       \/ f # ListenFd /\ connections[f] # NoConn /\ DropOwned(f, connections[f])
       \/ f # ListenFd /\ connections[f] = NoConn /\ DropUnknown(f)

(* The event of a descriptor whose owner left the maps during this batch.  *)
DispatchNobody(f) ==
    /\ TakeEvent(f)
    /\ f \in Fd
    /\ ~IsCgiPipe(f)
    /\ batch[f] # "HUP"
    /\ connections[f] = NoConn
    /\ UNCHANGED <<pc, serverVars, queueVars, connVars, kernelVars>>

(* What handleRead() may leave, then what handleWrite() may leave.  recv() *)
(* may find nothing although the event said EPOLLIN: the event may belong  *)
(* to an earlier owner of the descriptor.                                  *)
AfterRead_AnyState(s, e) ==
    IF HasIn(e) THEN {"READING", "PROCESSING", "WRITING", "FINISHED"} ELSE {s}

AfterRead(s, e) ==
    IF HasIn(e) /\ s = "READING"
    THEN {"READING", "PROCESSING", "WRITING", "FINISHED"} ELSE {s}

AfterWrite(s, e) ==
    IF HasOut(e) /\ s = "WRITING" THEN {"WRITING", "FINISHED"} ELSE {s}

(* _handleConnection; triggerError() in its catch clauses leaves WRITING.  *)
HandleConnection(f) ==
    LET c == connections[f]
        e == batch[f]
        s == state[c]
    IN
    /\ TakeEvent(f)
    /\ f \in Fd
    /\ ~IsCgiPipe(f)
    /\ e # "HUP"
    /\ c # NoConn
    /\ UNCHANGED pc
    /\ \E r \in AfterRead(s, e) : \E w \in AfterWrite(r, e) :
          \/ /\ w = "FINISHED"
             /\ DropOwned(f, c)
          \/ /\ w # "FINISHED"
             /\ SetState(c, w)
             /\ IF HasIn(e) /\ r = "PROCESSING" THEN EnqueueProcessing(c)
                                                ELSE UNCHANGED queueVars
             /\ IF (HasIn(e) /\ s = "READING") \/ (HasOut(e) /\ r = "WRITING")
                THEN Touch(c) ELSE UNCHANGED idle
             /\ \E page \in Leaks :
                   /\ page # {} => s = "READING" /\ r = "WRITING"
                   /\ Descriptors({c}, {}, {}, page, {f})
                   /\ lost' = lost \cup page
             /\ UNCHANGED <<connections, cgiPipeToConn, cgiAge, acceptFd, cgiPipe, stray>>

(* _acceptNewConnections: accept() until it fails.  A client that epoll    *)
(* refuses ends the server (see EscapedException).                         *)
DispatchListen ==
    /\ TakeEvent(ListenFd)
    /\ batch[ListenFd] # "HUP"
    /\ pc' = "accept"
    /\ UNCHANGED <<serverVars, queueVars, connVars, kernelVars>>

Accept(c, f) ==
    /\ pc = "accept"
    /\ state[c] = "FREED"
    /\ f \notin openFds /\ fdEvents[f] = "unregistered"
    /\ connections' = [connections EXCEPT ![f] = c]
    /\ state' = [state EXCEPT ![c] = "READING"]
    /\ acceptFd' = [acceptFd EXCEPT ![c] = f]
    /\ fdEvents' = [fdEvents EXCEPT ![f] = MaskOf("READING")]
    /\ openFds' = openFds \cup {f}
    /\ epollSet' = epollSet \cup {f}
    /\ Touch(c)
    /\ UNCHANGED <<loopVars, cgiPipeToConn, cgiAge, queueVars, cgiPipe, files, lost, stray>>

AcceptDone ==
    /\ pc = "accept"
    /\ pc' = "dispatch"
    /\ UNCHANGED <<g_running, processed, batch, sweepAge, serverVars, queueVars, connVars, kernelVars>>

-----------------------------------------------------------------------------
(* The environment: SIGINT, and time, of which only what the time-outs     *)
(* compare is kept.                                                        *)

Signal ==
    /\ pc # "stopped"
    /\ g_running' = FALSE
    /\ UNCHANGED <<pc, processed, batch, sweepAge, serverVars, queueVars, connVars, kernelVars>>

UpTo(n, limit) == IF n < limit THEN n + 1 ELSE limit

Tick ==
    /\ pc # "stopped"
    /\ sweepAge' = UpTo(sweepAge, SWEEP_INTERVAL_S)
    /\ idle' = [c \in Conn |-> IF state[c] = "FREED" THEN 0
                               ELSE UpTo(idle[c], CONNECTION_TIMEOUT_S)]
    /\ cgiAge' = [p \in Fd |-> IF cgiPipeToConn[p] = NoConn THEN 0
                               ELSE UpTo(cgiAge[p], CGI_TIMEOUT_S)]
    /\ UNCHANGED <<g_running, pc, processed, batch, connections, cgiPipeToConn, fdEvents,
                   queueVars, state, acceptFd, cgiPipe, kernelVars>>

-----------------------------------------------------------------------------
LoopStep == StartIteration \/ Shutdown \/ EpollWait \/ EndDispatch

RoundRobinStep ==
    \/ SkipStale
    \/ \E c \in Conn : ProcessMore(c) \/ ProcessDone(c) \/ ProcessCgi(c)
    \/ EndRoundRobin

SweepStep == SweepTimeouts \/ SweepCgiTimeouts

DispatchStep ==
    \/ \E p \in Fd : CgiPipeDone(p) \/ CgiPipeMore(p) \/ CgiPipeThrow(p)
    \/ \E f \in Fd \cup {ListenFd} : DispatchHup(f)
    \/ \E f \in Fd : DispatchNobody(f) \/ HandleConnection(f)
    \/ DispatchListen
    \/ \E c \in Conn, f \in Fd : Accept(c, f)
    \/ AcceptDone

Server == LoopStep \/ RoundRobinStep \/ SweepStep \/ DispatchStep \/ EscapedException

Next == Server \/ Signal \/ Tick

Spec == Init /\ [][Next]_vars

(* The thread never blocks for ever: sockets are non-blocking, epoll_wait()*)
(* has a finite time-out.  Nothing is assumed about clients or CGI         *)
(* children.                                                               *)
LoopFairSpec == Spec /\ WF_vars(Server)

-----------------------------------------------------------------------------
(* Properties.                                                             *)

TypeOK ==
    /\ g_running \in BOOLEAN
    /\ pc \in Phase
    /\ processed \in 0..Budget
    /\ batch \in [Fd \cup {ListenFd} -> Event \cup {"none"}]
    /\ sweepAge \in 0..SWEEP_INTERVAL_S
    /\ connections \in [Fd -> Conn \cup {NoConn}]
    /\ cgiPipeToConn \in [Fd -> Conn \cup {NoConn}]
    /\ cgiAge \in [Fd -> 0..CGI_TIMEOUT_S]
    /\ fdEvents \in [Fd -> Mask]
    /\ processingQueue \in Seq(Conn)
    /\ processingSet \subseteq Conn
    /\ state \in [Conn -> ConnState]
    /\ acceptFd \in [Conn -> Fd \cup {NoFd}]
    /\ cgiPipe \in [Conn -> Fd \cup {NoFd}]
    /\ idle \in [Conn -> 0..CONNECTION_TIMEOUT_S]
    /\ openFds \subseteq Fd
    /\ epollSet \subseteq Fd
    /\ files \in [Conn -> SUBSET Fd]
    /\ lost \subseteq Fd
    /\ stray \in BOOLEAN

(* The maps _connections and _cgiPipeToConn and the set _processingSet     *)
(* never hold the address of a deleted Connection, whatever goes wrong with*)
(* descriptors: the raw pointers of ServerManager never dangle although    *)
(* queue entries are left behind by _dropConnection.  And no live          *)
(* connection is missing from _connections, as long as no hang-up has      *)
(* closed a file.                                                          *)
NoDanglingPointer ==
    /\ \A f \in Fd : connections[f] # NoConn => acceptFd[connections[f]] = f
    /\ \A p \in Fd : cgiPipeToConn[p] # NoConn => cgiPipe[cgiPipeToConn[p]] = p
    /\ \A c \in processingSet : state[c] # "FREED"
    /\ \A c \in Conn : IF state[c] = "FREED"
                       THEN acceptFd[c] = NoFd /\ cgiPipe[c] = NoFd /\ files[c] = {}
                       ELSE \/ stray
                            \/ acceptFd[c] \in Fd /\ connections[acceptFd[c]] = c

(* A connection waits for a processing slice exactly when it is in         *)
(* _processingSet, and then the queue holds it: with lazy removal and      *)
(* reused addresses no connection is forgotten in PROCESSING (its socket   *)
(* is silenced, so nothing else would wake it).                            *)
NoLostWakeup ==
    /\ \A c \in Conn : c \in processingSet <=> state[c] = "PROCESSING"
    /\ processingSet \subseteq Elems(processingQueue)

(* A pipe is registered exactly while its connection waits for the CGI. A  *)
(* 408 sweep breaks this for a moment, and the CGI sweep that follows it   *)
(* repairs it, because a connection idle for CONNECTION_TIMEOUT_S has a    *)
(* child that is older than CGI_TIMEOUT_S.  After a hang-up that closed a  *)
(* file, a drop may unregister the pipe of another connection.             *)
CgiRegistration ==
    pc # "sweepCgi" =>
        \A c \in Conn :
            LET registered == \E p \in Fd : cgiPipeToConn[p] = c IN
            /\ registered => state[c] = "WAITING_FOR_CGI"
            /\ state[c] = "WAITING_FOR_CGI" => registered \/ stray

(* epoll watches every live connection for what its state needs, after     *)
(* every handler: none is left deaf, none spins on an event it ignores.    *)
MaskMatchesState ==
    \A c \in Conn : state[c] # "FREED" => fdEvents[acceptFd[c]] = MaskOf(state[c])

(* _fdEvents names exactly the descriptors on the kernel's interest list,  *)
(* so addPollFd() chooses between ADD and MOD correctly and never throws   *)
(* FatalException for a descriptor the kernel does not know.               *)
EpollMirror ==
    \A f \in Fd : fdEvents[f] # "unregistered" <=> f \in epollSet

(* What the kernel watches is what the loop thinks it watches, and what    *)
(* each connection needs (addPollFd, removePollFd, _handleConnection),     *)
(* until a hang-up has closed a file: that file's store closes the number  *)
(* again, and takes a client that got it off the interest list while       *)
(* _fdEvents keeps it.  That this happens is shown by OwnEventsOnly.       *)
EpollCurrent == stray \/ (MaskMatchesState /\ EpollMirror)

Owned(c) == ({acceptFd[c], cgiPipe[c]} \cup files[c]) \cap Fd

(* Every open descriptor has one owner, a live connection's socket, its    *)
(* pipe or one of its files, and every owner's descriptor is open: nobody  *)
(* closes what is another's, whatever order drops, CGI ends, accepts and   *)
(* files come in, until a hang-up has closed a file (DropUnknown).  Nobody *)
(* owns the error pages and the refused client that Leaks names, and       *)
(* nothing else leaks.                                                     *)
DescriptorsOwned ==
    \/ stray
    \/ /\ openFds = lost \cup UNION {Owned(c) : c \in Conn}
       /\ \A c \in Conn :
             /\ Owned(c) \cap lost = {}
             /\ \A d \in Conn \ {c} : Owned(c) \cap Owned(d) = {}
             /\ acceptFd[c] # NoFd => acceptFd[c] \notin ClosedWith(c)
             /\ cgiPipe[c] \notin files[c]

(* Round robin is starvation free: a connection in _processingSet reaches  *)
(* the head of the queue with budget left (its process() is called next)   *)
(* or leaves the set, whatever the other connections do; no time-out is    *)
(* needed for that.                                                        *)
AtHead(c) == InPass /\ Head(processingQueue) = c

Served == \A c \in Conn : (c \in processingSet) ~> (c \notin processingSet \/ AtHead(c))

(* A connection waiting for a CGI gets out of that state, if the clock     *)
(* runs: the child ends, fails or is timed out, even if it writes for ever *)
(* (_sweepCgiTimeouts).                                                    *)
CgiAnswered ==
    WF_vars(Tick) =>
        \A c \in Conn :
            (state[c] = "WAITING_FOR_CGI") ~> (state[c] # "WAITING_FOR_CGI")

(* SIGINT stops the server, whatever is queued: no loop of an iteration is *)
(* endless.                                                                *)
Stops == (~g_running) ~> (pc = "stopped")

(* The loop implements the life cycle of a connection: handlers called in  *)
(* any order, for stale events included, never move a connection           *)
(* backwards.                                                              *)
Lifecycle == INSTANCE ConnLifecycle WITH phase <- state
LifecycleSpec == Lifecycle!Spec
=============================================================================
