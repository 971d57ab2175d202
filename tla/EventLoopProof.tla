--------------------------- MODULE EventLoopProof ---------------------------
(***************************************************************************)
(* Proofs about EventLoop: the invariant IInv of EventLoopInv is inductive *)
(* for every number of connections and descriptors, every budget and every *)
(* time-out, and implies the safety invariants that TLC checks on small    *)
(* instances.  What concerns descriptors holds until a hang-up closes a    *)
(* file (stray), and is proved for that long.                              *)
(***************************************************************************)
EXTENDS EventLoopInv, TLAPS

USE NamesAssumption, LimitsAssumption, TimeoutsAssumption
USE DEF NamesAssumption, LimitsAssumption, TimeoutsAssumption

(* addPollFd() is only ever given one of the masks of Mask.                *)
LEMMA MaskOfType == \A s : MaskOf(s) \in Mask
BY DEF MaskOf, Mask

(* Descriptors(), for given files closed and opened by each connection.    *)
Moved(closed, opened, gone, fresh, S, shut, unwatch, more, watch) ==
    /\ gone = shut \cup UNION {closed[c] : c \in S}
    /\ fresh = UNION {opened[c] : c \in S}
    /\ \A c \in S : closed[c] \subseteq files[c]
    /\ \A c, d \in S : c # d => opened[c] \cap opened[d] = {}
    /\ (more \cup fresh) \cap (openFds \ gone) = {} /\ more \cap fresh = {}
    /\ files' = [c \in Conn |-> IF c \in S THEN (files[c] \ closed[c]) \cup opened[c]
                                           ELSE files[c]]
    /\ openFds' = (openFds \ gone) \cup fresh \cup more
    /\ watch \subseteq openFds'
    /\ epollSet' = (epollSet \ (gone \cup unwatch)) \cup watch

LEMMA DescriptorsMoved ==
    ASSUME NEW S, NEW shut, NEW unwatch, NEW more, NEW watch,
           Descriptors(S, shut, unwatch, more, watch)
    PROVE  \E closed, opened \in [S -> SUBSET Fd] : \E gone, fresh :
              Moved(closed, opened, gone, fresh, S, shut, unwatch, more, watch)
<1>1. PICK closed, opened \in [S -> SUBSET Fd] :
       LET gone  == shut \cup UNION {closed[c] : c \in S}
           fresh == UNION {opened[c] : c \in S}
       IN
       /\ \A c \in S : closed[c] \subseteq files[c]
       /\ \A c, d \in S : c # d => opened[c] \cap opened[d] = {}
       /\ (more \cup fresh) \cap (openFds \ gone) = {} /\ more \cap fresh = {}
       /\ files' = [c \in Conn |-> IF c \in S THEN (files[c] \ closed[c]) \cup opened[c]
                                              ELSE files[c]]
       /\ \A c \in S : Cardinality(files'[c]) <= MaxFiles
       /\ openFds' = (openFds \ gone) \cup fresh \cup more
       /\ watch \subseteq openFds'
       /\ \A f \in watch :
             fdEvents[f] # "unregistered" <=> f \in epollSet \ (gone \cup unwatch)
       /\ epollSet' = (epollSet \ (gone \cup unwatch)) \cup watch
  BY Zenon DEF Descriptors
<1>2. \E gone, fresh : Moved(closed, opened, gone, fresh, S, shut, unwatch, more, watch)
  BY Zenon, <1>1 DEF Moved
<1> QED
  BY Zenon, <1>2

(* What a handler does to files leaves the descriptors well typed, and the  *)
(* files of the connections it is not called for alone.                    *)
LEMMA DescriptorsType ==
    ASSUME openFds \subseteq Fd, epollSet \subseteq Fd, files \in [Conn -> SUBSET Fd],
           NEW S \in SUBSET Conn, NEW shut, NEW unwatch, NEW more \in SUBSET Fd, NEW watch,
           Descriptors(S, shut, unwatch, more, watch)
    PROVE  /\ files' \in [Conn -> SUBSET Fd]
           /\ openFds' \subseteq Fd
           /\ epollSet' \subseteq Fd
           /\ \A c \in Conn \ S : files'[c] = files[c]
<1>1. PICK closed, opened \in [S -> SUBSET Fd] : \E gone, fresh :
         Moved(closed, opened, gone, fresh, S, shut, unwatch, more, watch)
  BY Zenon, DescriptorsMoved
<1>2. PICK gone, fresh : Moved(closed, opened, gone, fresh, S, shut, unwatch, more, watch)
  BY <1>1
<1>3. files' \in [Conn -> SUBSET Fd] /\ \A c \in Conn \ S : files'[c] = files[c]
  BY <1>2 DEF Moved
<1>4. fresh \subseteq Fd
  BY <1>2 DEF Moved
<1>5. openFds' \subseteq Fd
  BY <1>2, <1>4 DEF Moved
<1>6. epollSet' \subseteq Fd
  BY <1>2, <1>5 DEF Moved
<1> QED
  BY <1>3, <1>5, <1>6

(* The files of the connections in S are open, have one owner and are       *)
(* neither watched nor among the pipes in shut.                            *)
OwnFiles(S, shut) ==
    /\ \A c \in S : files[c] \subseteq openFds
    /\ \A c \in S : \A f \in files[c] : f \notin shut /\ f \notin epollSet
    /\ \A c, d \in S : c # d => files[c] \cap files[d] = {}

(* What Descriptors() then does: a new file takes a number that is free or *)
(* that has just been closed, and the interest list loses and gains only   *)
(* what it is told to.                                                     *)
NewFiles(S, shut, unwatch, more, watch) ==
    /\ \A f \in Fd : f \in openFds' <=>
          \/ f \in openFds /\ f \notin shut /\ \A c \in S : f \notin files[c]
          \/ f \in more
          \/ \E c \in S : f \in files'[c]
    /\ \A c \in S : \A f \in files'[c] : f \notin more
    /\ \A c \in S : \A f \in files'[c] :
          f \in openFds => f \in shut \/ \E d \in S : f \in files[d]
    /\ \A f \in more : f \in openFds => f \in shut \/ \E d \in S : f \in files[d]
    /\ \A c, d \in S : c # d => files'[c] \cap files'[d] = {}
    /\ watch \subseteq openFds'
    /\ \A f \in Fd : f \in epollSet' <=>
          f \in watch \/ (f \in epollSet /\ f \notin shut /\ f \notin unwatch)

LEMMA DescriptorsDisjoint ==
    ASSUME openFds \subseteq Fd, epollSet \subseteq Fd, files \in [Conn -> SUBSET Fd],
           NEW S \in SUBSET Conn, NEW shut, NEW unwatch, NEW more \in SUBSET Fd, NEW watch,
           Descriptors(S, shut, unwatch, more, watch), OwnFiles(S, shut)
    PROVE  NewFiles(S, shut, unwatch, more, watch)
<1>1. PICK closed, opened \in [S -> SUBSET Fd] : \E gone, fresh :
         Moved(closed, opened, gone, fresh, S, shut, unwatch, more, watch)
  BY Zenon, DescriptorsMoved
<1>2. PICK gone, fresh : Moved(closed, opened, gone, fresh, S, shut, unwatch, more, watch)
  BY <1>1
<1> USE <1>2 DEF Moved, OwnFiles
<1>3. \A f : f \in gone <=> f \in shut \/ \E c \in S : f \in closed[c]
  OBVIOUS
<1>4. \A f : f \in fresh <=> \E c \in S : f \in opened[c]
  OBVIOUS
<1>5. \A c \in S : \A f : f \in files'[c] <=> (f \in files[c] /\ f \notin closed[c]) \/ f \in opened[c]
  OBVIOUS
<1>6. \A c \in S : closed[c] \subseteq files[c]
  OBVIOUS
<1>7. \A f : f \in openFds' <=> (f \in openFds /\ f \notin gone) \/ f \in fresh \/ f \in more
  OBVIOUS
<1>8. \A f : f \in more \/ f \in fresh => f \notin openFds \/ f \in gone
  OBVIOUS
<1>9. \A f : f \in more => f \notin fresh
  OBVIOUS
<1>10. \A c, d \in S : c # d => opened[c] \cap opened[d] = {}
  OBVIOUS
<1>11. \A f : f \in epollSet' <=> f \in watch \/ (f \in epollSet /\ f \notin gone /\ f \notin unwatch)
  OBVIOUS
<1>12. watch \subseteq openFds'
  OBVIOUS
<1> HIDE <1>2 DEF Moved
<1>13. \A c \in S : \A f \in files[c] : f \notin closed[c] => f \notin gone
  BY <1>3, <1>6
<1>14. ASSUME NEW f \in Fd
       PROVE  f \in openFds' <=>
                 \/ f \in openFds /\ f \notin shut /\ \A c \in S : f \notin files[c]
                 \/ f \in more
                 \/ \E c \in S : f \in files'[c]
  BY <1>3, <1>4, <1>5, <1>6, <1>7, <1>13
<1>15. ASSUME NEW c \in S, NEW f \in files'[c] PROVE f \notin more
  BY <1>4, <1>5, <1>8, <1>9, <1>13
<1>16. ASSUME NEW c \in S, NEW f \in files'[c], f \in openFds
       PROVE  f \in shut \/ \E d \in S : f \in files[d]
  BY <1>3, <1>4, <1>5, <1>6, <1>8, <1>16
<1>19. ASSUME NEW f \in more, f \in openFds
       PROVE  f \in shut \/ \E d \in S : f \in files[d]
  BY <1>3, <1>6, <1>8, <1>19
<1>17. ASSUME NEW c \in S, NEW d \in S, c # d, NEW f \in files'[c], f \in files'[d] PROVE FALSE
  BY <1>4, <1>5, <1>8, <1>10, <1>13, <1>17
<1>18. ASSUME NEW f \in Fd
       PROVE  f \in epollSet' <=>
                 f \in watch \/ (f \in epollSet /\ f \notin shut /\ f \notin unwatch)
  BY <1>3, <1>6, <1>11
<1> QED
  BY <1>12, <1>14, <1>15, <1>16, <1>17, <1>18, <1>19 DEF NewFiles

(* Error pages and refused clients that are lost are descriptors.           *)
LEMMA LeaksType == \A L \in Leaks : L \in SUBSET Fd
BY DEF Leaks

(* Deleting a connection leaves maps and objects well typed.               *)
LEMMA DropOwnedType ==
    ASSUME TypeOK, NEW f \in Fd, NEW c \in Conn, DropOwned(f, c)
    PROVE  /\ connections' \in [Fd -> Conn \cup {NoConn}]
           /\ cgiPipeToConn' \in [Fd -> Conn \cup {NoConn}]
           /\ cgiAge' \in [Fd -> 0..CGI_TIMEOUT_S]
           /\ fdEvents' \in [Fd -> Mask]
           /\ processingQueue' \in Seq(Conn)
           /\ processingSet' \subseteq Conn
           /\ state' \in [Conn -> ConnState]
           /\ acceptFd' \in [Conn -> Fd \cup {NoFd}]
           /\ cgiPipe' \in [Conn -> Fd \cup {NoFd}]
           /\ idle' \in [Conn -> 0..CONNECTION_TIMEOUT_S]
           /\ openFds' \subseteq Fd
           /\ epollSet' \subseteq Fd
           /\ files' \in [Conn -> SUBSET Fd]
           /\ lost' \subseteq Fd
           /\ stray' \in BOOLEAN
<1> USE DEF DropOwned, TypeOK, EraseFdEvents, DequeueProcessing
<1>1. cgiAge' \in [Fd -> 0..CGI_TIMEOUT_S] /\ idle' \in [Conn -> 0..CONNECTION_TIMEOUT_S]
  OBVIOUS
<1>2. fdEvents' \in [Fd -> Mask] /\ state' \in [Conn -> ConnState]
  BY DEF Mask, ConnState
<1>3. connections' \in [Fd -> Conn \cup {NoConn}] /\ cgiPipeToConn' \in [Fd -> Conn \cup {NoConn}]
  OBVIOUS
<1>4. acceptFd' \in [Conn -> Fd \cup {NoFd}] /\ cgiPipe' \in [Conn -> Fd \cup {NoFd}]
  OBVIOUS
<1>5. files' \in [Conn -> SUBSET Fd] /\ lost' \subseteq Fd /\ stray' \in BOOLEAN
  OBVIOUS
<1>6. openFds' \subseteq Fd /\ epollSet' \subseteq Fd
  OBVIOUS
<1> QED
  BY <1>1, <1>2, <1>3, <1>4, <1>5, <1>6

(* What a handler called by _handleConnection() does to a connection it does *)
(* not delete: it leaves it in state w.                                    *)
Advance(c, w) ==
    /\ w = state[c] \/ (state[c] = "READING" /\ w \in {"PROCESSING", "WRITING"})
    /\ SetState(c, w)
    /\ \/ EnqueueProcessing(c) /\ w = "PROCESSING"
       \/ UNCHANGED queueVars /\ (w = "PROCESSING" => state[c] = "PROCESSING")
    /\ Touch(c) \/ UNCHANGED idle
    /\ \E page \in Leaks : Descriptors({c}, {}, {}, page, {acceptFd[c]}) /\ lost' = lost \cup page
    /\ UNCHANGED <<connections, cgiPipeToConn, cgiAge, acceptFd, cgiPipe, stray>>

(* What _handleConnection() can do to the connection of f: delete it, or   *)
(* move it on from READING, queueing it if the request is complete.        *)
LEMMA HandleConnectionCases ==
    ASSUME TypeOK, ClientMap, NEW f \in Fd, HandleConnection(f)
    PROVE  \E c \in Conn :
              /\ connections[f] = c /\ acceptFd[c] = f /\ ~IsPipe(f)
              /\ pc = "dispatch" /\ pc' = pc
              /\ batch' = [batch EXCEPT ![f] = "none"]
              /\ UNCHANGED <<g_running, processed, sweepAge>>
              /\ \/ DropOwned(f, c)
                 \/ \E w \in LiveState : Advance(c, w)
<1> USE DEF HandleConnection, TakeEvent, IsCgiPipe, IsPipe, TypeOK, ConnState, LiveState
<1>1. PICK c \in Conn : connections[f] = c
  OBVIOUS
<1>4. acceptFd[c] = f /\ state[c] # "FREED"
  BY <1>1 DEF ClientMap, IsClient
<1>2. CASE DropOwned(f, c)
  BY <1>1, <1>2, <1>4
<1>3. CASE ~DropOwned(f, c)
  <2> DEFINE Outcome(r, w) ==
           /\ w # "FINISHED"
           /\ SetState(c, w)
           /\ IF HasIn(batch[f]) /\ r = "PROCESSING" THEN EnqueueProcessing(c)
                                                     ELSE UNCHANGED queueVars
           /\ IF (HasIn(batch[f]) /\ state[c] = "READING") \/ (HasOut(batch[f]) /\ r = "WRITING")
              THEN Touch(c) ELSE UNCHANGED idle
           /\ \E page \in Leaks :
                 Descriptors({c}, {}, {}, page, {f}) /\ lost' = lost \cup page
           /\ UNCHANGED <<connections, cgiPipeToConn, cgiAge, acceptFd, cgiPipe, stray>>
  <2>0. PICK r \in AfterRead(state[c], batch[f]) : \E w \in AfterWrite(r, batch[f]) : Outcome(r, w)
    BY <1>1, <1>3
  <2>1. PICK w \in AfterWrite(r, batch[f]) : Outcome(r, w)
    BY <2>0
  <2>2. w = r
    BY <2>1 DEF AfterWrite
  <2>3. r = state[c] \/ (HasIn(batch[f]) /\ state[c] = "READING" /\ r \in {"PROCESSING", "WRITING", "READING"})
    BY <2>0, <2>1, <2>2 DEF AfterRead
  <2>4. w \in LiveState
    BY <2>2, <2>3, <1>4
  <2>5. \/ EnqueueProcessing(c) /\ w = "PROCESSING"
        \/ UNCHANGED queueVars /\ (w = "PROCESSING" => state[c] = "PROCESSING")
    BY <2>1, <2>2, <2>3
  <2>6. Touch(c) \/ UNCHANGED idle
    BY <2>1
  <2>7. \E page \in Leaks : Descriptors({c}, {}, {}, page, {acceptFd[c]}) /\ lost' = lost \cup page
    BY <2>1, <1>4
  <2>8. Advance(c, w)
    BY <2>1, <2>2, <2>3, <2>5, <2>6, <2>7 DEF Advance
  <2> QED
    BY <1>1, <1>4, <2>4, <2>8
<1> QED
  BY <1>2, <1>3

(* Every handler keeps the maps, the queue and the connection objects well *)
(* typed: Connection::_state, _connections, _processingQueue and the rest. *)
LEMMA TypeStep == ASSUME IInv, [Next]_vars PROVE TypeOK'
<1>0. TypeOK /\ ClientMap
  BY DEF IInv
<1> USE <1>0 DEF TypeOK, EraseFdEvents, DequeueProcessing, Requeue, Phase, Event, Mask, ConnState, LiveState, NoEvents, loopVars, serverVars, queueVars, connVars, kernelVars
<1>1. CASE StartIteration
  BY <1>1 DEF StartIteration
<1>2. CASE Shutdown
  BY <1>2 DEF Shutdown, CloseAllFds
<1>3. CASE EpollWait
  BY <1>3 DEF EpollWait, Batches
<1>4. CASE EndDispatch
  BY <1>4 DEF EndDispatch
<1>5. CASE SkipStale
  BY <1>5 DEF SkipStale, InPass
<1>6. ASSUME NEW c \in Conn, ProcessMore(c) PROVE TypeOK'
  <2>1. Descriptors({c}, {}, {}, {}, {})
    BY <1>6 DEF ProcessMore
  <2>2. /\ files' \in [Conn -> SUBSET Fd]
        /\ openFds' \subseteq Fd
        /\ epollSet' \subseteq Fd
    BY <2>1, DescriptorsType
  <2>3. processingQueue' \in Seq(Conn)
    BY <1>6 DEF ProcessMore, BeginSlice, InPass
  <2>4. processed' \in 0..Budget /\ idle' \in [Conn -> 0..CONNECTION_TIMEOUT_S]
    BY <1>6 DEF ProcessMore, BeginSlice, InPass, Touch
  <2>5. UNCHANGED <<g_running, pc, batch, sweepAge, processingSet, state, acceptFd, cgiPipe,
                    serverVars, lost, stray>>
    BY <1>6 DEF ProcessMore, BeginSlice
  <2> QED
    BY <2>2, <2>3, <2>4, <2>5
<1>7. ASSUME NEW c \in Conn, ProcessDone(c) PROVE TypeOK'
  <2> USE <1>7 DEF ProcessDone, BeginSlice, InPass, Touch, SetState
  <2>1. fdEvents' \in [Fd -> Mask]
    BY MaskOfType
  <2>2. state' \in [Conn -> ConnState]
    OBVIOUS
  <2>3. processingQueue' \in Seq(Conn)
    OBVIOUS
  <2>4. processed' \in 0..Budget /\ idle' \in [Conn -> 0..CONNECTION_TIMEOUT_S]
    OBVIOUS
  <2>5. PICK page \in Leaks : /\ Descriptors({c}, {}, {}, page, {acceptFd[c]})
                            /\ lost' = lost \cup page
    OBVIOUS
  <2>6. page \in SUBSET Fd
    BY LeaksType
  <2>7. /\ files' \in [Conn -> SUBSET Fd]
        /\ openFds' \subseteq Fd
        /\ epollSet' \subseteq Fd
    <3> HIDE <1>7 DEF ProcessDone, BeginSlice, InPass, Touch, SetState
    <3> QED
      BY <2>5, <2>6, DescriptorsType
  <2>8. lost' \subseteq Fd
    BY <2>5, <2>6
  <2> QED
    BY <2>1, <2>2, <2>3, <2>4, <2>7, <2>8
<1>8. ASSUME NEW c \in Conn, ProcessCgi(c) PROVE TypeOK'
  <2> USE <1>8 DEF ProcessCgi, BeginSlice, InPass, Touch
  <2>1. PICK p \in Fd : /\ Descriptors({c}, {}, {}, {p}, {acceptFd[c], p})
                        /\ cgiPipe' = [cgiPipe EXCEPT ![c] = p]
                        /\ cgiPipeToConn' = [cgiPipeToConn EXCEPT ![p] = c]
                        /\ cgiAge' = [cgiAge EXCEPT ![p] = 0]
                        /\ fdEvents' = [fdEvents EXCEPT ![acceptFd[c]] = "0", ![p] = "IN"]
    OBVIOUS
  <2>2. fdEvents' \in [Fd -> Mask]
    BY <2>1
  <2>3. state' \in [Conn -> ConnState] /\ processingQueue' \in Seq(Conn)
    OBVIOUS
  <2>4. processed' \in 0..Budget /\ idle' \in [Conn -> 0..CONNECTION_TIMEOUT_S]
    OBVIOUS
  <2>5. cgiAge' \in [Fd -> 0..CGI_TIMEOUT_S]
    BY <2>1
  <2>6. cgiPipeToConn' \in [Fd -> Conn \cup {NoConn}] /\ cgiPipe' \in [Conn -> Fd \cup {NoFd}]
    BY <2>1
  <2>7. /\ files' \in [Conn -> SUBSET Fd]
        /\ openFds' \subseteq Fd
        /\ epollSet' \subseteq Fd
    <3> HIDE <1>8 DEF ProcessCgi, BeginSlice, InPass, Touch
    <3>1. {p} \in SUBSET Fd /\ {c} \in SUBSET Conn
      OBVIOUS
    <3> QED
      BY <2>1, <3>1, DescriptorsType
  <2> QED
    BY <2>2, <2>3, <2>4, <2>5, <2>6, <2>7
<1>9. CASE EndRoundRobin
  BY <1>9 DEF EndRoundRobin
<1>10. CASE SweepTimeouts
  <2>1. CASE sweepAge < SWEEP_INTERVAL_S
    BY <1>10, <2>1 DEF SweepTimeouts
  <2>2. CASE ~(sweepAge < SWEEP_INTERVAL_S)
    <3>1. Descriptors(TimedOut, {}, {}, {}, {acceptFd[c] : c \in TimedOut})
      BY <1>10, <2>2 DEF SweepTimeouts
    <3>2. /\ files' \in [Conn -> SUBSET Fd]
          /\ openFds' \subseteq Fd
          /\ epollSet' \subseteq Fd
      BY <3>1, DescriptorsType DEF TimedOut
    <3>3. fdEvents' \in [Fd -> Mask]
      <4>1. fdEvents' = [f \in Fd |-> IF connections[f] \in TimedOut
                                     THEN MaskOf("WRITING") ELSE fdEvents[f]]
        BY <1>10, <2>2 DEF SweepTimeouts
      <4>2. MaskOf("WRITING") \in Mask
        BY MaskOfType
      <4> HIDE DEF Mask, TimedOut
      <4> QED
        BY <4>1, <4>2
    <3>4. state' \in [Conn -> ConnState]
      BY <1>10, <2>2 DEF SweepTimeouts
    <3>5. sweepAge' \in 0..SWEEP_INTERVAL_S /\ processingSet' \subseteq Conn
      BY <1>10, <2>2 DEF SweepTimeouts
    <3> QED
      BY <1>10, <3>2, <3>3, <3>4, <3>5 DEF SweepTimeouts
  <2> QED
    BY <2>1, <2>2
<1>11. CASE SweepCgiTimeouts
  <2>1. PICK killed : killed = {cgiPipeToConn[p] : p \in CgiExpired}
    OBVIOUS
  <2>2. killed \in SUBSET Conn
    BY <2>1 DEF CgiExpired
  <2>3. Descriptors(killed, CgiExpired, CgiExpired, {}, {acceptFd[c] : c \in killed})
    BY <1>11, <2>1 DEF SweepCgiTimeouts
  <2>4. /\ files' \in [Conn -> SUBSET Fd]
        /\ openFds' \subseteq Fd
        /\ epollSet' \subseteq Fd
    BY <2>2, <2>3, DescriptorsType
  <2>5. fdEvents' \in [Fd -> Mask] /\ state' \in [Conn -> ConnState]
    BY <1>11, <2>2, MaskOfType DEF SweepCgiTimeouts
  <2>6. /\ cgiPipe' \in [Conn -> Fd \cup {NoFd}]
        /\ cgiPipeToConn' \in [Fd -> Conn \cup {NoConn}]
        /\ cgiAge' \in [Fd -> 0..CGI_TIMEOUT_S]
    BY <1>11 DEF SweepCgiTimeouts
  <2> QED
    BY <1>11, <2>4, <2>5, <2>6 DEF SweepCgiTimeouts
<1>12. ASSUME NEW p \in Fd, CgiPipeDone(p) PROVE TypeOK'
  <2> USE <1>12 DEF CgiPipeDone, TakeEvent, IsCgiPipe
  <2>1. fdEvents' \in [Fd -> Mask]
    BY MaskOfType
  <2>2. batch' \in [Fd \cup {ListenFd} -> Event \cup {"none"}]
    OBVIOUS
  <2>3. state' \in [Conn -> ConnState] /\ cgiPipe' \in [Conn -> Fd \cup {NoFd}]
    OBVIOUS
  <2>4. cgiAge' \in [Fd -> 0..CGI_TIMEOUT_S] /\ cgiPipeToConn' \in [Fd -> Conn \cup {NoConn}]
    OBVIOUS
  <2>5. PICK c \in Conn : c = cgiPipeToConn[p]
    OBVIOUS
  <2>6. Descriptors({c}, {p}, {p}, {}, {acceptFd[c]})
    BY <2>5
  <2>7. /\ files' \in [Conn -> SUBSET Fd]
        /\ openFds' \subseteq Fd
        /\ epollSet' \subseteq Fd
    BY <2>6, DescriptorsType
  <2> QED
    BY <2>1, <2>2, <2>3, <2>4, <2>7
<1>13. ASSUME NEW p \in Fd, CgiPipeMore(p) PROVE TypeOK'
  <2>1. PICK c \in Conn : c = cgiPipeToConn[p]
    BY <1>13 DEF CgiPipeMore, IsCgiPipe
  <2>2. Descriptors({c}, {}, {}, {}, {})
    BY <1>13, <2>1 DEF CgiPipeMore
  <2>3. /\ files' \in [Conn -> SUBSET Fd]
        /\ openFds' \subseteq Fd
        /\ epollSet' \subseteq Fd
    BY <2>2, DescriptorsType
  <2> QED
    BY <1>13, <2>3 DEF CgiPipeMore, TakeEvent
<1>14. ASSUME NEW p \in Fd, CgiPipeThrow(p) PROVE TypeOK'
  <2> USE <1>14 DEF CgiPipeThrow, TakeEvent, IsCgiPipe
  <2>1. fdEvents' \in [Fd -> Mask]
    BY MaskOfType
  <2>2. batch' \in [Fd \cup {ListenFd} -> Event \cup {"none"}]
    OBVIOUS
  <2>3. state' \in [Conn -> ConnState] /\ cgiPipe' \in [Conn -> Fd \cup {NoFd}]
    OBVIOUS
  <2>4. cgiAge' \in [Fd -> 0..CGI_TIMEOUT_S] /\ cgiPipeToConn' \in [Fd -> Conn \cup {NoConn}]
    OBVIOUS
  <2>5. PICK c \in Conn : c = cgiPipeToConn[p]
    OBVIOUS
  <2>6. Descriptors({c}, {}, {p}, {}, {acceptFd[c]})
    BY <2>5
  <2>7. /\ files' \in [Conn -> SUBSET Fd]
        /\ openFds' \subseteq Fd
        /\ epollSet' \subseteq Fd
    BY <2>6, DescriptorsType
  <2> QED
    BY <2>1, <2>2, <2>3, <2>4, <2>7
<1>15. ASSUME NEW f \in Fd \cup {ListenFd}, DispatchHup(f) PROVE TypeOK'
  <2> USE <1>15 DEF DispatchHup, TakeEvent
  <2>1. batch' \in [Fd \cup {ListenFd} -> Event \cup {"none"}]
    OBVIOUS
  <2>2. CASE f = ListenFd
    BY <2>1, <2>2
  <2>3. CASE f # ListenFd /\ connections[f] # NoConn
    <3>1. f \in Fd /\ connections[f] \in Conn /\ DropOwned(f, connections[f])
      BY <2>3
    <3> QED
      BY <2>1, <3>1, DropOwnedType
  <2>4. CASE f # ListenFd /\ connections[f] = NoConn
    <3>1. DropUnknown(f)
      BY <2>4
    <3> QED
      BY <2>1, <3>1 DEF DropUnknown, EraseFdEvents
  <2> QED
    BY <2>2, <2>3, <2>4
<1>16. ASSUME NEW p \in Fd, DispatchNobody(p) PROVE TypeOK'
  BY <1>16 DEF DispatchNobody, TakeEvent, IsCgiPipe
<1>17. ASSUME NEW f \in Fd, HandleConnection(f) PROVE TypeOK'
  <2>0. PICK c \in Conn :
              /\ connections[f] = c /\ acceptFd[c] = f /\ ~IsPipe(f)
              /\ pc = "dispatch" /\ pc' = pc
              /\ batch' = [batch EXCEPT ![f] = "none"]
              /\ UNCHANGED <<g_running, processed, sweepAge>>
              /\ \/ DropOwned(f, c)
                 \/ \E w \in LiveState : Advance(c, w)
    BY <1>17, HandleConnectionCases
  <2>1. UNCHANGED <<pc, g_running, processed, sweepAge>>
    BY <2>0
  <2>2. batch' \in [Fd \cup {ListenFd} -> Event \cup {"none"}]
    BY <2>0
  <2>3. CASE DropOwned(f, c)
    BY <2>1, <2>2, <2>3, DropOwnedType
  <2>4. CASE ~DropOwned(f, c)
    <3>1. PICK w \in LiveState :
                   /\ SetState(c, w)
                   /\ EnqueueProcessing(c) \/ UNCHANGED queueVars
                   /\ Touch(c) \/ UNCHANGED idle
                   /\ \E page \in Leaks : /\ Descriptors({c}, {}, {}, page, {acceptFd[c]})
                                          /\ lost' = lost \cup page
                   /\ UNCHANGED <<connections, cgiPipeToConn, cgiAge, acceptFd, cgiPipe, stray>>
      BY <2>0, <2>4 DEF Advance
    <3>2. fdEvents' \in [Fd -> Mask]
      BY <3>1, MaskOfType DEF SetState
    <3>3. state' \in [Conn -> ConnState]
      BY <3>1 DEF SetState
    <3>5. processingQueue' \in Seq(Conn) /\ processingSet' \subseteq Conn
      <4>1. CASE EnqueueProcessing(c)
        <5>1. \/ processingQueue' = processingQueue
              \/ processingQueue' = Append(processingQueue, c)
          BY <4>1 DEF EnqueueProcessing
        <5>2. processingSet' = processingSet \cup {c}
          BY <4>1 DEF EnqueueProcessing
        <5>3. CASE processingQueue' = processingQueue
          BY <2>0, <5>2, <5>3
        <5>4. CASE processingQueue' = Append(processingQueue, c)
          BY <2>0, <5>2, <5>4
        <5> QED
          BY <5>1, <5>3, <5>4
      <4>2. CASE UNCHANGED queueVars
        BY <4>2
      <4> QED
        BY <3>1, <4>1, <4>2
    <3>4. idle' \in [Conn -> 0..CONNECTION_TIMEOUT_S]
      <4>1. CASE Touch(c)
        BY <4>1 DEF Touch
      <4>2. CASE UNCHANGED idle
        BY <4>2
      <4> QED
        BY <3>1, <4>1, <4>2
    <3>6. PICK page \in Leaks : /\ Descriptors({c}, {}, {}, page, {acceptFd[c]})
                              /\ lost' = lost \cup page
      BY <3>1
    <3>7. /\ files' \in [Conn -> SUBSET Fd]
          /\ openFds' \subseteq Fd
          /\ epollSet' \subseteq Fd
          /\ lost' \subseteq Fd
      <4>1. page \in SUBSET Fd /\ {c} \in SUBSET Conn
        BY LeaksType
      <4> QED
        BY <3>6, <4>1, DescriptorsType
    <3> QED
      BY <2>1, <2>2, <3>1, <3>2, <3>3, <3>4, <3>5, <3>7
  <2> QED
    BY <2>3, <2>4
<1>18. CASE DispatchListen
  BY <1>18 DEF DispatchListen, TakeEvent
<1>19. ASSUME NEW c \in Conn, NEW f \in Fd, Accept(c, f) PROVE TypeOK'
  BY <1>19 DEF Accept, Touch, MaskOf
<1>20. CASE AcceptDone
  BY <1>20 DEF AcceptDone
<1>21. CASE EscapedException
  BY <1>21, LeaksType DEF EscapedException, CloseAllFds
<1>22. CASE Signal
  BY <1>22 DEF Signal
<1>23. CASE Tick
  BY <1>23 DEF Tick, UpTo
<1>24. CASE UNCHANGED vars
  BY <1>24 DEF vars
<1> QED
  BY <1>1, <1>2, <1>3, <1>4, <1>5, <1>6, <1>7, <1>8, <1>9, <1>10, <1>11, <1>12, <1>13, <1>14, <1>15, <1>16, <1>17, <1>18, <1>19, <1>20, <1>21, <1>22, <1>23, <1>24
  DEF Next, Server, LoopStep, RoundRobinStep, SweepStep, DispatchStep

(* The connections of a queue after its head is taken, and after one is    *)
(* put at its end: what lazy removal rests on.                             *)
LEMMA ElemsTail == \A q \in Seq(Conn) : q # <<>> => Elems(q) = Elems(Tail(q)) \cup {Head(q)}
<1> SUFFICES ASSUME NEW q \in Seq(Conn), q # <<>>
             PROVE  Elems(q) = Elems(Tail(q)) \cup {Head(q)}
  OBVIOUS
<1>0. PICK t : t = Tail(q)
  OBVIOUS
<1>1. \A i \in 1..Len(t) : t[i] = q[i+1] /\ i+1 \in 1..Len(q)
  BY <1>0
<1>2. Head(q) = q[1] /\ 1 \in 1..Len(q)
  OBVIOUS
<1>3. \A i \in 1..Len(q) : i # 1 => i-1 \in 1..Len(t) /\ t[i-1] = q[i]
  BY <1>0
<1>4. ASSUME NEW x PROVE x \in Elems(q) <=> x \in Elems(t) \/ x = Head(q)
  <2>1. ASSUME x \in Elems(q) PROVE x \in Elems(t) \/ x = Head(q)
    <3>1. PICK i \in 1..Len(q) : x = q[i]
      BY <2>1 DEF Elems
    <3> QED
      BY <1>2, <1>3, <3>1 DEF Elems
  <2>2. ASSUME x \in Elems(t) PROVE x \in Elems(q)
    <3>1. PICK i \in 1..Len(t) : x = t[i]
      BY <2>2 DEF Elems
    <3> QED
      BY <1>1, <3>1 DEF Elems
  <2>3. Head(q) \in Elems(q)
    BY <1>2 DEF Elems
  <2> QED
    BY <2>1, <2>2, <2>3
<1>5. Elems(q) = Elems(t) \cup {Head(q)}
  BY <1>4
<1> QED
  BY <1>0, <1>5

LEMMA ElemsAppend ==
    \A q \in Seq(Conn), d \in Conn : Elems(Append(q, d)) = Elems(q) \cup {d}
<1> SUFFICES ASSUME NEW q \in Seq(Conn), NEW d \in Conn
             PROVE  Elems(Append(q, d)) = Elems(q) \cup {d}
  OBVIOUS
<1>0. PICK r : r = Append(q, d)
  OBVIOUS
<1>1. \A i \in 1..Len(q) : r[i] = q[i] /\ i \in 1..Len(r)
  BY <1>0
<1>2. Len(r) = Len(q) + 1 /\ r[Len(q) + 1] = d /\ Len(q) + 1 \in 1..Len(r)
  BY <1>0
<1>3. \A i \in 1..Len(r) : i \in 1..Len(q) \/ i = Len(q) + 1
  BY <1>0
<1>4. ASSUME NEW x PROVE x \in Elems(r) <=> x \in Elems(q) \/ x = d
  BY <1>1, <1>2, <1>3 DEF Elems
<1>5. Elems(r) = Elems(q) \cup {d}
  BY <1>4
<1> QED
  BY <1>0, <1>5

(* Only the connection that a handler is called for opens or closes files.  *)
LEMMA OthersFiles ==
    ASSUME TypeOK, NEW c \in Conn, NEW shut, NEW unwatch, NEW more \in SUBSET Fd, NEW watch,
           Descriptors({c}, shut, unwatch, more, watch)
    PROVE  \A d \in Conn : d # c => files'[d] = files[d]
<1>1. {c} \in SUBSET Conn
  OBVIOUS
<1>2. openFds \subseteq Fd /\ epollSet \subseteq Fd /\ files \in [Conn -> SUBSET Fd]
  BY DEF TypeOK
<1>3. \A d \in Conn \ {c} : files'[d] = files[d]
  BY <1>1, <1>2, DescriptorsType
<1> QED
  BY <1>3

(* Deleting a connection keeps the maps in order, whatever pipe and files it*)
(* still holds: this is _dropConnection for a descriptor in _connections.  *)
LEMMA DropOwnedMaps ==
    ASSUME TypeOK, ClientMap, NoLostWakeup, PipeMap, NEW f \in Fd, NEW c \in Conn,
           connections[f] = c, ~IsPipe(f), pc = "dispatch", pc' = pc, DropOwned(f, c)
    PROVE  ClientMap' /\ NoLostWakeup' /\ PipeMap'
<1> USE DEF TypeOK, IsClient, IsPipe, DropOwned, EraseFdEvents, DequeueProcessing
<1>1. acceptFd[c] = f /\ state[c] # "FREED"
  BY DEF ClientMap, IsClient
<1>2. ClientMap'
  BY <1>1 DEF ClientMap
<1>3. NoLostWakeup'
  <2>1. \A d \in Conn : d \in processingSet' <=> state'[d] = "PROCESSING"
    BY DEF NoLostWakeup
  <2>2. processingSet' \subseteq Elems(processingQueue)'
    BY DEF NoLostWakeup
  <2> QED
    BY <2>1, <2>2 DEF NoLostWakeup
<1>4. PipeMap'
  <2>1. \A p \in Fd : IsPipe(p)' => IsPipe(p) /\ cgiPipeToConn'[p] = cgiPipeToConn[p]
                                    /\ cgiPipeToConn[p] # c /\ cgiAge'[p] = cgiAge[p]
    BY DEF PipeMap
  <2>2. \A p \in Fd : IsPipe(p)' => /\ cgiPipe'[cgiPipeToConn'[p]] = p
                                    /\ state'[cgiPipeToConn'[p]] = "WAITING_FOR_CGI"
    BY <2>1 DEF PipeMap
  <2>4. \A p \in Fd : IsPipe(p)' => \/ cgiAge'[p] >= CGI_TIMEOUT_S
                                    \/ cgiAge'[p] >= idle'[cgiPipeToConn'[p]]
    BY <2>1 DEF PipeMap
  <2> QED
    BY <2>2, <2>4 DEF PipeMap
<1> QED
  BY <1>2, <1>3, <1>4

(* A time-out strikes live connections only.                                *)
LEMMA TimedOutLive ==
    ASSUME TypeOK, ClientMap
    PROVE  \A c \in TimedOut : c \in Conn /\ state[c] # "FREED"
BY DEF TimedOut, TypeOK, ClientMap, IsClient

(* So does the end of a CGI.                                                *)
LEMMA CgiConnLive ==
    ASSUME TypeOK, PipeMap, NEW p \in Fd, cgiPipeToConn[p] # NoConn
    PROVE  /\ cgiPipeToConn[p] \in Conn
           /\ cgiPipe[cgiPipeToConn[p]] = p
           /\ state[cgiPipeToConn[p]] \in {"WAITING_FOR_CGI", "WRITING"}
           /\ pc # "sweepCgi" => state[cgiPipeToConn[p]] = "WAITING_FOR_CGI"
BY DEF TypeOK, PipeMap, IsPipe

(* Accepting, processing and dropping keep _connections and _acceptFD in    *)
(* agreement.                                                              *)
LEMMA ClientMapStep ==
    ASSUME TypeOK, ClientMap, NoLostWakeup, PipeMap, [Next]_vars
    PROVE  ClientMap'
<1> USE DEF TypeOK, ClientMap, IsClient, loopVars, serverVars, queueVars, connVars, kernelVars
<1>1. CASE StartIteration
  BY <1>1 DEF StartIteration
<1>2. CASE Shutdown
  BY <1>2 DEF Shutdown, CloseAllFds
<1>3. CASE EpollWait
  BY <1>3 DEF EpollWait, Batches
<1>4. CASE EndDispatch
  BY <1>4 DEF EndDispatch
<1>5. CASE SkipStale
  BY <1>5 DEF SkipStale, InPass
<1>6. ASSUME NEW c \in Conn, ProcessMore(c) PROVE ClientMap'
  <2>1. state[c] # "FREED" /\ UNCHANGED <<connections, state, acceptFd, cgiPipe>>
    BY <1>6 DEF ProcessMore, BeginSlice, NoLostWakeup, serverVars
  <2>2. \A d \in Conn : d # c => files'[d] = files[d]
    BY <1>6, OthersFiles DEF ProcessMore
  <2> QED
    BY <2>1, <2>2
<1>7. ASSUME NEW c \in Conn, ProcessDone(c) PROVE ClientMap'
  <2>1. /\ c \in processingSet
        /\ state' = [state EXCEPT ![c] = "WRITING"]
        /\ UNCHANGED <<acceptFd, cgiPipe, connections>>
    BY <1>7 DEF ProcessDone, BeginSlice, SetState
  <2>2. state[c] # "FREED"
    BY <2>1 DEF NoLostWakeup
  <2>3. PICK page \in Leaks : Descriptors({c}, {}, {}, page, {acceptFd[c]})
    BY <1>7 DEF ProcessDone
  <2>4. \A d \in Conn : d # c => files'[d] = files[d]
    BY <2>3, OthersFiles, LeaksType
  <2> QED
    BY <2>1, <2>2, <2>4
<1>8. ASSUME NEW c \in Conn, ProcessCgi(c) PROVE ClientMap'
  <2>1. PICK p \in Fd :
           /\ Descriptors({c}, {}, {}, {p}, {acceptFd[c], p})
           /\ cgiPipe' = [cgiPipe EXCEPT ![c] = p]
           /\ cgiPipeToConn' = [cgiPipeToConn EXCEPT ![p] = c]
           /\ cgiAge' = [cgiAge EXCEPT ![p] = 0]
           /\ fdEvents' = [fdEvents EXCEPT ![acceptFd[c]] = "0", ![p] = "IN"]
    BY <1>8 DEF ProcessCgi
  <2>2. /\ InPass
        /\ c = Head(processingQueue)
        /\ c \in processingSet
        /\ idle' = [idle EXCEPT ![c] = 0]
        /\ processingQueue' = Tail(processingQueue)
        /\ processingSet' = processingSet \ {c}
        /\ state' = [state EXCEPT ![c] = "WAITING_FOR_CGI"]
        /\ UNCHANGED <<acceptFd, connections, g_running, pc, batch, sweepAge>>
    BY <1>8 DEF ProcessCgi, BeginSlice, Touch, DequeueProcessing
  <2>3. \A d \in Conn : d # c => files'[d] = files[d]
    <3>1. {p} \in SUBSET Fd
      OBVIOUS
    <3> QED
      BY <2>1, <3>1, OthersFiles
  <2>4. state[c] # "FREED"
    BY <2>2 DEF NoLostWakeup
  <2> QED
    BY <2>1, <2>2, <2>3, <2>4
<1>9. CASE EndRoundRobin
  BY <1>9 DEF EndRoundRobin
<1>10. CASE SweepTimeouts
  <2>1. CASE sweepAge < SWEEP_INTERVAL_S
    BY <1>10, <2>1 DEF SweepTimeouts
  <2>2. CASE ~(sweepAge < SWEEP_INTERVAL_S)
    <3>1. Descriptors(TimedOut, {}, {}, {}, {acceptFd[c] : c \in TimedOut})
      BY <1>10, <2>2 DEF SweepTimeouts
    <3>2. TimedOut \in SUBSET Conn /\ {} \in SUBSET Fd
      BY DEF TimedOut
    <3>3. \A c \in Conn \ TimedOut : files'[c] = files[c]
      BY <3>1, <3>2, DescriptorsType
    <3>4. /\ state' = [c \in Conn |-> IF c \in TimedOut THEN "WRITING" ELSE state[c]]
          /\ UNCHANGED <<connections, acceptFd, cgiPipe>>
      BY <1>10, <2>2 DEF SweepTimeouts
    <3> QED
      BY <3>3, <3>4, TimedOutLive
  <2> QED
    BY <2>1, <2>2
<1>11. CASE SweepCgiTimeouts
  <2>1. PICK killed : killed = {cgiPipeToConn[p] : p \in CgiExpired}
    OBVIOUS
  <2>2. \A c \in killed : c \in Conn /\ state[c] # "FREED"
    BY <2>1, CgiConnLive DEF CgiExpired
  <2>3. Descriptors(killed, CgiExpired, CgiExpired, {}, {acceptFd[c] : c \in killed})
    BY <1>11, <2>1 DEF SweepCgiTimeouts
  <2>4. \A c \in Conn \ killed : files'[c] = files[c]
    <3>1. killed \in SUBSET Conn /\ {} \in SUBSET Fd
      BY <2>2
    <3> QED
      BY <2>3, <3>1, DescriptorsType
  <2>5. /\ state' = [c \in Conn |-> IF c \in killed THEN "WRITING" ELSE state[c]]
        /\ cgiPipe' = [c \in Conn |-> IF c \in killed THEN NoFd ELSE cgiPipe[c]]
        /\ UNCHANGED <<connections, acceptFd>>
    BY <1>11, <2>1 DEF SweepCgiTimeouts
  <2> QED
    BY <2>2, <2>4, <2>5
<1>12. ASSUME NEW p \in Fd, CgiPipeDone(p) PROVE ClientMap'
  <2>1. PICK c \in Conn : c = cgiPipeToConn[p]
    BY <1>12 DEF CgiPipeDone, IsCgiPipe
  <2>2. state[c] # "FREED"
    BY <1>12, <2>1, CgiConnLive DEF CgiPipeDone, IsCgiPipe
  <2>3. /\ Descriptors({c}, {p}, {p}, {}, {acceptFd[c]})
        /\ state' = [state EXCEPT ![c] = "WRITING"]
        /\ cgiPipe' = [cgiPipe EXCEPT ![c] = NoFd]
        /\ UNCHANGED <<connections, acceptFd>>
    BY <1>12, <2>1 DEF CgiPipeDone
  <2>4. \A d \in Conn : d # c => files'[d] = files[d]
    BY <2>3, OthersFiles
  <2> QED
    BY <2>2, <2>3, <2>4
<1>13. ASSUME NEW p \in Fd, CgiPipeMore(p) PROVE ClientMap'
  <2>1. PICK c \in Conn : c = cgiPipeToConn[p]
    BY <1>13 DEF CgiPipeMore, IsCgiPipe
  <2>2. state[c] # "FREED"
    BY <1>13, <2>1, CgiConnLive DEF CgiPipeMore, IsCgiPipe
  <2>3. Descriptors({c}, {}, {}, {}, {}) /\ UNCHANGED <<connections, state, acceptFd, cgiPipe>>
    BY <1>13, <2>1 DEF CgiPipeMore
  <2>4. \A d \in Conn : d # c => files'[d] = files[d]
    BY <2>3, OthersFiles
  <2> QED
    BY <2>2, <2>3, <2>4
<1>14. ASSUME NEW p \in Fd, CgiPipeThrow(p) PROVE ClientMap'
  <2>1. PICK c \in Conn : c = cgiPipeToConn[p]
    BY <1>14 DEF CgiPipeThrow, IsCgiPipe
  <2>2. state[c] \in {"WAITING_FOR_CGI", "WRITING"}
    BY <1>14, <2>1, CgiConnLive DEF CgiPipeThrow, IsCgiPipe
  <2>3. /\ Descriptors({c}, {}, {p}, {}, {acceptFd[c]})
        /\ state' = [state EXCEPT ![c] = "WRITING"]
        /\ UNCHANGED <<connections, acceptFd, cgiPipe>>
    BY <1>14, <2>1 DEF CgiPipeThrow
  <2>4. \A d \in Conn : d # c => files'[d] = files[d]
    BY <2>3, OthersFiles
  <2> QED
    BY <2>2, <2>3, <2>4
<1>15. ASSUME NEW f \in Fd \cup {ListenFd}, DispatchHup(f) PROVE ClientMap'
  <2>1. /\ pc = "dispatch" /\ pc' = pc
        /\ f \in Fd => ~IsPipe(f)
        /\ batch' = [batch EXCEPT ![f] = "none"]
        /\ \/ f = ListenFd /\ UNCHANGED <<serverVars, queueVars, connVars, kernelVars>>
           \/ f # ListenFd /\ connections[f] # NoConn /\ DropOwned(f, connections[f])
           \/ f # ListenFd /\ connections[f] = NoConn /\ DropUnknown(f)
    BY <1>15 DEF DispatchHup, TakeEvent, IsCgiPipe, IsPipe
  <2>2. CASE f = ListenFd
    BY <2>1, <2>2 
  <2>3. CASE f # ListenFd /\ connections[f] # NoConn
    <3>1. f \in Fd /\ connections[f] \in Conn /\ DropOwned(f, connections[f])
      BY <2>1, <2>3
    <3> QED
      BY <2>1, <3>1, DropOwnedMaps
  <2>4. CASE f # ListenFd /\ connections[f] = NoConn
    <3>1. f \in Fd /\ DropUnknown(f)
      BY <2>1, <2>4
    <3> QED
      BY <2>1, <3>1 DEF DropUnknown
  <2> QED
    BY <2>2, <2>3, <2>4
<1>16. ASSUME NEW f \in Fd, DispatchNobody(f) PROVE ClientMap'
  BY <1>16 DEF DispatchNobody, TakeEvent, IsCgiPipe
<1>17. ASSUME NEW f \in Fd, HandleConnection(f) PROVE ClientMap'
  <2>1. PICK c \in Conn :
              /\ connections[f] = c /\ acceptFd[c] = f /\ ~IsPipe(f)
              /\ pc = "dispatch" /\ pc' = pc
              /\ batch' = [batch EXCEPT ![f] = "none"]
              /\ \/ DropOwned(f, c)
                 \/ \E w \in LiveState : Advance(c, w)
    BY <1>17, HandleConnectionCases
  <2>2. CASE DropOwned(f, c)
    BY <2>1, <2>2, DropOwnedMaps
  <2>3. CASE ~DropOwned(f, c)
    <3>1. PICK w \in LiveState : Advance(c, w)
      BY <2>1, <2>3
    <3>2. PICK page \in Leaks : Descriptors({c}, {}, {}, page, {acceptFd[c]})
      BY <3>1 DEF Advance
    <3>3. \A d \in Conn : d # c => files'[d] = files[d]
      BY <3>2, OthersFiles, LeaksType
    <3>4. /\ state' = [state EXCEPT ![c] = w]
          /\ w = state[c] \/ (state[c] = "READING" /\ w \in {"PROCESSING", "WRITING"})
          /\ UNCHANGED <<connections, acceptFd, cgiPipe>>
      BY <3>1 DEF SetState, Advance
    <3>5. state[c] # "FREED"
      BY <2>1
    <3> QED
      BY <3>3, <3>4, <3>5 DEF LiveState
  <2> QED
    BY <2>2, <2>3
<1>18. CASE DispatchListen
  BY <1>18 DEF DispatchListen, TakeEvent
<1>19. ASSUME NEW c \in Conn, NEW f \in Fd, Accept(c, f) PROVE ClientMap'
  BY <1>19 DEF Accept, Touch, MaskOf
<1>20. CASE AcceptDone
  BY <1>20 DEF AcceptDone
<1>21. CASE EscapedException
  BY <1>21 DEF EscapedException, CloseAllFds
<1>22. CASE Signal
  BY <1>22 DEF Signal
<1>23. CASE Tick
  BY <1>23 DEF Tick, UpTo
<1>24. CASE UNCHANGED vars
  BY <1>24 DEF vars
<1> QED
  BY <1>1, <1>2, <1>3, <1>4, <1>5, <1>6, <1>7, <1>8, <1>9, <1>10, <1>11, <1>12, <1>13, <1>14, <1>15, <1>16, <1>17, <1>18, <1>19, <1>20, <1>21, <1>22, <1>23, <1>24
  DEF Next, Server, LoopStep, RoundRobinStep, SweepStep, DispatchStep

(* A connection in PROCESSING stays in _processingSet and in the queue until  *)
(* its process() ends: lazy removal and reused addresses lose no one.      *)
LEMMA WakeupStep ==
    ASSUME TypeOK, ClientMap, NoLostWakeup, PipeMap, [Next]_vars
    PROVE  NoLostWakeup'
<1> USE DEF TypeOK, ClientMap, IsClient, NoLostWakeup, loopVars, serverVars, queueVars, connVars, kernelVars
<1>1. CASE StartIteration
  BY <1>1 DEF StartIteration
<1>2. CASE Shutdown
  BY <1>2 DEF Shutdown, CloseAllFds
<1>3. CASE EpollWait
  BY <1>3 DEF EpollWait, Batches
<1>4. CASE EndDispatch
  BY <1>4 DEF EndDispatch
<1>5. CASE SkipStale
  <2>1. /\ InPass
        /\ Head(processingQueue) \notin processingSet
        /\ processingQueue' = Tail(processingQueue)
        /\ UNCHANGED <<processingSet, state>>
    BY <1>5 DEF SkipStale
  <2>2. Elems(processingQueue) = Elems(processingQueue)' \cup {Head(processingQueue)}
    BY <2>1, ElemsTail DEF InPass
  <2> QED
    BY <2>1, <2>2
<1>6. ASSUME NEW c \in Conn, ProcessMore(c) PROVE NoLostWakeup'
  <2>1. /\ InPass
        /\ c = Head(processingQueue)
        /\ processingQueue' = Append(Tail(processingQueue), c)
        /\ UNCHANGED <<processingSet, state>>
    BY <1>6 DEF ProcessMore, BeginSlice, Requeue
  <2>2. Tail(processingQueue) \in Seq(Conn)
    BY <2>1 DEF InPass
  <2>3. Elems(processingQueue) = Elems(Tail(processingQueue)) \cup {c}
    BY <2>1, ElemsTail DEF InPass
  <2>4. Elems(processingQueue)' = Elems(Tail(processingQueue)) \cup {c}
    BY <2>1, <2>2, ElemsAppend
  <2> QED
    BY <2>1, <2>3, <2>4
<1>7. ASSUME NEW c \in Conn, ProcessDone(c) PROVE NoLostWakeup'
  <2>1. /\ InPass
        /\ c = Head(processingQueue)
        /\ processingQueue' = Tail(processingQueue)
        /\ processingSet' = processingSet \ {c}
        /\ \E w \in {"WRITING", "WAITING_FOR_CGI"} : state' = [state EXCEPT ![c] = w]
    BY <1>7 DEF ProcessDone, ProcessCgi, BeginSlice, DequeueProcessing, SetState
  <2>2. \A d \in Conn : d \in processingSet' <=> state'[d] = "PROCESSING"
    BY <2>1
  <2>3. Elems(processingQueue) = Elems(processingQueue)' \cup {c}
    BY <2>1, ElemsTail DEF InPass
  <2> QED
    BY <2>1, <2>2, <2>3
<1>8. ASSUME NEW c \in Conn, ProcessCgi(c) PROVE NoLostWakeup'
  <2>1. /\ InPass
        /\ c = Head(processingQueue)
        /\ processingQueue' = Tail(processingQueue)
        /\ processingSet' = processingSet \ {c}
        /\ \E w \in {"WRITING", "WAITING_FOR_CGI"} : state' = [state EXCEPT ![c] = w]
    BY <1>8 DEF ProcessDone, ProcessCgi, BeginSlice, DequeueProcessing, SetState
  <2>2. \A d \in Conn : d \in processingSet' <=> state'[d] = "PROCESSING"
    BY <2>1
  <2>3. Elems(processingQueue) = Elems(processingQueue)' \cup {c}
    BY <2>1, ElemsTail DEF InPass
  <2> QED
    BY <2>1, <2>2, <2>3
<1>9. CASE EndRoundRobin
  BY <1>9 DEF EndRoundRobin
<1>10. CASE SweepTimeouts
  BY <1>10 DEF SweepTimeouts, TimedOut
<1>11. CASE SweepCgiTimeouts
  BY <1>11 DEF SweepCgiTimeouts, CgiExpired, PipeMap, IsPipe
<1>12. ASSUME NEW p \in Fd, CgiPipeDone(p) PROVE NoLostWakeup'
  BY <1>12 DEF CgiPipeDone, TakeEvent, IsCgiPipe, PipeMap, IsPipe
<1>13. ASSUME NEW p \in Fd, CgiPipeMore(p) PROVE NoLostWakeup'
  BY <1>13 DEF CgiPipeMore, TakeEvent, IsCgiPipe
<1>14. ASSUME NEW p \in Fd, CgiPipeThrow(p) PROVE NoLostWakeup'
  BY <1>14 DEF CgiPipeThrow, TakeEvent, IsCgiPipe, PipeMap, IsPipe
<1>15. ASSUME NEW f \in Fd \cup {ListenFd}, DispatchHup(f) PROVE NoLostWakeup'
  <2>1. /\ pc = "dispatch" /\ pc' = pc
        /\ f \in Fd => ~IsPipe(f)
        /\ batch' = [batch EXCEPT ![f] = "none"]
        /\ \/ f = ListenFd /\ UNCHANGED <<serverVars, queueVars, connVars, kernelVars>>
           \/ f # ListenFd /\ connections[f] # NoConn /\ DropOwned(f, connections[f])
           \/ f # ListenFd /\ connections[f] = NoConn /\ DropUnknown(f)
    BY <1>15 DEF DispatchHup, TakeEvent, IsCgiPipe, IsPipe
  <2>2. CASE f = ListenFd
    BY <2>1, <2>2 
  <2>3. CASE f # ListenFd /\ connections[f] # NoConn
    <3>1. f \in Fd /\ connections[f] \in Conn /\ DropOwned(f, connections[f])
      BY <2>1, <2>3
    <3> QED
      BY <2>1, <3>1, DropOwnedMaps
  <2>4. CASE f # ListenFd /\ connections[f] = NoConn
    <3>1. f \in Fd /\ DropUnknown(f)
      BY <2>1, <2>4
    <3> QED
      BY <2>1, <3>1 DEF DropUnknown
  <2> QED
    BY <2>2, <2>3, <2>4
<1>16. ASSUME NEW f \in Fd, DispatchNobody(f) PROVE NoLostWakeup'
  BY <1>16 DEF DispatchNobody, TakeEvent, IsCgiPipe
<1>17. ASSUME NEW f \in Fd, HandleConnection(f) PROVE NoLostWakeup'
  <2>1. PICK c \in Conn :
              /\ connections[f] = c /\ acceptFd[c] = f /\ ~IsPipe(f)
              /\ pc = "dispatch" /\ pc' = pc
              /\ batch' = [batch EXCEPT ![f] = "none"]
              /\ \/ DropOwned(f, c)
                 \/ \E w \in LiveState : Advance(c, w)
    BY <1>17, HandleConnectionCases
  <2>2. CASE DropOwned(f, c)
    BY <2>1, <2>2, DropOwnedMaps
  <2>3. CASE ~DropOwned(f, c)
    <3>1. PICK w \in LiveState : Advance(c, w)
      BY <2>1, <2>3
    <3> QED
      <4>1. state' = [state EXCEPT ![c] = w] /\ w # "FREED"
        BY <2>1, <3>1 DEF Advance, SetState
      <4>2. CASE EnqueueProcessing(c) /\ w = "PROCESSING"
        <5>1. processingSet' = processingSet \cup {c}
          BY <4>2 DEF EnqueueProcessing
        <5>2. Elems(processingQueue)' = Elems(processingQueue) \cup {c}
          BY <4>2, ElemsAppend DEF EnqueueProcessing
        <5> QED
          BY <4>1, <4>2, <5>1, <5>2
      <4>3. CASE UNCHANGED queueVars /\ (w = "PROCESSING" => state[c] = "PROCESSING")
        BY <4>1, <4>3, <3>1 DEF Advance
      <4> QED
        BY <3>1, <4>2, <4>3 DEF Advance

  <2> QED
    BY <2>2, <2>3
<1>18. CASE DispatchListen
  BY <1>18 DEF DispatchListen, TakeEvent
<1>19. ASSUME NEW c \in Conn, NEW f \in Fd, Accept(c, f) PROVE NoLostWakeup'
  BY <1>19 DEF Accept, Touch, MaskOf
<1>20. CASE AcceptDone
  BY <1>20 DEF AcceptDone
<1>21. CASE EscapedException
  BY <1>21 DEF EscapedException, CloseAllFds
<1>22. CASE Signal
  BY <1>22 DEF Signal
<1>23. CASE Tick
  BY <1>23 DEF Tick, UpTo
<1>24. CASE UNCHANGED vars
  BY <1>24 DEF vars
<1> QED
  BY <1>1, <1>2, <1>3, <1>4, <1>5, <1>6, <1>7, <1>8, <1>9, <1>10, <1>11, <1>12, <1>13, <1>14, <1>15, <1>16, <1>17, <1>18, <1>19, <1>20, <1>21, <1>22, <1>23, <1>24
  DEF Next, Server, LoopStep, RoundRobinStep, SweepStep, DispatchStep

(* A registered pipe keeps the connection that waits for it, and a clock that*)
(* runs ahead of the connection's.                                         *)
LEMMA PipeMapStep ==
    ASSUME TypeOK, ClientMap, NoLostWakeup, PipeMap, [Next]_vars
    PROVE  PipeMap'
<1> USE DEF TypeOK, PipeMap, IsPipe, IsClient, loopVars, serverVars, queueVars, connVars, kernelVars
<1>1. CASE StartIteration
  BY <1>1 DEF StartIteration
<1>2. CASE Shutdown
  BY <1>2 DEF Shutdown, CloseAllFds
<1>3. CASE EpollWait
  BY <1>3 DEF EpollWait, Batches
<1>4. CASE EndDispatch
  BY <1>4 DEF EndDispatch
<1>5. CASE SkipStale
  BY <1>5 DEF SkipStale, InPass
<1>6. ASSUME NEW c \in Conn, ProcessMore(c) PROVE PipeMap'
  BY <1>6 DEF ProcessMore, BeginSlice, InPass, Touch, Requeue
<1>7. ASSUME NEW c \in Conn, ProcessDone(c) PROVE PipeMap'
  <2>1. /\ pc = "rr" /\ pc' = pc
        /\ state[c] = "PROCESSING"
        /\ state' = [state EXCEPT ![c] = "WRITING"]
        /\ idle' = [idle EXCEPT ![c] = 0]
        /\ UNCHANGED <<cgiPipe, cgiPipeToConn, cgiAge>>
    BY <1>7 DEF ProcessDone, BeginSlice, InPass, Touch, SetState, NoLostWakeup
  <2>2. \A p \in Fd : IsPipe(p) => cgiPipeToConn[p] # c
    BY <2>1
  <2> QED
    BY <2>1, <2>2
<1>8. ASSUME NEW c \in Conn, ProcessCgi(c) PROVE PipeMap'
  <2>1. PICK p \in Fd :
           /\ cgiPipe' = [cgiPipe EXCEPT ![c] = p]
           /\ cgiPipeToConn' = [cgiPipeToConn EXCEPT ![p] = c]
           /\ cgiAge' = [cgiAge EXCEPT ![p] = 0]
           /\ fdEvents' = [fdEvents EXCEPT ![acceptFd[c]] = "0", ![p] = "IN"]
    BY <1>8 DEF ProcessCgi
  <2>2. /\ InPass
        /\ c = Head(processingQueue)
        /\ c \in processingSet
        /\ idle' = [idle EXCEPT ![c] = 0]
        /\ processingQueue' = Tail(processingQueue)
        /\ processingSet' = processingSet \ {c}
        /\ state' = [state EXCEPT ![c] = "WAITING_FOR_CGI"]
        /\ UNCHANGED <<acceptFd, connections, g_running, pc, batch, sweepAge>>
    BY <1>8 DEF ProcessCgi, BeginSlice, Touch, DequeueProcessing
  <2>3. cgiPipe[c] = NoFd /\ state[c] = "PROCESSING"
    BY <2>2 DEF NoLostWakeup, ClientMap
  <2> QED
    BY <2>1, <2>2, <2>3 DEF InPass
<1>9. CASE EndRoundRobin
  BY <1>9 DEF EndRoundRobin
<1>10. CASE SweepTimeouts
  BY <1>10 DEF SweepTimeouts, TimedOut
<1>11. CASE SweepCgiTimeouts
  BY <1>11 DEF SweepCgiTimeouts, CgiExpired
<1>12. ASSUME NEW p \in Fd, CgiPipeDone(p) PROVE PipeMap'
  BY <1>12 DEF CgiPipeDone, TakeEvent, IsCgiPipe
<1>13. ASSUME NEW p \in Fd, CgiPipeMore(p) PROVE PipeMap'
  BY <1>13 DEF CgiPipeMore, TakeEvent, IsCgiPipe
<1>14. ASSUME NEW p \in Fd, CgiPipeThrow(p) PROVE PipeMap'
  BY <1>14 DEF CgiPipeThrow, TakeEvent, IsCgiPipe, MaskOf
<1>15. ASSUME NEW f \in Fd \cup {ListenFd}, DispatchHup(f) PROVE PipeMap'
  <2>1. /\ pc = "dispatch" /\ pc' = pc
        /\ f \in Fd => ~IsPipe(f)
        /\ batch' = [batch EXCEPT ![f] = "none"]
        /\ \/ f = ListenFd /\ UNCHANGED <<serverVars, queueVars, connVars, kernelVars>>
           \/ f # ListenFd /\ connections[f] # NoConn /\ DropOwned(f, connections[f])
           \/ f # ListenFd /\ connections[f] = NoConn /\ DropUnknown(f)
    BY <1>15 DEF DispatchHup, TakeEvent, IsCgiPipe, IsPipe
  <2>2. CASE f = ListenFd
    BY <2>1, <2>2 
  <2>3. CASE f # ListenFd /\ connections[f] # NoConn
    <3>1. f \in Fd /\ connections[f] \in Conn /\ DropOwned(f, connections[f])
      BY <2>1, <2>3
    <3> HIDE DEF TypeOK, PipeMap, IsPipe, IsClient
    <3> QED
      BY <2>1, <3>1, DropOwnedMaps
  <2>4. CASE f # ListenFd /\ connections[f] = NoConn
    <3>1. f \in Fd /\ DropUnknown(f)
      BY <2>1, <2>4
    <3> QED
      BY <2>1, <3>1 DEF DropUnknown
  <2> QED
    BY <2>2, <2>3, <2>4
<1>16. ASSUME NEW f \in Fd, DispatchNobody(f) PROVE PipeMap'
  BY <1>16 DEF DispatchNobody, TakeEvent, IsCgiPipe
<1>17. ASSUME NEW f \in Fd, HandleConnection(f) PROVE PipeMap'
  <2>1. PICK c \in Conn :
              /\ connections[f] = c /\ acceptFd[c] = f /\ ~IsPipe(f)
              /\ pc = "dispatch" /\ pc' = pc
              /\ batch' = [batch EXCEPT ![f] = "none"]
              /\ \/ DropOwned(f, c)
                 \/ \E w \in LiveState : Advance(c, w)
    BY <1>17, HandleConnectionCases
  <2>2. CASE DropOwned(f, c)
    <3> HIDE DEF TypeOK, PipeMap, IsPipe, IsClient
    <3> QED
      BY <2>1, <2>2, DropOwnedMaps
  <2>3. CASE ~DropOwned(f, c)
    <3>1. PICK w \in LiveState : Advance(c, w)
      BY <2>1, <2>3
    <3> QED
      <4>1. state' = [state EXCEPT ![c] = w]
        BY <3>1 DEF SetState, Advance
      <4>2. \A d \in Conn : idle'[d] = idle[d] \/ idle'[d] = 0
        BY <3>1 DEF Advance, Touch
      <4>3. UNCHANGED <<cgiPipeToConn, cgiAge, cgiPipe>>
        BY <3>1 DEF Advance
      <4>4. w = state[c] \/ (state[c] = "READING" /\ w # "WAITING_FOR_CGI")
        BY <3>1 DEF Advance
      <4>5. ASSUME NEW p \in Fd, IsPipe(p) PROVE state'[cgiPipeToConn[p]] = "WAITING_FOR_CGI"
        <5>1. cgiPipeToConn[p] \in Conn /\ state[cgiPipeToConn[p]] = "WAITING_FOR_CGI"
          BY <2>1, <4>5
        <5> QED
          BY <4>1, <4>4, <5>1
      <4>7. ASSUME NEW p \in Fd, IsPipe(p)
            PROVE  cgiAge[p] >= CGI_TIMEOUT_S \/ cgiAge[p] >= idle'[cgiPipeToConn[p]]
        <5>1. PICK d \in Conn : d = cgiPipeToConn[p]
          BY <4>7
        <5>2. cgiAge[p] >= CGI_TIMEOUT_S \/ cgiAge[p] >= idle[d]
          BY <4>7, <5>1
        <5>3. cgiAge[p] >= 0
          OBVIOUS
        <5> QED
          BY <4>2, <5>1, <5>2, <5>3
      <4> QED
        BY <2>1, <4>3, <4>5, <4>7
  <2> QED
    BY <2>2, <2>3
<1>18. CASE DispatchListen
  BY <1>18 DEF DispatchListen, TakeEvent
<1>19. ASSUME NEW c \in Conn, NEW f \in Fd, Accept(c, f) PROVE PipeMap'
  BY <1>19 DEF Accept, Touch, ClientMap
<1>20. CASE AcceptDone
  BY <1>20 DEF AcceptDone
<1>21. CASE EscapedException
  BY <1>21 DEF EscapedException, CloseAllFds
<1>22. CASE Signal
  BY <1>22 DEF Signal
<1>23. CASE Tick
  <2>1. UNCHANGED <<pc, cgiPipeToConn, cgiPipe, state>>
    BY <1>23 DEF Tick
  <2>2. \A p \in Fd : IsPipe(p) => cgiAge'[p] = UpTo(cgiAge[p], CGI_TIMEOUT_S)
    BY <1>23 DEF Tick
  <2>3. \A d \in Conn : idle'[d] = 0 \/ idle'[d] = UpTo(idle[d], CONNECTION_TIMEOUT_S)
    BY <1>23 DEF Tick
  <2>4. ASSUME NEW p \in Fd, IsPipe(p)
        PROVE  /\ cgiAge[p] >= CGI_TIMEOUT_S => cgiAge'[p] >= CGI_TIMEOUT_S
               /\ cgiAge'[p] >= CGI_TIMEOUT_S \/ cgiAge'[p] >= idle'[cgiPipeToConn[p]]
    <3>1. PICK d \in Conn : d = cgiPipeToConn[p]
      BY <2>4
    <3>2. cgiAge[p] >= CGI_TIMEOUT_S \/ cgiAge[p] >= idle[d]
      BY <2>4, <3>1
    <3>3. cgiAge[p] \in Nat /\ idle[d] \in Nat
      BY <3>1
    <3>4. cgiAge'[p] = UpTo(cgiAge[p], CGI_TIMEOUT_S)
      BY <2>2, <2>4
    <3>5. idle'[d] = 0 \/ idle'[d] = UpTo(idle[d], CONNECTION_TIMEOUT_S)
      BY <2>3, <3>1
    <3>6. /\ cgiAge[p] >= CGI_TIMEOUT_S => cgiAge'[p] >= CGI_TIMEOUT_S
          /\ cgiAge'[p] >= CGI_TIMEOUT_S \/ cgiAge'[p] >= idle'[d]
      <4> HIDE DEF TypeOK, PipeMap
      <4> QED
        BY <3>2, <3>3, <3>4, <3>5 DEF UpTo
    <3> QED
      BY <3>1, <3>6
  <2> QED
    BY <2>1, <2>4
<1>24. CASE UNCHANGED vars
  BY <1>24 DEF vars
<1> QED
  BY <1>1, <1>2, <1>3, <1>4, <1>5, <1>6, <1>7, <1>8, <1>9, <1>10, <1>11, <1>12, <1>13, <1>14, <1>15, <1>16, <1>17, <1>18, <1>19, <1>20, <1>21, <1>22, <1>23, <1>24
  DEF Next, Server, LoopStep, RoundRobinStep, SweepStep, DispatchStep

(* An event is kept only while the batch it came with is dispatched.        *)
LEMMA BatchStep ==
    ASSUME TypeOK, BatchOver, [Next]_vars
    PROVE  BatchOver'
<1> USE DEF TypeOK, BatchOver, loopVars, serverVars, queueVars, connVars, kernelVars
<1>1. CASE StartIteration
  BY <1>1 DEF StartIteration
<1>2. CASE Shutdown
  BY <1>2 DEF Shutdown, CloseAllFds
<1>3. CASE EpollWait
  BY <1>3 DEF EpollWait, Batches
<1>4. CASE EndDispatch
  BY <1>4 DEF EndDispatch, NoEvents
<1>5. CASE SkipStale
  BY <1>5 DEF SkipStale, InPass
<1>6. ASSUME NEW c \in Conn, ProcessMore(c) PROVE BatchOver'
  BY <1>6 DEF ProcessMore, BeginSlice, InPass
<1>7. ASSUME NEW c \in Conn, ProcessDone(c) PROVE BatchOver'
  BY <1>7 DEF ProcessDone, BeginSlice, InPass
<1>8. ASSUME NEW c \in Conn, ProcessCgi(c) PROVE BatchOver'
  BY <1>8 DEF ProcessCgi, BeginSlice, InPass
<1>9. CASE EndRoundRobin
  BY <1>9 DEF EndRoundRobin
<1>10. CASE SweepTimeouts
  BY <1>10 DEF SweepTimeouts
<1>11. CASE SweepCgiTimeouts
  BY <1>11 DEF SweepCgiTimeouts
<1>12. ASSUME NEW p \in Fd, CgiPipeDone(p) PROVE BatchOver'
  BY <1>12 DEF CgiPipeDone, TakeEvent
<1>13. ASSUME NEW p \in Fd, CgiPipeMore(p) PROVE BatchOver'
  BY <1>13 DEF CgiPipeMore, TakeEvent
<1>14. ASSUME NEW p \in Fd, CgiPipeThrow(p) PROVE BatchOver'
  BY <1>14 DEF CgiPipeThrow, TakeEvent
<1>15. ASSUME NEW f \in Fd \cup {ListenFd}, DispatchHup(f) PROVE BatchOver'
  BY <1>15 DEF DispatchHup, TakeEvent
<1>16. ASSUME NEW f \in Fd, DispatchNobody(f) PROVE BatchOver'
  BY <1>16 DEF DispatchNobody, TakeEvent
<1>17. ASSUME NEW f \in Fd, HandleConnection(f) PROVE BatchOver'
  BY <1>17 DEF HandleConnection, TakeEvent
<1>18. CASE DispatchListen
  BY <1>18 DEF DispatchListen, TakeEvent
<1>19. ASSUME NEW c \in Conn, NEW f \in Fd, Accept(c, f) PROVE BatchOver'
  BY <1>19 DEF Accept
<1>20. CASE AcceptDone
  BY <1>20 DEF AcceptDone
<1>21. CASE EscapedException
  BY <1>21 DEF EscapedException, CloseAllFds
<1>22. CASE Signal
  BY <1>22 DEF Signal
<1>23. CASE Tick
  BY <1>23 DEF Tick
<1>24. CASE UNCHANGED vars
  BY <1>24 DEF vars
<1> QED
  BY <1>1, <1>2, <1>3, <1>4, <1>5, <1>6, <1>7, <1>8, <1>9, <1>10, <1>11, <1>12, <1>13, <1>14, <1>15, <1>16, <1>17, <1>18, <1>19, <1>20, <1>21, <1>22, <1>23, <1>24
  DEF Next, Server, LoopStep, RoundRobinStep, SweepStep, DispatchStep

(* No step takes back that a hang-up closed a file.                         *)
LEMMA StrayStep ==
    ASSUME TypeOK, [Next]_vars, stray
    PROVE  stray'
<1> USE DEF loopVars, serverVars, queueVars, connVars, kernelVars
<1>1. CASE StartIteration
  BY <1>1 DEF StartIteration
<1>2. CASE Shutdown
  BY <1>2 DEF Shutdown, CloseAllFds
<1>3. CASE EpollWait
  BY <1>3 DEF EpollWait
<1>4. CASE EndDispatch
  BY <1>4 DEF EndDispatch
<1>5. CASE SkipStale
  BY <1>5 DEF SkipStale
<1>6. ASSUME NEW c \in Conn, ProcessMore(c) PROVE stray'
  BY <1>6 DEF ProcessMore, BeginSlice
<1>7. ASSUME NEW c \in Conn, ProcessDone(c) PROVE stray'
  BY <1>7 DEF ProcessDone, BeginSlice
<1>8. ASSUME NEW c \in Conn, ProcessCgi(c) PROVE stray'
  BY <1>8 DEF ProcessCgi, BeginSlice
<1>9. CASE EndRoundRobin
  BY <1>9 DEF EndRoundRobin
<1>10. CASE SweepTimeouts
  BY <1>10 DEF SweepTimeouts
<1>11. CASE SweepCgiTimeouts
  BY <1>11 DEF SweepCgiTimeouts
<1>12. ASSUME NEW p \in Fd, CgiPipeDone(p) PROVE stray'
  BY <1>12 DEF CgiPipeDone, TakeEvent
<1>13. ASSUME NEW p \in Fd, CgiPipeMore(p) PROVE stray'
  BY <1>13 DEF CgiPipeMore, TakeEvent
<1>14. ASSUME NEW p \in Fd, CgiPipeThrow(p) PROVE stray'
  BY <1>14 DEF CgiPipeThrow, TakeEvent
<1>15. ASSUME NEW f \in Fd \cup {ListenFd}, DispatchHup(f) PROVE stray'
  BY <1>15 DEF DispatchHup, TakeEvent, DropUnknown, DropOwned
<1>16. ASSUME NEW f \in Fd, DispatchNobody(f) PROVE stray'
  BY <1>16 DEF DispatchNobody, TakeEvent
<1>17. ASSUME NEW f \in Fd, HandleConnection(f) PROVE stray'
  BY <1>17 DEF HandleConnection, TakeEvent, DropOwned
<1>18. CASE DispatchListen
  BY <1>18 DEF DispatchListen, TakeEvent
<1>19. ASSUME NEW c \in Conn, NEW f \in Fd, Accept(c, f) PROVE stray'
  BY <1>19 DEF Accept
<1>20. CASE AcceptDone
  BY <1>20 DEF AcceptDone
<1>21. CASE EscapedException
  BY <1>21 DEF EscapedException, CloseAllFds
<1>22. CASE Signal
  BY <1>22 DEF Signal
<1>23. CASE Tick
  BY <1>23 DEF Tick
<1>24. CASE UNCHANGED vars
  BY <1>24 DEF vars
<1> QED
  BY <1>1, <1>2, <1>3, <1>4, <1>5, <1>6, <1>7, <1>8, <1>9, <1>10, <1>11, <1>12, <1>13, <1>14, <1>15, <1>16, <1>17, <1>18, <1>19, <1>20, <1>21, <1>22, <1>23, <1>24
  DEF Next, Server, LoopStep, RoundRobinStep, SweepStep, DispatchStep

(* What holds until a hang-up closes a file.                                *)
Sound == Reachable /\ Interest /\ Ownership

(* No file of a connection is watched, and files have one owner.            *)
LEMMA FilesApart ==
    ASSUME TypeOK, PipeMap, Interest, Ownership
    PROVE  /\ \A c \in Conn : files[c] \subseteq openFds
           /\ \A c \in Conn : \A f \in files[c] : f \notin epollSet /\ ~IsPipe(f) /\ ~IsClient(f)
           /\ \A c, d \in Conn : c # d => files[c] \cap files[d] = {}
           /\ \A c, d \in Conn : cgiPipe[c] \notin files[d]
<1> USE DEF TypeOK, Ownership, ClosedWith
<1>1. \A c \in Conn : files[c] \subseteq Fd /\ files[c] \subseteq openFds
  OBVIOUS
<1>2. \A c, d \in Conn : c # d => files[c] \cap files[d] = {}
  BY <1>1
<1>3. \A c, d \in Conn : cgiPipe[c] \notin files[d]
  <2> SUFFICES ASSUME NEW c \in Conn, NEW d \in Conn, cgiPipe[c] \in files[d] PROVE FALSE
    OBVIOUS
  <2>1. cgiPipe[c] \in Fd /\ c # d
    BY <1>1
  <2>2. cgiPipe[c] \in ClosedWith(c) \cap ClosedWith(d) \cap Fd
    BY <2>1
  <2> QED
    BY <2>1, <2>2
<1>4. \A c \in Conn : \A f \in files[c] : ~IsClient(f)
  BY <1>1
<1>5. \A c \in Conn : \A f \in files[c] : ~IsPipe(f)
  BY <1>1, <1>3 DEF PipeMap, IsPipe
<1>6. \A c \in Conn : \A f \in files[c] : f \notin epollSet
  BY <1>1, <1>4, <1>5 DEF Interest
<1> QED
  BY <1>1, <1>2, <1>3, <1>4, <1>5, <1>6

(* A step that touches neither maps nor descriptors.                        *)
LEMMA QuietSound ==
    ASSUME TypeOK, Sound, TypeOK',
           UNCHANGED <<connections, cgiPipeToConn, fdEvents, state, acceptFd, cgiPipe, kernelVars>>,
           \A f \in Fd : batch'[f] # "none" => batch[f] # "none"
    PROVE  Sound'
<1> USE DEF TypeOK, IsClient, IsPipe, kernelVars
<1>1. Reachable'
  BY DEF Sound, Reachable
<1>2. Interest'
  BY DEF Sound, Interest, MaskMatchesState
<1>3. Ownership'
  BY DEF Sound, Ownership, ClosedWith
<1> QED
  BY <1>1, <1>2, <1>3 DEF Sound

(* epoll_wait() reports nothing of a descriptor that is not watched.        *)
LEMMA EpollWaitSound ==
    ASSUME TypeOK, PipeMap, Sound, TypeOK', EpollWait
    PROVE  Sound'
<1> USE DEF TypeOK, IsClient, IsPipe
<1>0. UNCHANGED <<connections, cgiPipeToConn, fdEvents, state, acceptFd, cgiPipe, openFds,
                  epollSet, files, lost>>
  BY DEF EpollWait, serverVars, connVars, kernelVars
<1>1. \A f \in Fd : batch'[f] # "none" => f \in epollSet
  BY DEF EpollWait, Batches, Reported
<1>2. \A c \in Conn : cgiPipe[c] # NoFd => cgiPipe[c] \in Fd /\ ~IsClient(cgiPipe[c])
  BY DEF Sound, Ownership, ClosedWith
<1>3. Reachable'
  BY <1>0, <1>1, <1>2 DEF Sound, Reachable, Interest
<1>4. Interest'
  BY <1>0 DEF Sound, Interest, MaskMatchesState
<1>5. Ownership'
  BY <1>0 DEF Sound, Ownership, ClosedWith
<1> QED
  BY <1>3, <1>4, <1>5 DEF Sound

(* Closing everything leaves open only what is lost.                        *)
LEMMA CloseAllSound ==
    ASSUME TypeOK, PipeMap, Sound, TypeOK', NEW left \in SUBSET Fd, CloseAllFds(left)
    PROVE  Sound'
<1> USE DEF TypeOK, IsClient, IsPipe, CloseAllFds, NoEvents
<1>1. Reachable'
  BY DEF Reachable, LiveState
<1>2. Interest'
  BY DEF Interest, MaskMatchesState
<1>3. Ownership'
  <2>1. PICK closed : /\ closed = {f \in Fd : fdEvents[f] # "unregistered"}
                                  \cup UNION {ClosedWith(c) : c \in Conn}
                      /\ openFds' = (openFds \cup left) \ closed
                      /\ lost' = (lost \cup left) \ closed
    OBVIOUS
  <2>2. ASSUME NEW f \in Fd, f \notin closed PROVE f \in openFds <=> f \in lost
    <3>1. fdEvents[f] = "unregistered" /\ \A c \in Conn : f \notin ClosedWith(c)
      BY <2>1, <2>2
    <3>2. ~IsClient(f)
      BY <3>1 DEF Sound, Interest
    <3> QED
      BY <3>1, <3>2 DEF Sound, Ownership
  <2>3. \A f \in Fd : f \in openFds' <=> f \in lost'
    BY <2>1, <2>2
  <2>4. /\ \A f \in Fd : connections'[f] = NoConn
        /\ \A c \in Conn : cgiPipe'[c] = NoFd /\ files'[c] = {}
    OBVIOUS
  <2> HIDE DEF CloseAllFds
  <2>5. \A c \in Conn : \A f \in Fd : f \notin ClosedWith(c)'
    BY <2>4 DEF ClosedWith
  <2> QED
    BY <2>3, <2>4, <2>5 DEF Ownership
<1> QED
  BY <1>1, <1>2, <1>3 DEF Sound

(* _dropConnection for a descriptor in _connections closes what is the     *)
(* connection's and nothing else.                                          *)
LEMMA DropOwnedSound ==
    ASSUME IInv, Sound, TypeOK', NEW f \in Fd, NEW c \in Conn, connections[f] = c,
           ~IsPipe(f), DropOwned(f, c), batch' = [batch EXCEPT ![f] = "none"]
    PROVE  Sound'
<1>0. TypeOK /\ ClientMap /\ PipeMap /\ Reachable /\ Interest /\ Ownership
  BY DEF IInv, Sound
<1> USE <1>0 DEF TypeOK, IsClient, IsPipe
<1>1. acceptFd[c] = f /\ state[c] # "FREED"
  BY DEF ClientMap
<1>2. /\ \A d \in Conn : cgiPipe'[d] = IF d = c THEN NoFd ELSE cgiPipe[d]
      /\ \A d \in Conn : files'[d] = IF d = c THEN {} ELSE files[d]
      /\ \A d \in Conn : state'[d] = IF d = c THEN "FREED" ELSE state[d]
      /\ \A d \in Conn : d # c => acceptFd'[d] = acceptFd[d]
      /\ \A g \in Fd : connections'[g] = IF g = f THEN NoConn ELSE connections[g]
      /\ \A g \in Fd : cgiPipeToConn'[g] = IF g = cgiPipe[c] THEN NoConn ELSE cgiPipeToConn[g]
      /\ lost' = lost
  BY DEF DropOwned
<1>3. /\ \A g \in Fd : g \in openFds' <=> g \in openFds /\ g \notin ClosedWith(c) /\ g # f
      /\ \A g \in Fd : g \in epollSet' <=> g \in epollSet /\ g \notin ClosedWith(c) /\ g # f
      /\ \A g \in Fd : fdEvents'[g] = IF g = cgiPipe[c] \/ g = f THEN "unregistered"
                                      ELSE fdEvents[g]
  BY DEF DropOwned, EraseFdEvents, ClosedWith
<1>4. \A d \in Conn : d # c => cgiPipe[d] # cgiPipe[c] \/ cgiPipe[d] = NoFd
  BY DEF Ownership, ClosedWith
<1>5. \A d \in Conn : d # c /\ state[d] # "FREED" => acceptFd[d] \in Fd /\ acceptFd[d] # f
  BY DEF ClientMap, Reachable
<1>6. \A g \in Fd : g = cgiPipe[c] => ~IsClient(g) /\ g \notin lost
  BY DEF Ownership, ClosedWith
<1>7. \A g \in Fd : g \in files[c] => g \notin epollSet /\ ~IsClient(g)
  BY FilesApart
<1>8. \A g \in Fd : batch'[g] # "none" => batch[g] # "none"
  OBVIOUS
<1>9. Reachable'
  <2>1. ASSUME NEW d \in Conn, state'[d] # "FREED" PROVE connections'[acceptFd'[d]] = d
    BY <1>2, <1>5, <2>1 DEF Reachable
  <2>2. ASSUME NEW d \in Conn, state'[d] = "WAITING_FOR_CGI"
        PROVE  cgiPipe'[d] \in Fd /\ cgiPipeToConn'[cgiPipe'[d]] = d
    <3>1. d # c /\ state[d] = "WAITING_FOR_CGI" /\ cgiPipe'[d] = cgiPipe[d]
      BY <1>2, <2>2
    <3>2. cgiPipe[d] \in Fd /\ cgiPipeToConn[cgiPipe[d]] = d
      BY <3>1 DEF Reachable
    <3>3. cgiPipe[d] # cgiPipe[c]
      BY <1>4, <3>1, <3>2
    <3> QED
      BY <1>2, <3>1, <3>2, <3>3
  <2>3. ASSUME NEW d \in Conn, cgiPipe'[d] # NoFd, batch'[cgiPipe'[d]] # "none"
        PROVE  cgiPipeToConn'[cgiPipe'[d]] # NoConn
    <3>1. d # c /\ cgiPipe'[d] = cgiPipe[d] /\ cgiPipe[d] \in Fd
      BY <1>2, <2>3
    <3>2. batch[cgiPipe[d]] # "none"
      BY <3>1, <2>3
    <3>3. cgiPipeToConn[cgiPipe[d]] # NoConn
      BY <3>1, <3>2, <2>3 DEF Reachable
    <3>4. cgiPipe[d] # cgiPipe[c]
      BY <1>4, <3>1
    <3> QED
      BY <1>2, <3>1, <3>3, <3>4
  <2> QED
    BY <2>1, <2>2, <2>3 DEF Reachable
<1>10. Interest'
  <2>1. ASSUME NEW g \in Fd PROVE g \in epollSet' <=> IsClient(g)' \/ IsPipe(g)'
    BY <1>2, <1>3, <1>6, <1>7 DEF Interest, ClosedWith
  <2>2. ASSUME NEW g \in Fd PROVE fdEvents'[g] = "unregistered" <=> g \notin epollSet'
    BY <1>3, <1>7 DEF Interest, ClosedWith
  <2>3. ASSUME NEW d \in Conn, state'[d] # "FREED" PROVE fdEvents'[acceptFd'[d]] = MaskOf(state'[d])
    <3>1. d # c /\ state'[d] = state[d] /\ acceptFd'[d] = acceptFd[d] /\ acceptFd[d] \in Fd
      BY <1>2, <1>5, <2>3
    <3>2. acceptFd[d] # f /\ acceptFd[d] # cgiPipe[c]
      BY <1>5, <1>6, <3>1, <2>3 DEF Reachable
    <3> QED
      BY <1>3, <3>1, <3>2, <2>3 DEF Interest, MaskMatchesState
  <2>4. MaskMatchesState'
    BY <2>3 DEF MaskMatchesState
  <2> QED
    BY <2>1, <2>2, <2>4 DEF Interest
<1>11. Ownership'
  <2>1. \A d \in Conn : \A g \in Fd : g \in ClosedWith(d)' <=> d # c /\ g \in ClosedWith(d)
    <3> SUFFICES ASSUME NEW d \in Conn, NEW g \in Fd
                 PROVE  g \in ClosedWith(d)' <=> d # c /\ g \in ClosedWith(d)
      OBVIOUS
    <3>1. CASE d = c
      <4>1. files'[c] = {} /\ cgiPipe'[c] = NoFd
        BY <1>2
      <4> QED
        BY <3>1, <4>1, NamesAssumption DEF ClosedWith
    <3>2. CASE d # c
      <4>1. files'[d] = files[d] /\ cgiPipe'[d] = cgiPipe[d]
        BY <1>2, <3>2
      <4> QED
        BY <3>2, <4>1 DEF ClosedWith
    <3> QED
      BY <3>1, <3>2
  <2>2. ASSUME NEW g \in Fd
        PROVE  g \in openFds' <=> IsClient(g)' \/ g \in lost' \/ \E d \in Conn : g \in ClosedWith(d)'
    <3>1. g \in openFds <=> IsClient(g) \/ g \in lost \/ \E d \in Conn : g \in ClosedWith(d)
      BY DEF Ownership
    <3>2. IsClient(g)' <=> IsClient(g) /\ g # f
      BY <1>2
    <3>3. g \in ClosedWith(c) => ~IsClient(g) /\ g \notin lost /\ \A d \in Conn : d # c => g \notin ClosedWith(d)
      BY DEF Ownership
    <3>4. g = f => g \notin lost /\ \A d \in Conn : g \notin ClosedWith(d)
      BY DEF Ownership
    <3> QED
      BY <1>2, <1>3, <2>1, <3>1, <3>2, <3>3, <3>4
  <2>3. \A d, e \in Conn : (ClosedWith(d) \cap ClosedWith(e) \cap Fd)' # {} => d = e
    BY <2>1 DEF Ownership
  <2>4. \A d \in Conn : cgiPipe'[d] \notin files'[d]
    BY <1>2 DEF Ownership
  <2>5. \A d \in Conn : \A g \in (ClosedWith(d) \cap Fd)' : ~IsClient(g)' /\ g \notin lost'
    BY <1>2, <2>1 DEF Ownership
  <2>6. \A g \in lost' : ~IsClient(g)'
    BY <1>2 DEF Ownership
  <2> QED
    BY <2>2, <2>3, <2>4, <2>5, <2>6 DEF Ownership
<1> QED
  BY <1>9, <1>10, <1>11 DEF Sound

(* _dropConnection for a number in no map: as long as it is not a file, it *)
(* is free, or a descriptor that was lost.                                 *)
LEMMA DropUnknownSound ==
    ASSUME IInv, Sound, TypeOK', NEW f \in Fd, batch[f] # "none", ~IsClient(f), ~IsPipe(f),
           DropUnknown(f), ~stray', batch' = [batch EXCEPT ![f] = "none"]
    PROVE  Sound'
<1>0. TypeOK /\ ClientMap /\ PipeMap /\ Reachable /\ Interest /\ Ownership
  BY DEF IInv, Sound
<1> USE <1>0 DEF TypeOK, IsClient, IsPipe
<1>1. /\ \A c \in Conn : f \notin files[c]
      /\ \A g \in Fd : g \in openFds' <=> g \in openFds /\ g # f
      /\ \A g \in Fd : g \in epollSet' <=> g \in epollSet /\ g # f
      /\ \A g \in Fd : g \in lost' <=> g \in lost /\ g # f
      /\ \A g \in Fd : fdEvents'[g] = IF g = f THEN "unregistered" ELSE fdEvents[g]
      /\ UNCHANGED <<connections, cgiPipeToConn, state, acceptFd, cgiPipe, files>>
  BY DEF DropUnknown, EraseFdEvents, connVars
<1>2. \A c \in Conn : cgiPipe[c] # f
  BY DEF Reachable
<1>3. f \notin epollSet /\ fdEvents[f] = "unregistered"
  BY DEF Interest
<1>4. \A g \in Fd : batch'[g] # "none" => batch[g] # "none"
  OBVIOUS
<1>5. Reachable'
  BY <1>1, <1>4 DEF Reachable
<1>6. Interest'
  <2>1. \A g \in Fd : g \in epollSet' <=> g \in epollSet
    BY <1>1, <1>3
  <2>2. \A g \in Fd : fdEvents'[g] = fdEvents[g]
    BY <1>1, <1>3
  <2>3. \A c \in Conn : state'[c] # "FREED" => fdEvents'[acceptFd'[c]] = MaskOf(state'[c])
    BY <1>1, <2>2 DEF Interest, MaskMatchesState, ClientMap
  <2>4. \A g \in Fd : g \in epollSet' <=> IsClient(g)' \/ IsPipe(g)'
    BY <1>1, <2>1 DEF Interest
  <2>5. \A g \in Fd : fdEvents'[g] = "unregistered" <=> g \notin epollSet'
    BY <2>1, <2>2 DEF Interest
  <2> QED
    BY <2>3, <2>4, <2>5 DEF Interest, MaskMatchesState
<1>7. Ownership'
  <2>1. \A c \in Conn : ClosedWith(c)' = ClosedWith(c) /\ f \notin ClosedWith(c)
    BY <1>1, <1>2 DEF ClosedWith
  <2>2. ASSUME NEW g \in Fd
        PROVE  g \in openFds' <=> IsClient(g)' \/ g \in lost' \/ \E c \in Conn : g \in ClosedWith(c)'
    <3>1. g \in openFds <=> IsClient(g) \/ g \in lost \/ \E c \in Conn : g \in ClosedWith(c)
      BY DEF Ownership
    <3>2. IsClient(g)' <=> IsClient(g)
      BY <1>1
    <3>3. CASE g = f
      BY <1>1, <2>1, <3>2, <3>3
    <3>4. CASE g # f
      BY <1>1, <2>1, <3>1, <3>2, <3>4
    <3> QED
      BY <3>3, <3>4
  <2>3. \A c, d \in Conn : (ClosedWith(c) \cap ClosedWith(d) \cap Fd)' # {} => c = d
    BY <2>1 DEF Ownership
  <2>4. \A c \in Conn : cgiPipe'[c] \notin files'[c]
    BY <1>1 DEF Ownership
  <2>5. \A c \in Conn : \A g \in (ClosedWith(c) \cap Fd)' : ~IsClient(g)' /\ g \notin lost'
    BY <1>1, <2>1 DEF Ownership
  <2>6. \A g \in lost' : ~IsClient(g)'
    BY <1>1 DEF Ownership
  <2> QED
    BY <2>2, <2>3, <2>4, <2>5, <2>6 DEF Ownership
<1> QED
  BY <1>5, <1>6, <1>7 DEF Sound

(* accept() returns a number that nobody owns.                              *)
LEMMA AcceptSound ==
    ASSUME IInv, Sound, TypeOK', NEW c \in Conn, NEW f \in Fd, Accept(c, f)
    PROVE  Sound'
<1>0. TypeOK /\ ClientMap /\ PipeMap /\ Reachable /\ Interest /\ Ownership
  BY DEF IInv, Sound
<1> USE <1>0 DEF TypeOK, IsClient, IsPipe
<1>1. /\ state[c] = "FREED" /\ f \notin openFds
      /\ connections' = [connections EXCEPT ![f] = c]
      /\ state' = [state EXCEPT ![c] = "READING"]
      /\ acceptFd' = [acceptFd EXCEPT ![c] = f]
      /\ fdEvents' = [fdEvents EXCEPT ![f] = "IN"]
      /\ openFds' = openFds \cup {f}
      /\ epollSet' = epollSet \cup {f}
      /\ UNCHANGED <<batch, cgiPipeToConn, cgiPipe, files, lost>>
  BY DEF Accept, loopVars, MaskOf
<1>2. ~IsClient(f) /\ f \notin lost /\ \A d \in Conn : f \notin ClosedWith(d)
  BY <1>1 DEF Ownership
<1>3. ~IsPipe(f)
  BY <1>2 DEF PipeMap, ClosedWith
<1>4. \A d \in Conn : state[d] # "FREED" => acceptFd[d] \in Fd /\ acceptFd[d] # f /\ d # c
  BY <1>1, <1>2 DEF ClientMap, Reachable
<1>5. Reachable'
  BY <1>1, <1>4 DEF Reachable
<1>6. Interest'
  <2>1. \A g \in Fd : g \in epollSet' <=> IsClient(g)' \/ IsPipe(g)'
    BY <1>1 DEF Interest
  <2>2. \A g \in Fd : fdEvents'[g] = "unregistered" <=> g \notin epollSet'
    BY <1>1 DEF Interest
  <2>3. ASSUME NEW d \in Conn, state'[d] # "FREED" PROVE fdEvents'[acceptFd'[d]] = MaskOf(state'[d])
    <3>1. CASE d = c
      BY <1>1, <3>1 DEF MaskOf
    <3>2. CASE d # c
      BY <1>1, <1>4, <2>3, <3>2 DEF Interest, MaskMatchesState
    <3> QED
      BY <3>1, <3>2
  <2> QED
    BY <2>1, <2>2, <2>3 DEF Interest, MaskMatchesState
<1>7. Ownership'
  <2>1. \A d \in Conn : ClosedWith(d)' = ClosedWith(d)
    BY <1>1 DEF ClosedWith
  <2>2. \A g \in Fd : IsClient(g)' <=> IsClient(g) \/ g = f
    BY <1>1
  <2>3. \A g \in Fd : g \in openFds' <=> IsClient(g)' \/ g \in lost' \/ \E d \in Conn : g \in ClosedWith(d)'
    BY <1>1, <2>1, <2>2 DEF Ownership
  <2>4. \A d, e \in Conn : (ClosedWith(d) \cap ClosedWith(e) \cap Fd)' # {} => d = e
    BY <2>1 DEF Ownership
  <2>5. \A d \in Conn : cgiPipe'[d] \notin files'[d]
    BY <1>1 DEF Ownership
  <2>6. \A d \in Conn : \A g \in (ClosedWith(d) \cap Fd)' : ~IsClient(g)' /\ g \notin lost'
    BY <1>1, <1>2, <2>1, <2>2 DEF Ownership
  <2>7. \A g \in lost' : ~IsClient(g)'
    BY <1>1, <1>2, <2>2 DEF Ownership
  <2> QED
    BY <2>3, <2>4, <2>5, <2>6, <2>7 DEF Ownership
<1> QED
  BY <1>5, <1>6, <1>7 DEF Sound

(* A handler that closes and opens files of the connections in S, closes the*)
(* pipes in shut, unregisters those in unwatch, loses page and moves the   *)
(* connections in W to state w.                                            *)
Handled(S, W, w, shut, unwatch, page, watch) ==
    /\ Descriptors(S, shut, unwatch, page, watch)
    /\ \A f \in watch : \E c \in W : acceptFd[c] = f
    /\ \A c \in W : state[c] # "FREED"
    /\ shut \subseteq unwatch /\ \A p \in unwatch : IsPipe(p)
    /\ UNCHANGED <<connections, acceptFd>> /\ lost' = lost \cup page /\ page \cap lost = {}
    /\ \A c \in Conn : state'[c] = IF c \in W THEN w ELSE state[c]
    /\ \A c \in Conn : state'[c] = "WAITING_FOR_CGI" =>
          state[c] = "WAITING_FOR_CGI" /\ cgiPipe[c] \notin unwatch
    /\ \A c \in Conn : cgiPipe'[c] = IF cgiPipe[c] \in shut THEN NoFd ELSE cgiPipe[c]
    /\ \A p \in Fd : cgiPipeToConn'[p] = IF p \in unwatch THEN NoConn ELSE cgiPipeToConn[p]
    /\ \A f \in Fd : fdEvents'[f] = IF f \in unwatch THEN "unregistered"
                                    ELSE IF \E c \in W : acceptFd[c] = f THEN MaskOf(w)
                                    ELSE fdEvents[f]
    /\ \A f \in Fd : batch'[f] # "none" => batch[f] # "none" /\ f \notin unwatch

LEMMA HandlerSound ==
    ASSUME IInv, Sound, TypeOK',
           NEW S \in SUBSET Conn, NEW W \in SUBSET Conn, NEW w \in LiveState,
           NEW shut \in SUBSET Fd, NEW unwatch \in SUBSET Fd, NEW page \in SUBSET Fd, NEW watch,
           Handled(S, W, w, shut, unwatch, page, watch)
    PROVE  Sound'
<1>0. TypeOK /\ ClientMap /\ PipeMap /\ Reachable /\ Interest /\ Ownership
  BY DEF IInv, Sound
<1>12. Descriptors(S, shut, unwatch, page, watch)
  BY DEF Handled
<1> USE <1>0 DEF TypeOK, IsClient, IsPipe, Handled
<1>1. /\ \A c \in Conn : files[c] \subseteq openFds
      /\ \A c \in Conn : \A f \in files[c] : f \notin epollSet /\ ~IsPipe(f) /\ ~IsClient(f)
      /\ \A c, d \in Conn : c # d => files[c] \cap files[d] = {}
      /\ \A c, d \in Conn : cgiPipe[c] \notin files[d]
  BY FilesApart
<1>2. \A p \in unwatch : ~IsClient(p) /\ p \notin lost /\ \E c \in Conn : cgiPipe[c] = p
  BY DEF PipeMap, Ownership, ClosedWith
<1>3. NewFiles(S, shut, unwatch, page, watch)
  <2>1. openFds \subseteq Fd /\ epollSet \subseteq Fd /\ files \in [Conn -> SUBSET Fd]
    OBVIOUS
  <2>2. OwnFiles(S, shut)
    BY <1>1 DEF OwnFiles
  <2> HIDE DEF TypeOK, IsClient, IsPipe, Handled
  <2> HIDE <1>0
  <2> QED
    BY <1>12, <2>1, <2>2, DescriptorsDisjoint
<1>4. \A c \in Conn \ S : files'[c] = files[c]
  <2>1. openFds \subseteq Fd /\ epollSet \subseteq Fd /\ files \in [Conn -> SUBSET Fd]
    OBVIOUS
  <2> HIDE DEF TypeOK, IsClient, IsPipe, Handled
  <2> HIDE <1>0
  <2> QED
    BY <1>12, <2>1, DescriptorsType
<1> USE DEF NewFiles
<1>10. \A c \in Conn : \A f \in files[c] :
           f \notin shut /\ f \in openFds /\ \A d \in Conn : d # c => f \notin files[d]
  BY <1>1
<1>5. \A c \in Conn : state[c] # "FREED" => acceptFd[c] \in Fd /\ connections[acceptFd[c]] = c
  BY DEF ClientMap, Reachable
<1>6. Reachable'
  BY <1>5 DEF Reachable, LiveState
<1>7. \A f \in watch : f \in epollSet /\ f \notin unwatch
  BY <1>2, <1>5 DEF Interest
<1>8. Interest'
  <2>1. \A f \in Fd : f \in epollSet' <=> f \in epollSet /\ f \notin unwatch
    BY <1>3, <1>7
  <2>2. \A f \in Fd : f \in epollSet' <=> IsClient(f)' \/ IsPipe(f)'
    BY <1>2, <2>1 DEF Interest
  <2>3. \A f \in Fd : fdEvents'[f] = "unregistered" <=> f \notin epollSet'
    <3>1. MaskOf(w) # "unregistered"
      BY DEF MaskOf
    <3>2. \A f \in Fd : (\E c \in W : acceptFd[c] = f) => f \in epollSet
      BY <1>5 DEF Interest
    <3> QED
      BY <2>1, <3>1, <3>2 DEF Interest
  <2>4. ASSUME NEW c \in Conn, state'[c] # "FREED" PROVE fdEvents'[acceptFd'[c]] = MaskOf(state'[c])
    <3>1. state[c] # "FREED"
      BY <2>4
    <3>2. acceptFd[c] \in Fd /\ connections[acceptFd[c]] = c /\ acceptFd[c] \notin unwatch
      BY <1>2, <1>5, <3>1
    <3>3. (\E d \in W : acceptFd[d] = acceptFd[c]) <=> c \in W
      BY <1>5, <3>2
    <3>4. fdEvents'[acceptFd[c]] = IF c \in W THEN MaskOf(w) ELSE fdEvents[acceptFd[c]]
      BY <3>2, <3>3
    <3>5. fdEvents[acceptFd[c]] = MaskOf(state[c])
      BY <3>1 DEF Interest, MaskMatchesState
    <3> QED
      BY <3>4, <3>5
  <2> QED
    BY <2>2, <2>3, <2>4 DEF Interest, MaskMatchesState
<1>9. Ownership'
  <2>1. \A c \in Conn : \A f \in Fd : f \in ClosedWith(c)' <=>
           f \in files'[c] \/ (f = cgiPipe[c] /\ f \notin shut)
    BY DEF ClosedWith
  <2>2. \A c \in Conn : \A f \in Fd : f \in ClosedWith(c) <=> f \in files[c] \/ f = cgiPipe[c]
    BY DEF ClosedWith
  <2>3. ASSUME NEW c \in Conn, NEW f \in files'[c]
        PROVE  ~IsClient(f) /\ f \notin lost /\ f \notin page
               /\ \A d \in Conn : cgiPipe[d] = f => f \in shut
    <3>1. CASE c \in S
      <4>1. f \in Fd /\ (f \in openFds => f \in shut \/ \E d \in S : f \in files[d])
        BY <1>3, <3>1
      <4>2. CASE f \notin openFds
        BY <1>3, <3>1, <4>1, <4>2 DEF Ownership, ClosedWith
      <4>3. CASE f \in shut
        BY <1>2, <1>3, <3>1, <4>3
      <4>4. CASE \E d \in S : f \in files[d]
        BY <1>1, <1>3, <3>1, <4>1, <4>4 DEF Ownership, ClosedWith
      <4> QED
        BY <4>1, <4>2, <4>3, <4>4
    <3>2. CASE c \notin S
      <4>1. f \in files[c] /\ f \in openFds /\ f \in Fd
        BY <1>1, <1>4, <3>2
      <4>2. ~IsClient(f) /\ f \notin lost /\ \A d \in Conn : cgiPipe[d] # f
        BY <1>1, <4>1 DEF Ownership, ClosedWith
      <4>3. f \notin page
        <5>1. ASSUME f \in page PROVE FALSE
          <6>1. f \notin shut /\ \A d \in S : f \notin files[d]
            BY <1>10, <3>2, <4>1
          <6> QED
            BY <1>3, <4>1, <5>1, <6>1
        <5> QED
          BY <5>1
      <4> QED
        BY <4>2, <4>3
    <3> QED
      BY <3>1, <3>2
  <2>4. \A f \in page : f \in openFds => f \in shut \/ \E c \in Conn : f \in files[c]
    BY <1>3
  <2>5. ASSUME NEW f \in Fd
        PROVE  f \in openFds' <=> IsClient(f)' \/ f \in lost' \/ \E c \in Conn : f \in ClosedWith(c)'
    <3>1. ASSUME f \in openFds, f \notin shut, \A c \in S : f \notin files[c]
          PROVE  IsClient(f) \/ f \in lost \/ \E c \in Conn : f \in files'[c] \/ cgiPipe[c] = f
      BY <1>4, <2>2, <3>1 DEF Ownership
    <3>2. ASSUME f \in openFds' PROVE IsClient(f)' \/ f \in lost' \/ \E c \in Conn : f \in ClosedWith(c)'
      <4>1. CASE f \in openFds /\ f \notin shut /\ \A c \in S : f \notin files[c]
        BY <2>1, <3>1, <4>1
      <4>2. CASE f \in page \/ \E c \in S : f \in files'[c]
        BY <2>1, <4>2
      <4> QED
        BY <1>3, <3>2, <4>1, <4>2
    <3>3. IsClient(f) \/ f \in lost => f \in openFds'
      <4>1. IsClient(f) \/ f \in lost => f \in openFds /\ f \notin shut /\ \A c \in Conn : f \notin files[c]
        BY <1>2, <2>2 DEF Ownership
      <4> QED
        BY <1>3, <4>1
    <3>4. ASSUME NEW c \in Conn, f \in ClosedWith(c)' PROVE f \in openFds'
      <4>1. CASE f \in files'[c] /\ c \in S
        BY <1>3, <4>1
      <4>2. CASE f \in files'[c] /\ c \notin S
        <5>1. f \in files[c] /\ f \in openFds
          BY <1>1, <1>4, <4>2
        <5>2. f \notin shut /\ \A d \in S : f \notin files[d]
          BY <1>10, <4>2, <5>1
        <5> QED
          BY <1>3, <5>1, <5>2
      <4>3. CASE f = cgiPipe[c] /\ f \notin shut
        <5>1. f \in openFds
          BY <2>2, <4>3 DEF Ownership
        <5> QED
          BY <1>1, <1>3, <4>3, <5>1
      <4> QED
        BY <2>1, <3>4, <4>1, <4>2, <4>3
    <3> QED
      BY <3>2, <3>3, <3>4, <1>3
  <2>6. ASSUME NEW c \in Conn, NEW d \in Conn, NEW f \in Fd, f \in ClosedWith(c)', f \in ClosedWith(d)'
        PROVE  c = d
    <3>1. CASE f \in files'[c] /\ f \in files'[d]
      <4>1. ASSUME NEW a \in S, NEW b \in Conn \ S, f \in files'[a], f \in files[b] PROVE FALSE
        <5>1. f \in openFds /\ f \notin shut /\ \A e \in Conn : e # b => f \notin files[e]
          BY <1>10, <4>1
        <5> QED
          BY <1>3, <4>1, <5>1
      <4>2. CASE c \in S /\ d \in S
        BY <1>3, <3>1, <4>2
      <4>3. CASE c \notin S /\ d \notin S
        BY <1>4, <1>10, <3>1, <4>3
      <4>4. CASE c \in S /\ d \notin S
        BY <1>4, <3>1, <4>1, <4>4
      <4>5. CASE c \notin S /\ d \in S
        BY <1>4, <3>1, <4>1, <4>5
      <4> QED
        BY <4>2, <4>3, <4>4, <4>5
    <3>2. CASE f = cgiPipe[c] /\ f = cgiPipe[d]
      BY <2>2, <3>2 DEF Ownership
    <3> QED
      BY <2>1, <2>3, <2>6, <3>1, <3>2
  <2>7. ASSUME NEW c \in Conn, cgiPipe'[c] \in files'[c] PROVE FALSE
    <3>1. cgiPipe'[c] \in Fd
      BY <2>7
    <3>2. cgiPipe'[c] = cgiPipe[c] /\ cgiPipe[c] \notin shut
      BY <3>1
    <3> QED
      BY <2>3, <2>7, <3>2
  <2>8. ASSUME NEW c \in Conn, NEW f \in Fd, f \in ClosedWith(c)' PROVE ~IsClient(f)' /\ f \notin lost'
    <3>1. CASE f \in files'[c]
      BY <2>3, <3>1
    <3>2. CASE f = cgiPipe[c] /\ f \notin shut
      <4>1. f \in openFds /\ ~IsClient(f) /\ f \notin lost
        BY <2>2, <3>2 DEF Ownership
      <4>2. \A d \in Conn : f \notin files[d]
        BY <1>1, <3>2
      <4>3. f \notin page
        BY <2>4, <3>2, <4>1, <4>2
      <4> QED
        BY <4>1, <4>3
    <3> QED
      BY <2>1, <2>8, <3>1, <3>2
  <2>9. ASSUME NEW f \in lost' PROVE ~IsClient(f)'
    <3>1. CASE f \in lost
      BY <3>1 DEF Ownership
    <3>2. CASE f \in page
      BY <1>1, <1>2, <2>4, <3>2 DEF Ownership
    <3> QED
      BY <2>9, <3>1, <3>2
  <2> QED
    BY <2>5, <2>6, <2>7, <2>8, <2>9 DEF Ownership
<1> QED
  BY <1>6, <1>8, <1>9 DEF Sound

(* A handler that moves one connection on.                                  *)
LEMMA OneMovedSound ==
    ASSUME IInv, Sound, TypeOK', NEW c \in Conn, NEW w \in LiveState, NEW page \in Leaks,
           Descriptors({c}, {}, {}, page, {acceptFd[c]}), lost' = lost \cup page,
           state[c] # "FREED", w = state[c] \/ w \in {"PROCESSING", "WRITING"},
           state' = [state EXCEPT ![c] = w],
           fdEvents' = [fdEvents EXCEPT ![acceptFd[c]] = MaskOf(w)],
           UNCHANGED <<connections, acceptFd, cgiPipe, cgiPipeToConn>>,
           \A f \in Fd : batch'[f] # "none" => batch[f] # "none"
    PROVE  Sound'
<1>1. TypeOK
  BY DEF IInv
<1>2. {c} \in SUBSET Conn /\ {} \in SUBSET Fd /\ page \in SUBSET Fd /\ page \cap lost = {}
  BY DEF Leaks
<1>3. \A d \in Conn : state'[d] = IF d \in {c} THEN w ELSE state[d]
  BY <1>1 DEF TypeOK
<1>4. \A d \in Conn : state'[d] = "WAITING_FOR_CGI" => state[d] = "WAITING_FOR_CGI"
  BY <1>3
<1>5. \A f \in Fd : fdEvents'[f] = IF \E d \in {c} : acceptFd[d] = f THEN MaskOf(w)
                                   ELSE fdEvents[f]
  BY <1>1 DEF TypeOK
<1>6. Handled({c}, {c}, w, {}, {}, page, {acceptFd[c]})
  BY <1>2, <1>3, <1>4, <1>5 DEF Handled
<1> QED
  BY <1>2, <1>6, HandlerSound

(* The pipe of a new CGI child takes a number that is free, or that of a    *)
(* file its connection has just closed.                                    *)
LEMMA ProcessCgiSound ==
    ASSUME IInv, Sound, TypeOK', NEW c \in Conn, ProcessCgi(c)
    PROVE  Sound'
<1>0. TypeOK /\ ClientMap /\ PipeMap /\ Reachable /\ Interest /\ Ownership
  BY DEF IInv, Sound
<1>1. PICK p \in Fd :
         /\ Descriptors({c}, {}, {}, {p}, {acceptFd[c], p})
         /\ cgiPipe' = [cgiPipe EXCEPT ![c] = p]
         /\ cgiPipeToConn' = [cgiPipeToConn EXCEPT ![p] = c]
         /\ fdEvents' = [fdEvents EXCEPT ![acceptFd[c]] = "0", ![p] = "IN"]
  BY DEF ProcessCgi
<1>2. /\ pc = "rr" /\ c \in processingSet
      /\ state' = [state EXCEPT ![c] = "WAITING_FOR_CGI"]
      /\ UNCHANGED <<acceptFd, connections, batch, lost>>
  BY DEF ProcessCgi, BeginSlice, InPass
<1>3. openFds \subseteq Fd /\ epollSet \subseteq Fd /\ files \in [Conn -> SUBSET Fd]
  BY <1>0 DEF TypeOK
<1>4. {c} \in SUBSET Conn /\ {p} \in SUBSET Fd
  OBVIOUS
<1>5. /\ \A d \in Conn : files[d] \subseteq openFds
      /\ \A d \in Conn : \A f \in files[d] : f \notin epollSet /\ ~IsPipe(f) /\ ~IsClient(f)
      /\ \A d, e \in Conn : d # e => files[d] \cap files[e] = {}
      /\ \A d, e \in Conn : cgiPipe[d] \notin files[e]
  BY <1>0, FilesApart
<1>6. OwnFiles({c}, {})
  BY <1>5 DEF OwnFiles
<1>7. NewFiles({c}, {}, {}, {p}, {acceptFd[c], p})
  BY <1>1, <1>3, <1>4, <1>6, DescriptorsDisjoint
<1>8. \A d \in Conn : d # c => files'[d] = files[d]
  BY <1>0, <1>1, <1>4, OthersFiles
<1>9. /\ \A f \in Fd : f \in openFds' <=>
            (f \in openFds /\ f \notin files[c]) \/ f = p \/ f \in files'[c]
      /\ p \notin files'[c]
      /\ \A f \in files'[c] : f \in openFds => f \in files[c]
      /\ p \in openFds => p \in files[c]
      /\ \A f \in Fd : f \in epollSet' <=> f = acceptFd[c] \/ f = p \/ f \in epollSet
  BY <1>7 DEF NewFiles
<1> USE <1>0 DEF TypeOK, IsClient, IsPipe
<1>10. /\ state[c] = "PROCESSING" /\ cgiPipe[c] = NoFd
       /\ acceptFd[c] \in Fd /\ connections[acceptFd[c]] = c
  BY <1>2 DEF IInv, NoLostWakeup, ClientMap, Reachable
<1>11. /\ ~IsClient(p) /\ ~IsPipe(p) /\ p \notin lost /\ p \notin epollSet
       /\ \A d \in Conn : cgiPipe[d] # p /\ (d # c => p \notin files[d])
  <2>1. CASE p \in openFds
    <3>1. p \in files[c]
      BY <1>9, <2>1
    <3> QED
      BY <1>5, <3>1 DEF Ownership, ClosedWith
  <2>2. CASE p \notin openFds
    <3>1. ~IsClient(p) /\ p \notin lost /\ \A d \in Conn : p \notin ClosedWith(d)
      BY <2>2 DEF Ownership
    <3>2. \A d \in Conn : cgiPipe[d] # p /\ p \notin files[d]
      BY <3>1 DEF ClosedWith
    <3>3. ~IsPipe(p)
      BY <3>2 DEF PipeMap
    <3> QED
      BY <3>1, <3>2, <3>3 DEF Interest
  <2> QED
    BY <2>1, <2>2
<1>12. p # acceptFd[c]
  BY <1>10, <1>11
<1>13. /\ \A d \in Conn : cgiPipe'[d] = IF d = c THEN p ELSE cgiPipe[d]
       /\ \A f \in Fd : cgiPipeToConn'[f] = IF f = p THEN c ELSE cgiPipeToConn[f]
       /\ \A d \in Conn : state'[d] = IF d = c THEN "WAITING_FOR_CGI" ELSE state[d]
       /\ \A f \in Fd : fdEvents'[f] = IF f = p THEN "IN" ELSE
                                       IF f = acceptFd[c] THEN "0" ELSE fdEvents[f]
  BY <1>1, <1>2, <1>10
<1>14. batch' = NoEvents
  BY <1>2 DEF IInv, BatchOver
<1>15. Reachable'
  <2>1. ASSUME NEW d \in Conn, state'[d] # "FREED" PROVE connections'[acceptFd'[d]] = d
    BY <1>2, <1>10, <1>13, <2>1 DEF Reachable
  <2>2. ASSUME NEW d \in Conn, state'[d] = "WAITING_FOR_CGI"
        PROVE  cgiPipe'[d] \in Fd /\ cgiPipeToConn'[cgiPipe'[d]] = d
    <3>1. CASE d = c
      BY <1>13, <3>1
    <3>2. CASE d # c
      <4>1. state[d] = "WAITING_FOR_CGI" /\ cgiPipe'[d] = cgiPipe[d] /\ cgiPipe[d] # p
        BY <1>11, <1>13, <2>2, <3>2
      <4>2. cgiPipe[d] \in Fd /\ cgiPipeToConn[cgiPipe[d]] = d
        BY <4>1 DEF Reachable
      <4> QED
        BY <1>13, <4>1, <4>2
    <3> QED
      BY <3>1, <3>2
  <2>3. ASSUME NEW d \in Conn, cgiPipe'[d] # NoFd PROVE batch'[cgiPipe'[d]] = "none"
    <3>1. cgiPipe'[d] \in Fd
      BY <2>3
    <3> QED
      BY <1>14, <3>1 DEF NoEvents
  <2> QED
    BY <2>1, <2>2, <2>3 DEF Reachable
<1>16. Interest'
  <2>1. \A f \in Fd : f \in epollSet' <=> IsClient(f)' \/ IsPipe(f)'
    BY <1>2, <1>9, <1>10, <1>13 DEF Interest
  <2>2. \A f \in Fd : fdEvents'[f] = "unregistered" <=> f \notin epollSet'
    BY <1>9, <1>13 DEF Interest
  <2>3. ASSUME NEW d \in Conn, state'[d] # "FREED" PROVE fdEvents'[acceptFd'[d]] = MaskOf(state'[d])
    <3>1. CASE d = c
      BY <1>2, <1>10, <1>12, <1>13, <3>1 DEF MaskOf
    <3>2. CASE d # c
      <4>1. state'[d] = state[d] /\ acceptFd'[d] = acceptFd[d] /\ state[d] # "FREED"
        BY <1>2, <1>13, <2>3, <3>2
      <4>2. acceptFd[d] \in Fd /\ connections[acceptFd[d]] = d
        BY <4>1 DEF ClientMap, Reachable
      <4>3. acceptFd[d] # acceptFd[c] /\ acceptFd[d] # p
        BY <1>10, <1>11, <3>2, <4>2
      <4> QED
        BY <1>13, <4>1, <4>2, <4>3 DEF Interest, MaskMatchesState
    <3> QED
      BY <3>1, <3>2
  <2> QED
    BY <2>1, <2>2, <2>3 DEF Interest, MaskMatchesState
<1>17. Ownership'
  <2>1. \A d \in Conn : \A f \in Fd : f \in ClosedWith(d)' <=>
           IF d = c THEN f \in files'[c] \/ f = p ELSE f \in ClosedWith(d)
    BY <1>8, <1>13 DEF ClosedWith
  <2>2. \A d \in Conn : \A f \in Fd : f \in ClosedWith(d) <=> f \in files[d] \/ f = cgiPipe[d]
    BY DEF ClosedWith
  <2>3. ASSUME NEW f \in files'[c]
        PROVE  f \in Fd /\ ~IsClient(f) /\ f \notin lost /\ \A d \in Conn : d # c => f \notin ClosedWith(d)
    <3>1. f \in Fd
      OBVIOUS
    <3>2. CASE f \in openFds
      <4>1. f \in files[c]
        BY <1>9, <3>2
      <4> QED
        BY <1>5, <2>2, <3>1, <4>1 DEF Ownership
    <3>3. CASE f \notin openFds
      BY <3>1, <3>3 DEF Ownership
    <3> QED
      BY <3>1, <3>2, <3>3
  <2>4. ASSUME NEW f \in Fd
        PROVE  f \in openFds' <=> IsClient(f)' \/ f \in lost' \/ \E d \in Conn : f \in ClosedWith(d)'
    <3>1. f \in openFds /\ f \notin files[c] <=>
             IsClient(f) \/ f \in lost \/ \E d \in Conn : d # c /\ f \in ClosedWith(d)
      <4>1. f \in openFds <=> IsClient(f) \/ f \in lost \/ \E d \in Conn : f \in ClosedWith(d)
        BY DEF Ownership
      <4>2. f \in ClosedWith(c) <=> f \in files[c]
        BY <1>10, <2>2
      <4>3. f \in files[c] => ~IsClient(f) /\ f \notin lost /\ \A d \in Conn : d # c => f \notin ClosedWith(d)
        BY <2>2 DEF Ownership
      <4> QED
        BY <4>1, <4>2, <4>3
    <3>2. IsClient(f)' <=> IsClient(f)
      BY <1>2
    <3> QED
      BY <1>2, <1>9, <2>1, <3>1, <3>2
  <2>5. ASSUME NEW d \in Conn, NEW e \in Conn, NEW f \in Fd, f \in ClosedWith(d)', f \in ClosedWith(e)'
        PROVE  d = e
    <3>1. CASE d # c /\ e # c
      BY <2>1, <2>5, <3>1 DEF Ownership
    <3>2. \A g \in Conn : g # c => p \notin ClosedWith(g)
      BY <1>11, <2>2
    <3>3. \A g \in Conn : g # c => f \notin ClosedWith(g) \/ f \notin ClosedWith(c)'
      <4>1. f \in ClosedWith(c)' => f \in files'[c] \/ f = p
        BY <2>1
      <4> QED
        BY <2>3, <3>2, <4>1
    <3> QED
      BY <2>1, <2>5, <3>1, <3>3
  <2>6. ASSUME NEW d \in Conn PROVE cgiPipe'[d] \notin files'[d]
    <3>1. CASE d = c
      BY <1>9, <1>13, <3>1
    <3>2. CASE d # c
      BY <1>8, <1>13, <3>2 DEF Ownership
    <3> QED
      BY <3>1, <3>2
  <2>7. ASSUME NEW d \in Conn, NEW f \in Fd, f \in ClosedWith(d)' PROVE ~IsClient(f)' /\ f \notin lost'
    BY <1>2, <1>11, <2>1, <2>3, <2>7 DEF Ownership
  <2>8. \A f \in lost' : ~IsClient(f)'
    BY <1>2 DEF Ownership
  <2> QED
    BY <2>4, <2>5, <2>6, <2>7, <2>8 DEF Ownership
<1> QED
  BY <1>15, <1>16, <1>17 DEF Sound

(* _sweepTimeouts moves the connections it times out, whatever their state. *)
LEMMA SweepTimeoutsSound ==
    ASSUME IInv, Sound, TypeOK', SweepTimeouts
    PROVE  Sound'
<1>0. TypeOK /\ ClientMap /\ BatchOver /\ Reachable
  BY DEF IInv, Sound
<1>1. UNCHANGED <<connections, acceptFd, cgiPipe, cgiPipeToConn, batch, lost, stray>>
  BY DEF SweepTimeouts
<1>2. CASE sweepAge < SWEEP_INTERVAL_S
  BY <1>0, <1>1, <1>2, QuietSound DEF SweepTimeouts, kernelVars
<1>3. CASE ~(sweepAge < SWEEP_INTERVAL_S)
  <2>1. /\ state' = [c \in Conn |-> IF c \in TimedOut THEN "WRITING" ELSE state[c]]
        /\ fdEvents' = [f \in Fd |-> IF connections[f] \in TimedOut
                                     THEN MaskOf("WRITING") ELSE fdEvents[f]]
        /\ Descriptors(TimedOut, {}, {}, {}, {acceptFd[c] : c \in TimedOut})
    BY <1>3 DEF SweepTimeouts
  <2>2. TimedOut \in SUBSET Conn /\ {} \in SUBSET Fd /\ "WRITING" \in LiveState
    BY DEF TimedOut, LiveState
  <2>3. \A c \in TimedOut : state[c] # "FREED"
    BY <1>0, TimedOutLive
  <2>4. ASSUME NEW f \in Fd
        PROVE  connections[f] \in TimedOut <=> \E c \in TimedOut : acceptFd[c] = f
    <3>1. connections[f] \in TimedOut => acceptFd[connections[f]] = f
      BY <1>0, <2>2 DEF ClientMap, IsClient
    <3>2. \A c \in TimedOut : acceptFd[c] = f => connections[f] = c
      BY <1>0, <2>2, <2>3 DEF Reachable
    <3> QED
      BY <3>1, <3>2
  <2>5. \A f \in Fd : fdEvents'[f] = IF \E c \in TimedOut : acceptFd[c] = f
                                     THEN MaskOf("WRITING") ELSE fdEvents[f]
    BY <2>1, <2>4
  <2>6. /\ \A c \in Conn : state'[c] = IF c \in TimedOut THEN "WRITING" ELSE state[c]
        /\ \A c \in Conn : state'[c] = "WAITING_FOR_CGI" => state[c] = "WAITING_FOR_CGI"
    BY <2>1
  <2>7. Handled(TimedOut, TimedOut, "WRITING", {}, {}, {}, {acceptFd[c] : c \in TimedOut})
    BY <1>1, <2>1, <2>3, <2>5, <2>6 DEF Handled
  <2> QED
    BY <2>2, <2>7, HandlerSound
<1> QED
  BY <1>2, <1>3

(* _sweepCgiTimeouts closes the pipes that are overdue, each its            *)
(* connection's.                                                           *)
LEMMA SweepCgiSound ==
    ASSUME IInv, Sound, TypeOK', SweepCgiTimeouts
    PROVE  Sound'
<1>0. TypeOK /\ PipeMap /\ BatchOver /\ Reachable
  BY DEF IInv, Sound
<1>1. PICK killed : killed = {cgiPipeToConn[p] : p \in CgiExpired}
  OBVIOUS
<1>2. /\ pc = "sweepCgi"
      /\ state' = [c \in Conn |-> IF c \in killed THEN "WRITING" ELSE state[c]]
      /\ cgiPipe' = [c \in Conn |-> IF c \in killed THEN NoFd ELSE cgiPipe[c]]
      /\ cgiPipeToConn' = [p \in Fd |-> IF p \in CgiExpired THEN NoConn ELSE cgiPipeToConn[p]]
      /\ fdEvents' = [f \in Fd |-> IF f \in CgiExpired THEN "unregistered"
                                   ELSE IF \E c \in killed : acceptFd[c] = f
                                   THEN MaskOf("WRITING") ELSE fdEvents[f]]
      /\ Descriptors(killed, CgiExpired, CgiExpired, {}, {acceptFd[c] : c \in killed})
      /\ UNCHANGED <<connections, acceptFd, batch, lost>>
  BY <1>1 DEF SweepCgiTimeouts
<1>3. /\ killed \in SUBSET Conn /\ CgiExpired \in SUBSET Fd
      /\ {} \in SUBSET Fd /\ "WRITING" \in LiveState
  BY <1>0, <1>1 DEF CgiExpired, TypeOK, LiveState
<1>4. \A c \in killed : state[c] # "FREED"
  BY <1>0, <1>1, CgiConnLive DEF CgiExpired
<1>5. \A p \in CgiExpired : IsPipe(p)
  BY DEF CgiExpired, IsPipe
<1>6. \A c \in Conn : cgiPipe[c] \in CgiExpired <=> c \in killed
  <2>1. ASSUME NEW c \in killed PROVE cgiPipe[c] \in CgiExpired
    <3>1. PICK p \in CgiExpired : c = cgiPipeToConn[p]
      BY <1>1
    <3> QED
      BY <1>0, <1>3, <3>1, CgiConnLive DEF CgiExpired
  <2>2. ASSUME NEW c \in Conn, cgiPipe[c] \in CgiExpired PROVE c \in killed
    <3>1. PICK d \in Conn : d = cgiPipeToConn[cgiPipe[c]]
      BY <1>0, <2>2 DEF CgiExpired, TypeOK
    <3>2. cgiPipe[d] = cgiPipe[c] /\ cgiPipe[c] \in Fd
      BY <1>0, <2>2, <3>1, CgiConnLive DEF CgiExpired
    <3>3. c = d
      BY <3>2 DEF Sound, Ownership, ClosedWith
    <3> QED
      BY <1>1, <2>2, <3>1, <3>3
  <2> QED
    BY <1>3, <2>1, <2>2
<1>7. /\ \A c \in Conn : state'[c] = IF c \in killed THEN "WRITING" ELSE state[c]
      /\ \A c \in Conn : cgiPipe'[c] = IF cgiPipe[c] \in CgiExpired THEN NoFd ELSE cgiPipe[c]
  BY <1>2, <1>6
<1>8. \A c \in Conn : state'[c] = "WAITING_FOR_CGI" =>
         state[c] = "WAITING_FOR_CGI" /\ cgiPipe[c] \notin CgiExpired
  BY <1>6, <1>7
<1>9. \A f \in Fd : batch'[f] = "none"
  BY <1>0, <1>2 DEF BatchOver, NoEvents
<1>10. Handled(killed, killed, "WRITING", CgiExpired, CgiExpired, {}, {acceptFd[c] : c \in killed})
  BY <1>2, <1>4, <1>5, <1>7, <1>8, <1>9 DEF Handled
<1> QED
  BY <1>3, <1>10, HandlerSound

(* An event of a registered pipe: the page is built and the pipe closed, or*)
(* only unregistered, or more output is stored.                            *)
LEMMA CgiPipeSound ==
    ASSUME IInv, Sound, TypeOK', NEW p \in Fd, CgiPipeDone(p) \/ CgiPipeMore(p) \/ CgiPipeThrow(p)
    PROVE  Sound'
<1>0. TypeOK /\ PipeMap
  BY DEF IInv
<1>1. PICK c \in Conn : c = cgiPipeToConn[p]
  BY <1>0 DEF CgiPipeDone, CgiPipeMore, CgiPipeThrow, IsCgiPipe, TypeOK
<1>2. pc = "dispatch" /\ IsPipe(p) /\ batch' = [batch EXCEPT ![p] = "none"]
  BY DEF CgiPipeDone, CgiPipeMore, CgiPipeThrow, IsCgiPipe, TakeEvent, IsPipe
<1>3. cgiPipe[c] = p /\ state[c] = "WAITING_FOR_CGI"
  BY <1>0, <1>1, <1>2, CgiConnLive DEF IsPipe
<1>4. \A f \in Fd : batch'[f] # "none" => batch[f] # "none" /\ f # p
  BY <1>0, <1>2 DEF TypeOK
<1>5. \A d \in Conn : cgiPipe[d] = p <=> d = c
  BY <1>3 DEF Sound, Ownership, ClosedWith
<1>6. /\ {c} \in SUBSET Conn /\ {} \in SUBSET Conn /\ {p} \in SUBSET Fd /\ {} \in SUBSET Fd
      /\ "WRITING" \in LiveState
  BY DEF LiveState
<1>7. CASE CgiPipeDone(p) \/ CgiPipeThrow(p)
  <2>1. /\ cgiPipeToConn' = [cgiPipeToConn EXCEPT ![p] = NoConn]
        /\ state' = [state EXCEPT ![c] = "WRITING"]
        /\ fdEvents' = [fdEvents EXCEPT ![p] = "unregistered",
                                        ![acceptFd[c]] = MaskOf("WRITING")]
        /\ UNCHANGED <<connections, acceptFd, lost>>
    BY <1>1, <1>7 DEF CgiPipeDone, CgiPipeThrow
  <2>2. /\ \A d \in Conn : state'[d] = IF d \in {c} THEN "WRITING" ELSE state[d]
        /\ \A q \in Fd : cgiPipeToConn'[q] = IF q \in {p} THEN NoConn ELSE cgiPipeToConn[q]
    BY <1>0, <2>1 DEF TypeOK
  <2>3. \A d \in Conn : state'[d] = "WAITING_FOR_CGI" =>
           state[d] = "WAITING_FOR_CGI" /\ cgiPipe[d] \notin {p}
    BY <1>5, <2>2
  <2>4. p # acceptFd[c]
    BY <1>2, <1>3 DEF Sound, Reachable, Ownership, IsClient, ClosedWith
  <2>5. \A f \in Fd : fdEvents'[f] = IF f \in {p} THEN "unregistered"
                                     ELSE IF \E d \in {c} : acceptFd[d] = f
                                     THEN MaskOf("WRITING") ELSE fdEvents[f]
    BY <1>0, <2>1, <2>4 DEF TypeOK
  <2>6. CASE CgiPipeDone(p)
    <3>1. Descriptors({c}, {p}, {p}, {}, {acceptFd[c]}) /\ cgiPipe' = [cgiPipe EXCEPT ![c] = NoFd]
      BY <1>1, <2>6 DEF CgiPipeDone
    <3>2. \A d \in Conn : cgiPipe'[d] = IF cgiPipe[d] \in {p} THEN NoFd ELSE cgiPipe[d]
      BY <1>0, <1>5, <3>1 DEF TypeOK
    <3>3. Handled({c}, {c}, "WRITING", {p}, {p}, {}, {acceptFd[c]})
      BY <1>2, <1>3, <1>4, <2>1, <2>2, <2>3, <2>5, <3>1, <3>2 DEF Handled
    <3> QED
      BY <1>6, <3>3, HandlerSound
  <2>7. CASE CgiPipeThrow(p)
    <3>1. Descriptors({c}, {}, {p}, {}, {acceptFd[c]}) /\ cgiPipe' = cgiPipe
      BY <1>1, <2>7 DEF CgiPipeThrow
    <3>3. Handled({c}, {c}, "WRITING", {}, {p}, {}, {acceptFd[c]})
      BY <1>2, <1>3, <1>4, <2>1, <2>2, <2>3, <2>5, <3>1 DEF Handled
    <3> QED
      BY <1>6, <3>3, HandlerSound
  <2> QED
    BY <1>7, <2>6, <2>7
<1>8. CASE CgiPipeMore(p)
  <2>1. /\ Descriptors({c}, {}, {}, {}, {})
        /\ UNCHANGED <<connections, acceptFd, lost, state, cgiPipe, cgiPipeToConn, fdEvents>>
    BY <1>1, <1>8 DEF CgiPipeMore, serverVars, connVars
  <2>2. Handled({c}, {}, "WRITING", {}, {}, {}, {})
    BY <1>4, <2>1 DEF Handled
  <2> QED
    BY <1>6, <2>2, HandlerSound
<1> QED
  BY <1>7, <1>8

(* Descriptors, interest list and maps stay in order until a hang-up closes *)
(* a file.                                                                 *)
LEMMA SoundStep ==
    ASSUME IInv, Sound, TypeOK', [Next]_vars, ~stray'
    PROVE  Sound'
<1>0. TypeOK /\ ClientMap /\ NoLostWakeup /\ PipeMap /\ BatchOver /\ Reachable
  BY DEF IInv, Sound
<1> USE <1>0 DEF loopVars, serverVars, connVars, kernelVars
<1>1. CASE StartIteration
  BY <1>1, QuietSound DEF StartIteration
<1>2. CASE Shutdown
  <2>1. {} \in SUBSET Fd
    OBVIOUS
  <2> QED
    BY <1>2, <2>1, CloseAllSound DEF Shutdown
<1>3. CASE EpollWait
  BY <1>3, EpollWaitSound
<1>4. CASE EndDispatch
  BY <1>4, QuietSound DEF EndDispatch
<1>5. CASE SkipStale
  BY <1>5, QuietSound DEF SkipStale
<1>6. ASSUME NEW c \in Conn, ProcessMore(c) PROVE Sound'
  <2>1. /\ Descriptors({c}, {}, {}, {}, {})
        /\ UNCHANGED <<connections, acceptFd, lost, state, cgiPipe, cgiPipeToConn, fdEvents, batch>>
    BY <1>6 DEF ProcessMore, BeginSlice
  <2>2. {c} \in SUBSET Conn /\ {} \in SUBSET Conn /\ {} \in SUBSET Fd /\ "WRITING" \in LiveState
    BY DEF LiveState
  <2>3. Handled({c}, {}, "WRITING", {}, {}, {}, {})
    BY <2>1 DEF Handled
  <2> QED
    BY <2>2, <2>3, HandlerSound
<1>7. ASSUME NEW c \in Conn, ProcessDone(c) PROVE Sound'
  <2>1. PICK page \in Leaks : /\ Descriptors({c}, {}, {}, page, {acceptFd[c]})
                              /\ lost' = lost \cup page
    BY <1>7 DEF ProcessDone
  <2>2. /\ state[c] = "PROCESSING" /\ state' = [state EXCEPT ![c] = "WRITING"]
        /\ fdEvents' = [fdEvents EXCEPT ![acceptFd[c]] = MaskOf("WRITING")]
        /\ UNCHANGED <<connections, acceptFd, cgiPipe, cgiPipeToConn, batch>>
    BY <1>7 DEF ProcessDone, BeginSlice, SetState, NoLostWakeup
  <2> QED
    BY <2>1, <2>2, OneMovedSound DEF LiveState
<1>8. ASSUME NEW c \in Conn, ProcessCgi(c) PROVE Sound'
  BY <1>8, ProcessCgiSound
<1>9. CASE EndRoundRobin
  BY <1>9, QuietSound DEF EndRoundRobin
<1>10. CASE SweepTimeouts
  BY <1>10, SweepTimeoutsSound
<1>11. CASE SweepCgiTimeouts
  BY <1>11, SweepCgiSound
<1>12. ASSUME NEW p \in Fd, CgiPipeDone(p) PROVE Sound'
  BY <1>12, CgiPipeSound
<1>13. ASSUME NEW p \in Fd, CgiPipeMore(p) PROVE Sound'
  BY <1>13, CgiPipeSound
<1>14. ASSUME NEW p \in Fd, CgiPipeThrow(p) PROVE Sound'
  BY <1>14, CgiPipeSound
<1>15. ASSUME NEW f \in Fd \cup {ListenFd}, DispatchHup(f) PROVE Sound'
  <2>1. /\ batch[f] # "none" /\ batch' = [batch EXCEPT ![f] = "none"]
        /\ f \in Fd => ~IsPipe(f)
        /\ \/ f = ListenFd /\ UNCHANGED <<serverVars, queueVars, connVars, kernelVars>>
           \/ f # ListenFd /\ connections[f] # NoConn /\ DropOwned(f, connections[f])
           \/ f # ListenFd /\ connections[f] = NoConn /\ DropUnknown(f)
    BY <1>15 DEF DispatchHup, TakeEvent, IsCgiPipe, IsPipe
  <2>2. CASE f = ListenFd
    <3>1. \A g \in Fd : batch'[g] # "none" => batch[g] # "none"
      BY <2>1, <2>2 DEF TypeOK
    <3> QED
      BY <2>1, <2>2, <3>1, QuietSound
  <2>3. CASE f # ListenFd /\ connections[f] # NoConn
    <3>1. f \in Fd /\ connections[f] \in Conn /\ DropOwned(f, connections[f])
      BY <2>1, <2>3 DEF TypeOK
    <3> QED
      BY <2>1, <3>1, DropOwnedSound
  <2>4. CASE f # ListenFd /\ connections[f] = NoConn
    <3>1. f \in Fd /\ DropUnknown(f) /\ ~IsClient(f)
      BY <2>1, <2>4 DEF IsClient
    <3> QED
      BY <2>1, <3>1, DropUnknownSound
  <2> QED
    BY <2>2, <2>3, <2>4
<1>16. ASSUME NEW f \in Fd, DispatchNobody(f) PROVE Sound'
  <2>1. \A g \in Fd : batch'[g] # "none" => batch[g] # "none"
    BY <1>16 DEF DispatchNobody, TakeEvent, TypeOK
  <2> QED
    BY <1>16, <2>1, QuietSound DEF DispatchNobody
<1>17. ASSUME NEW f \in Fd, HandleConnection(f) PROVE Sound'
  <2>1. PICK c \in Conn :
              /\ connections[f] = c /\ acceptFd[c] = f /\ ~IsPipe(f)
              /\ pc = "dispatch" /\ pc' = pc
              /\ batch' = [batch EXCEPT ![f] = "none"]
              /\ \/ DropOwned(f, c)
                 \/ \E w \in LiveState : Advance(c, w)
    BY <1>17, HandleConnectionCases
  <2>2. CASE DropOwned(f, c)
    BY <2>1, <2>2, DropOwnedSound
  <2>3. CASE ~DropOwned(f, c)
    <3>1. PICK w \in LiveState : Advance(c, w)
      BY <2>1, <2>3
    <3>2. PICK page \in Leaks : /\ Descriptors({c}, {}, {}, page, {acceptFd[c]})
                                /\ lost' = lost \cup page
      BY <3>1 DEF Advance
    <3>3. /\ state' = [state EXCEPT ![c] = w]
          /\ w = state[c] \/ w \in {"PROCESSING", "WRITING"}
          /\ fdEvents' = [fdEvents EXCEPT ![acceptFd[c]] = MaskOf(w)]
          /\ UNCHANGED <<connections, acceptFd, cgiPipe, cgiPipeToConn>>
      BY <3>1 DEF SetState, Advance
    <3>4. state[c] # "FREED"
      BY <2>1 DEF ClientMap
    <3>5. \A g \in Fd : batch'[g] # "none" => batch[g] # "none"
      BY <2>1 DEF TypeOK
    <3> QED
      BY <3>2, <3>3, <3>4, <3>5, OneMovedSound
  <2> QED
    BY <2>2, <2>3
<1>18. CASE DispatchListen
  <2>1. \A g \in Fd : batch'[g] # "none" => batch[g] # "none"
    BY <1>18 DEF DispatchListen, TakeEvent, TypeOK
  <2> QED
    BY <1>18, <2>1, QuietSound DEF DispatchListen
<1>19. ASSUME NEW c \in Conn, NEW f \in Fd, Accept(c, f) PROVE Sound'
  BY <1>19, AcceptSound
<1>20. CASE AcceptDone
  BY <1>20, QuietSound DEF AcceptDone
<1>21. CASE EscapedException
  <2>1. PICK left \in Leaks : CloseAllFds(left)
    BY <1>21 DEF EscapedException
  <2> QED
    BY <2>1, LeaksType, CloseAllSound
<1>22. CASE Signal
  BY <1>22, QuietSound DEF Signal
<1>23. CASE Tick
  BY <1>23, QuietSound DEF Tick
<1>24. CASE UNCHANGED vars
  BY <1>24, QuietSound DEF vars
<1> QED
  BY <1>1, <1>2, <1>3, <1>4, <1>5, <1>6, <1>7, <1>8, <1>9, <1>10, <1>11, <1>12, <1>13, <1>14, <1>15, <1>16, <1>17, <1>18, <1>19, <1>20, <1>21, <1>22, <1>23, <1>24
  DEF Next, Server, LoopStep, RoundRobinStep, SweepStep, DispatchStep

(* Whatever handler runs, and for whatever event, it moves a connection    *)
(* along the life cycle of Connection.hpp or leaves it alone.              *)
LEMMA LifecycleStep ==
    ASSUME IInv, [Next]_vars
    PROVE  [Lifecycle!Next]_state
<1> USE DEF IInv, loopVars, serverVars, queueVars, connVars, kernelVars
<1>1. CASE StartIteration
  BY <1>1 DEF StartIteration
<1>2. CASE Shutdown
  BY <1>2 DEF Shutdown, CloseAllFds, Lifecycle!Next, Lifecycle!CloseAll
<1>3. CASE EpollWait
  BY <1>3 DEF EpollWait
<1>4. CASE EndDispatch
  BY <1>4 DEF EndDispatch
<1>5. CASE SkipStale
  BY <1>5 DEF SkipStale
<1>6. ASSUME NEW c \in Conn, ProcessMore(c) PROVE [Lifecycle!Next]_state
  BY <1>6 DEF ProcessMore, BeginSlice
<1>7. ASSUME NEW c \in Conn, ProcessDone(c) PROVE [Lifecycle!Next]_state
  <2>1. state[c] = "PROCESSING" /\ state' = [state EXCEPT ![c] = "WRITING"]
    BY <1>7 DEF ProcessDone, BeginSlice, NoLostWakeup, SetState
  <2>2. Lifecycle!Answer(c)
    BY <2>1 DEF Lifecycle!Answer, Lifecycle!Move
  <2> QED
    BY <2>2 DEF Lifecycle!Next
<1>8. ASSUME NEW c \in Conn, ProcessCgi(c) PROVE [Lifecycle!Next]_state
  <2>1. state[c] = "PROCESSING" /\ state' = [state EXCEPT ![c] = "WAITING_FOR_CGI"]
    BY <1>8 DEF ProcessCgi, BeginSlice, NoLostWakeup
  <2>2. Lifecycle!RunCgi(c)
    BY <2>1 DEF Lifecycle!RunCgi, Lifecycle!Move
  <2> QED
    BY <2>2 DEF Lifecycle!Next
<1>9. CASE EndRoundRobin
  BY <1>9 DEF EndRoundRobin
<1>10. CASE SweepTimeouts
  <2>1. CASE sweepAge < SWEEP_INTERVAL_S
    BY <1>10, <2>1 DEF SweepTimeouts
  <2>2. CASE ~(sweepAge < SWEEP_INTERVAL_S)
    <3>1. state' = [c \in Conn |-> IF c \in TimedOut THEN "WRITING" ELSE state[c]]
      BY <1>10, <2>2 DEF SweepTimeouts
    <3>2. TimedOut \in SUBSET Conn /\ \A c \in TimedOut : state[c] \in Lifecycle!LivePhase
      BY TimedOutLive DEF TypeOK, ConnState, LiveState, Lifecycle!LivePhase
    <3>3. Lifecycle!AnswerAll(TimedOut)
      BY <3>1, <3>2 DEF Lifecycle!AnswerAll
    <3> QED
      BY <3>2, <3>3 DEF Lifecycle!Next
  <2> QED
    BY <2>1, <2>2
<1>11. CASE SweepCgiTimeouts
  <2>1. PICK killed : killed = {cgiPipeToConn[p] : p \in CgiExpired}
    OBVIOUS
  <2>2. state' = [c \in Conn |-> IF c \in killed THEN "WRITING" ELSE state[c]]
    BY <1>11, <2>1 DEF SweepCgiTimeouts
  <2>3. killed \in SUBSET Conn /\ \A c \in killed : state[c] \in Lifecycle!LivePhase
    BY <2>1 DEF TypeOK, PipeMap, IsPipe, CgiExpired, Lifecycle!LivePhase
  <2>4. Lifecycle!AnswerAll(killed)
    BY <2>2, <2>3 DEF Lifecycle!AnswerAll
  <2> QED
    BY <2>3, <2>4 DEF Lifecycle!Next
<1>12. ASSUME NEW p \in Fd, CgiPipeDone(p) PROVE [Lifecycle!Next]_state
  <2>1. PICK c \in Conn : c = cgiPipeToConn[p]
    BY <1>12 DEF CgiPipeDone, IsCgiPipe, TypeOK
  <2>2. state[c] = "WAITING_FOR_CGI" /\ state' = [state EXCEPT ![c] = "WRITING"]
    BY <1>12, <2>1 DEF CgiPipeDone, IsCgiPipe, TakeEvent, PipeMap, IsPipe
  <2>3. Lifecycle!Answer(c)
    BY <2>2 DEF Lifecycle!Answer, Lifecycle!Move
  <2> QED
    BY <2>3 DEF Lifecycle!Next
<1>13. ASSUME NEW p \in Fd, CgiPipeMore(p) PROVE [Lifecycle!Next]_state
  BY <1>13 DEF CgiPipeMore
<1>14. ASSUME NEW p \in Fd, CgiPipeThrow(p) PROVE [Lifecycle!Next]_state
  <2>1. PICK c \in Conn : c = cgiPipeToConn[p]
    BY <1>14 DEF CgiPipeThrow, IsCgiPipe, TypeOK
  <2>2. state[c] = "WAITING_FOR_CGI" /\ state' = [state EXCEPT ![c] = "WRITING"]
    BY <1>14, <2>1 DEF CgiPipeThrow, IsCgiPipe, TakeEvent, PipeMap, IsPipe
  <2>3. Lifecycle!Answer(c)
    BY <2>2 DEF Lifecycle!Answer, Lifecycle!Move
  <2> QED
    BY <2>3 DEF Lifecycle!Next
<1>15. ASSUME NEW f \in Fd \cup {ListenFd}, DispatchHup(f) PROVE [Lifecycle!Next]_state
  <2>1. CASE UNCHANGED state
    BY <2>1
  <2>2. CASE ~UNCHANGED state
    <3>1. f \in Fd /\ connections[f] # NoConn /\ DropOwned(f, connections[f])
      BY <1>15, <2>2 DEF DispatchHup, DropUnknown
    <3>2. PICK c \in Conn : c = connections[f]
      BY <3>1 DEF TypeOK
    <3>3. state[c] \in Lifecycle!LivePhase /\ state' = [state EXCEPT ![c] = "FREED"]
      BY <3>1, <3>2 DEF DropOwned, TypeOK, ClientMap, IsClient, ConnState, LiveState, Lifecycle!LivePhase
    <3>4. Lifecycle!Close(c)
      BY <3>3 DEF Lifecycle!Close, Lifecycle!Move
    <3> QED
      BY <3>4 DEF Lifecycle!Next
  <2> QED
    BY <2>1, <2>2
<1>16. ASSUME NEW f \in Fd, DispatchNobody(f) PROVE [Lifecycle!Next]_state
  BY <1>16 DEF DispatchNobody
<1>17. ASSUME NEW f \in Fd, HandleConnection(f) PROVE [Lifecycle!Next]_state
  <2>1. PICK c \in Conn :
              /\ connections[f] = c /\ acceptFd[c] = f /\ ~IsPipe(f)
              /\ pc = "dispatch" /\ pc' = pc
              /\ batch' = [batch EXCEPT ![f] = "none"]
              /\ UNCHANGED <<g_running, processed, sweepAge>>
              /\ \/ DropOwned(f, c)
                 \/ \E w \in LiveState : Advance(c, w)
    BY <1>17, HandleConnectionCases
  <2>2. CASE DropOwned(f, c)
    <3>0. state[c] # "FREED"
      BY <2>1 DEF TypeOK, ClientMap, IsClient
    <3>1. state[c] \in Lifecycle!LivePhase /\ state' = [state EXCEPT ![c] = "FREED"]
      BY <3>0, <2>2 DEF DropOwned, TypeOK, ConnState, LiveState, Lifecycle!LivePhase
    <3>2. Lifecycle!Close(c)
      BY <3>1 DEF Lifecycle!Close, Lifecycle!Move
    <3> QED
      BY <3>2 DEF Lifecycle!Next
  <2>3. CASE ~DropOwned(f, c)
    <3>1. PICK w \in LiveState : Advance(c, w)
      BY <2>1, <2>3
    <3> QED
      <4>1. state' = [state EXCEPT ![c] = w]
        BY <3>1 DEF SetState, Advance
      <4>2. CASE w = state[c]
        BY <4>1, <4>2 DEF TypeOK
      <4>3. CASE state[c] = "READING" /\ w = "PROCESSING"
        <5>1. Lifecycle!Receive(c)
          BY <4>1, <4>3 DEF Lifecycle!Receive, Lifecycle!Move
        <5> QED
          BY <5>1 DEF Lifecycle!Next
      <4>4. CASE state[c] = "READING" /\ w = "WRITING"
        <5>1. Lifecycle!Answer(c)
          BY <4>1, <4>4 DEF Lifecycle!Answer, Lifecycle!Move
        <5> QED
          BY <5>1 DEF Lifecycle!Next
      <4> QED
        BY <3>1, <4>2, <4>3, <4>4 DEF Advance
  <2> QED
    BY <2>2, <2>3
<1>18. CASE DispatchListen
  BY <1>18 DEF DispatchListen
<1>19. ASSUME NEW c \in Conn, NEW f \in Fd, Accept(c, f) PROVE [Lifecycle!Next]_state
  <2>1. Lifecycle!Open(c)
    BY <1>19 DEF Accept, Lifecycle!Open, Lifecycle!Move
  <2> QED
    BY <2>1 DEF Lifecycle!Next
<1>20. CASE AcceptDone
  BY <1>20 DEF AcceptDone
<1>21. CASE EscapedException
  BY <1>21 DEF EscapedException, CloseAllFds, Lifecycle!Next, Lifecycle!CloseAll
<1>22. CASE Signal
  BY <1>22 DEF Signal
<1>23. CASE Tick
  BY <1>23 DEF Tick
<1>24. CASE UNCHANGED vars
  BY <1>24 DEF vars
<1> QED
  BY <1>1, <1>2, <1>3, <1>4, <1>5, <1>6, <1>7, <1>8, <1>9, <1>10, <1>11, <1>12, <1>13, <1>14, <1>15, <1>16, <1>17, <1>18, <1>19, <1>20, <1>21, <1>22, <1>23, <1>24
  DEF Next, Server, LoopStep, RoundRobinStep, SweepStep, DispatchStep

(* The invariant of the loop holds in every reachable state, for every     *)
(* number of connections and descriptors, budget and time-out: the maps    *)
(* and the queue whatever happens, the descriptors until a hang-up closes  *)
(* a file.                                                                 *)
THEOREM Invariance == Spec => []IInv
<1>1. Init => IInv
  <2> SUFFICES ASSUME Init PROVE IInv
    OBVIOUS
  <2> USE DEF Init
  <2>0. processed \in 0..Budget /\ sweepAge \in 0..SWEEP_INTERVAL_S
        /\ cgiAge \in [Fd -> 0..CGI_TIMEOUT_S] /\ idle \in [Conn -> 0..CONNECTION_TIMEOUT_S]
    BY LimitsAssumption, TimeoutsAssumption
  <2>1. TypeOK
    <3>1. /\ g_running \in BOOLEAN /\ pc \in Phase /\ stray \in BOOLEAN
          /\ batch \in [Fd \cup {ListenFd} -> Event \cup {"none"}]
          /\ connections \in [Fd -> Conn \cup {NoConn}]
          /\ cgiPipeToConn \in [Fd -> Conn \cup {NoConn}]
          /\ fdEvents \in [Fd -> Mask]
      BY DEF Phase, Event, NoEvents, Mask
    <3>2. /\ processingQueue \in Seq(Conn)
          /\ processingSet \subseteq Conn
          /\ state \in [Conn -> ConnState]
          /\ acceptFd \in [Conn -> Fd \cup {NoFd}]
          /\ cgiPipe \in [Conn -> Fd \cup {NoFd}]
          /\ openFds \subseteq Fd /\ epollSet \subseteq Fd /\ lost \subseteq Fd
          /\ files \in [Conn -> SUBSET Fd]
      BY DEF ConnState
    <3> QED
      BY <2>0, <3>1, <3>2 DEF TypeOK
  <2>2. ClientMap /\ NoLostWakeup /\ PipeMap /\ BatchOver
    BY DEF ClientMap, NoLostWakeup, PipeMap, BatchOver, IsClient, IsPipe
  <2>3. Reachable
    BY DEF Reachable
  <2>4. Interest
    BY DEF Interest, MaskMatchesState, IsClient, IsPipe
  <2>5. Ownership
    BY DEF Ownership, IsClient, ClosedWith
  <2> QED
    BY <2>1, <2>2, <2>3, <2>4, <2>5 DEF IInv
<1>2. IInv /\ [Next]_vars => IInv'
  <2> SUFFICES ASSUME IInv, [Next]_vars PROVE IInv'
    OBVIOUS
  <2>1. TypeOK'
    BY TypeStep
  <2>2. ClientMap' /\ NoLostWakeup' /\ PipeMap' /\ BatchOver'
    BY ClientMapStep, WakeupStep, PipeMapStep, BatchStep DEF IInv
  <2>3. ASSUME ~stray' PROVE Sound'
    <3>1. TypeOK /\ ~stray
      BY <2>3, StrayStep DEF IInv
    <3>2. Sound
      BY <3>1 DEF IInv, Sound
    <3> QED
      BY <2>1, <2>3, <3>2, SoundStep
  <2>4. ~stray' => Reachable' /\ Interest' /\ Ownership'
    BY <2>3 DEF Sound
  <2> QED
    BY <2>1, <2>2, <2>4 DEF IInv
<1> QED
  BY <1>1, <1>2, PTL DEF Spec

(* The maps, the queue, the timers and the descriptors of the loop keep    *)
(* their types: no pass of _runRoundRobin() exceeds its budget, no map     *)
(* holds anything but descriptors and connections.                         *)
THEOREM TypeCorrect == Spec => []TypeOK
<1>1. IInv => TypeOK
  BY DEF IInv
<1> QED
  BY <1>1, Invariance, PTL

(* _dropConnection leaves queue entries behind and reuses nothing too      *)
(* early: no map of ServerManager ever holds a deleted Connection, whatever*)
(* a hang-up has closed; and until one closes a file, every live           *)
(* connection is in _connections.                                          *)
THEOREM NoDanglingPointerHolds == Spec => []NoDanglingPointer
<1>1. IInv => NoDanglingPointer
  <2> SUFFICES ASSUME IInv PROVE NoDanglingPointer
    OBVIOUS
  <2>1. /\ \A f \in Fd : connections[f] # NoConn => acceptFd[connections[f]] = f
        /\ \A p \in Fd : cgiPipeToConn[p] # NoConn => cgiPipe[cgiPipeToConn[p]] = p
        /\ \A c \in processingSet : state[c] # "FREED"
    BY DEF IInv, TypeOK, ClientMap, PipeMap, NoLostWakeup, IsClient, IsPipe
  <2>2. ASSUME NEW c \in Conn
        PROVE  IF state[c] = "FREED"
               THEN acceptFd[c] = NoFd /\ cgiPipe[c] = NoFd /\ files[c] = {}
               ELSE \/ stray
                    \/ acceptFd[c] \in Fd /\ connections[acceptFd[c]] = c
    BY DEF IInv, ClientMap, Reachable
  <2> QED
    BY <2>1, <2>2 DEF NoDanglingPointer
<1> QED
  BY <1>1, Invariance, PTL

(* _runRoundRobin forgets no connection although _dequeueProcessing leaves *)
(* queue entries behind: PROCESSING is exactly membership in               *)
(* _processingSet, and the queue holds the whole set.                      *)
THEOREM NoLostWakeupHolds == Spec => []NoLostWakeup
<1>1. IInv => NoLostWakeup
  BY DEF IInv
<1> QED
  BY <1>1, Invariance, PTL

(* _cgiPipeToConn holds no pipe but of a connection that waits for a CGI,  *)
(* the moment between the two sweeps excepted, and until a hang-up closes a*)
(* file it holds the pipe of each of them.                                 *)
THEOREM CgiRegistrationHolds == Spec => []CgiRegistration
<1>1. IInv => CgiRegistration
  <2> SUFFICES ASSUME IInv, pc # "sweepCgi", NEW c \in Conn
               PROVE  /\ (\E p \in Fd : cgiPipeToConn[p] = c) => state[c] = "WAITING_FOR_CGI"
                      /\ state[c] = "WAITING_FOR_CGI"
                            => (\E p \in Fd : cgiPipeToConn[p] = c) \/ stray
    BY DEF CgiRegistration
  <2>1. (\E p \in Fd : cgiPipeToConn[p] = c) => state[c] = "WAITING_FOR_CGI"
    BY NamesAssumption DEF IInv, PipeMap, IsPipe
  <2>2. state[c] = "WAITING_FOR_CGI" => (\E p \in Fd : cgiPipeToConn[p] = c) \/ stray
    BY DEF IInv, Reachable
  <2> QED
    BY <2>1, <2>2
<1> QED
  BY <1>1, Invariance, PTL

(* addPollFd gives every live connection the mask its state needs, and     *)
(* _fdEvents agrees with the interest list of the kernel, until a hang-up  *)
(* has closed a file (ServerManager.cpp:172): what the second close of that*)
(* file then does to the interest list is not excluded.                    *)
THEOREM EpollCorrect == Spec => []EpollCurrent
<1>1. IInv => EpollCurrent
  BY DEF IInv, Interest, EpollMirror, EpollCurrent
<1> QED
  BY <1>1, Invariance, PTL

(* Until a hang-up closes a file (ServerManager.cpp:172), every open       *)
(* descriptor has one owner, whatever order drops, CGI ends, sweeps,       *)
(* accepts and temporary files come in, except those that an error page    *)
(* failing half-way or a client refused by epoll leaves open; and every    *)
(* owner's descriptor is open.                                             *)
THEOREM DescriptorsOwnedHolds == Spec => []DescriptorsOwned
<1>1. IInv => DescriptorsOwned
  <2> SUFFICES ASSUME IInv, ~stray
               PROVE  /\ openFds = lost \cup UNION {Owned(c) : c \in Conn}
                      /\ \A c \in Conn :
                            /\ Owned(c) \cap lost = {}
                            /\ \A d \in Conn \ {c} : Owned(c) \cap Owned(d) = {}
                            /\ acceptFd[c] # NoFd => acceptFd[c] \notin ClosedWith(c)
                            /\ cgiPipe[c] \notin files[c]
    BY DEF DescriptorsOwned
  <2>0. TypeOK /\ ClientMap /\ Reachable /\ Ownership
    BY DEF IInv
  <2> USE DEF TypeOK
  <2>1. \A f \in Fd : IsClient(f) <=> \E c \in Conn : acceptFd[c] = f
    <3>1. \A f \in Fd : IsClient(f) => connections[f] \in Conn /\ acceptFd[connections[f]] = f
      BY <2>0 DEF ClientMap, IsClient
    <3>2. ASSUME NEW f \in Fd, NEW c \in Conn, acceptFd[c] = f PROVE IsClient(f)
      <4>1. state[c] # "FREED"
        BY <2>0, <3>2, NamesAssumption DEF ClientMap
      <4>2. connections[f] = c
        BY <2>0, <3>2, <4>1 DEF Reachable
      <4> QED
        BY <4>2, NamesAssumption DEF IsClient
    <3> QED
      BY <3>1, <3>2
  <2>2. \A c, d \in Conn : acceptFd[c] = acceptFd[d] /\ acceptFd[c] \in Fd => c = d
    BY <2>0, NamesAssumption DEF ClientMap, Reachable
  <2>3. \A c \in Conn : Owned(c) = (ClosedWith(c) \cap Fd) \cup ({acceptFd[c]} \cap Fd)
    BY <2>0 DEF Owned, ClosedWith
  <2>4. \A f \in Fd : f \in openFds
           <=> f \in lost \/ \E c \in Conn : f = acceptFd[c] \/ f \in ClosedWith(c)
    BY <2>0, <2>1 DEF Ownership
  <2>5. openFds = lost \cup UNION {Owned(c) : c \in Conn}
    <3>1. \A f \in Fd : f \in openFds <=> f \in lost \/ \E c \in Conn : f \in Owned(c)
      BY <2>3, <2>4
    <3>2. openFds \subseteq Fd /\ lost \subseteq Fd /\ \A c \in Conn : Owned(c) \subseteq Fd
      BY <2>0, <2>3
    <3> QED
      BY <3>1, <3>2
  <2>6. ASSUME NEW c \in Conn
        PROVE  /\ Owned(c) \cap lost = {}
               /\ acceptFd[c] # NoFd => acceptFd[c] \notin ClosedWith(c)
               /\ cgiPipe[c] \notin files[c]
    <3>1. \A f \in ClosedWith(c) \cap Fd : f \notin lost /\ f # acceptFd[c]
      BY <2>0, <2>1 DEF Ownership
    <3>2. acceptFd[c] \in Fd => acceptFd[c] \notin lost
      BY <2>0, <2>1 DEF Ownership
    <3>3. acceptFd[c] \in Fd \cup {NoFd}
      BY <2>0
    <3> QED
      BY <2>0, <2>3, <3>1, <3>2, <3>3 DEF Ownership
  <2>7. ASSUME NEW c \in Conn, NEW d \in Conn \ {c}, NEW f \in Owned(c) \cap Owned(d)
        PROVE  FALSE
    <3>1. f \in Fd /\ (f \in ClosedWith(c) \/ f = acceptFd[c])
          /\ (f \in ClosedWith(d) \/ f = acceptFd[d])
      BY <2>3
    <3>2. ~(f \in ClosedWith(c) /\ f \in ClosedWith(d))
      BY <2>0, <3>1 DEF Ownership
    <3>3. ~(f \in ClosedWith(c) /\ f = acceptFd[d]) /\ ~(f = acceptFd[c] /\ f \in ClosedWith(d))
      BY <2>0, <2>1, <3>1 DEF Ownership
    <3>4. ~(f = acceptFd[c] /\ f = acceptFd[d])
      BY <2>2, <3>1
    <3> QED
      BY <3>1, <3>2, <3>3, <3>4
  <2> QED
    BY <2>5, <2>6, <2>7
<1> QED
  BY <1>1, Invariance, PTL

(* A connection lives READING, PROCESSING, perhaps WAITING_FOR_CGI, WRITING*)
(* and is then closed, and never goes back, although its handlers are      *)
(* called by events, queue entries and time-outs in any order.             *)
THEOREM LifecycleRefined == Spec => LifecycleSpec
<1>1. Init => Lifecycle!Init
  BY DEF Init, Lifecycle!Init
<1>2. IInv /\ [Next]_vars => [Lifecycle!Next]_state
  BY LifecycleStep
<1> QED
  BY <1>1, <1>2, Invariance, PTL DEF Spec, LifecycleSpec, Lifecycle!Spec

-----------------------------------------------------------------------------
(* The queue only moves forward: what Served promises and needs no fairness *)
(* assumption.                                                             *)

(* A pass takes the entry at the head of _processingQueue off it.          *)
TakesHead == SkipStale \/ \E c \in Conn : ProcessMore(c) \/ ProcessDone(c) \/ ProcessCgi(c)

(* c is queued at position i.                                              *)
At(q, i, c) == i \in DOMAIN q /\ q[i] = c

(* While c waits for its slice, its entry is not lost and never moves back, *)
(* whatever is queued, dropped, timed out or accepted meanwhile, and every *)
(* entry that a pass takes moves it one place towards the head.            *)
InTurn ==
    \A c \in processingSet : \A i \in DOMAIN processingQueue :
        processingQueue[i] = c /\ ~AtHead(c) /\ c \in processingSet' =>
            /\ At(processingQueue', i - 1, c) \/ At(processingQueue', i, c)
            /\ TakesHead => At(processingQueue', i - 1, c)

(* What a step can do to the queue.                                        *)
QueueTail == InPass /\ processingQueue' = Tail(processingQueue)
QueueTurn == InPass /\ \E d \in Conn : processingQueue' = Append(Tail(processingQueue), d)
QueueGrows == \E d \in Conn : processingQueue' = Append(processingQueue, d)

LEMMA TakesHeadMoves ==
    ASSUME TypeOK, TakesHead
    PROVE  QueueTail \/ QueueTurn
<1>1. CASE SkipStale
  BY <1>1 DEF SkipStale, QueueTail
<1>2. ASSUME NEW c \in Conn, ProcessMore(c) PROVE QueueTurn
  BY <1>2 DEF ProcessMore, BeginSlice, Requeue, QueueTurn
<1>3. ASSUME NEW c \in Conn, ProcessDone(c) \/ ProcessCgi(c) PROVE QueueTail
  BY <1>3 DEF ProcessDone, ProcessCgi, BeginSlice, QueueTail
<1> QED
  BY <1>1, <1>2, <1>3 DEF TakesHead

(* _dropConnection, the sweeps, the CGI ends and accept() leave the queue; *)
(* only _enqueueProcessing appends to it.                                  *)
LEMMA QueueMoves ==
    ASSUME TypeOK, ClientMap, [Next]_vars
    PROVE  \/ processingSet' = {}
           \/ processingQueue' = processingQueue
           \/ QueueTail \/ QueueTurn \/ QueueGrows
<1> USE DEF loopVars, serverVars, queueVars, connVars, kernelVars
<1> DEFINE Kept == processingQueue' = processingQueue
<1>1. CASE LoopStep
  <2>1. CASE Shutdown
    BY <2>1 DEF Shutdown, CloseAllFds
  <2> QED
    BY <1>1, <2>1 DEF LoopStep, StartIteration, EpollWait, EndDispatch
<1>2. CASE RoundRobinStep
  <2>1. CASE EndRoundRobin
    BY <2>1 DEF EndRoundRobin
  <2> QED
    BY <1>2, <2>1, TakesHeadMoves DEF RoundRobinStep, TakesHead
<1>3. CASE SweepStep
  BY <1>3 DEF SweepStep, SweepTimeouts, SweepCgiTimeouts
<1>4. CASE DispatchStep
  <2>1. ASSUME NEW p \in Fd, CgiPipeDone(p) \/ CgiPipeMore(p) \/ CgiPipeThrow(p) PROVE Kept
    BY <2>1 DEF CgiPipeDone, CgiPipeMore, CgiPipeThrow
  <2>2. ASSUME NEW f \in Fd \cup {ListenFd}, DispatchHup(f) PROVE Kept
    BY <2>2 DEF DispatchHup, DropOwned, DropUnknown
  <2>3. ASSUME NEW f \in Fd, DispatchNobody(f) PROVE Kept
    BY <2>3 DEF DispatchNobody
  <2>4. ASSUME NEW f \in Fd, HandleConnection(f) PROVE Kept \/ QueueGrows
    <3>1. PICK c \in Conn : DropOwned(f, c) \/ \E w \in LiveState : Advance(c, w)
      BY <2>4, HandleConnectionCases
    <3>2. DropOwned(f, c) => Kept
      BY DEF DropOwned
    <3>3. EnqueueProcessing(c) => Kept \/ QueueGrows
      BY DEF EnqueueProcessing, QueueGrows
    <3>4. (\E w \in LiveState : Advance(c, w)) => Kept \/ EnqueueProcessing(c)
      BY DEF Advance
    <3> QED
      BY <3>1, <3>2, <3>3, <3>4
  <2>5. CASE DispatchListen
    BY <2>5 DEF DispatchListen
  <2>6. ASSUME NEW c \in Conn, NEW f \in Fd, Accept(c, f) PROVE Kept
    BY <2>6 DEF Accept
  <2>7. CASE AcceptDone
    BY <2>7 DEF AcceptDone
  <2> QED
    BY <1>4, <2>1, <2>2, <2>3, <2>4, <2>5, <2>6, <2>7 DEF DispatchStep
<1>5. CASE EscapedException
  BY <1>5 DEF EscapedException, CloseAllFds
<1>6. CASE Signal \/ Tick \/ UNCHANGED vars
  BY <1>6 DEF Signal, Tick, vars
<1> QED
  BY <1>1, <1>2, <1>3, <1>4, <1>5, <1>6 DEF Next, Server

(* Taking the head off moves every other entry one place forward, and      *)
(* appending moves none.                                                   *)
LEMMA Shifted ==
    ASSUME NEW q \in Seq(Conn), NEW i \in DOMAIN q, NEW d \in Conn
    PROVE  /\ At(Append(q, d), i, q[i])
           /\ i # 1 => At(Tail(q), i - 1, q[i]) /\ At(Append(Tail(q), d), i - 1, q[i])
<1>1. At(Append(q, d), i, q[i])
  BY DEF At
<1>2. ASSUME i # 1
      PROVE  At(Tail(q), i - 1, q[i]) /\ At(Append(Tail(q), d), i - 1, q[i])
  <2>1. PICK t : t = Tail(q)
    OBVIOUS
  <2>2. t \in Seq(Conn) /\ i - 1 \in 1 .. Len(t) /\ t[i - 1] = q[i]
    BY <1>2, <2>1
  <2>3. At(Append(t, d), i - 1, t[i - 1])
    BY <2>2 DEF At
  <2> QED
    BY <2>1, <2>2, <2>3 DEF At
<1> QED
  BY <1>1, <1>2

LEMMA InTurnStep ==
    ASSUME TypeOK, ClientMap, [Next]_vars
    PROVE  InTurn
<1> SUFFICES ASSUME NEW c \in processingSet, NEW i \in DOMAIN processingQueue,
                    processingQueue[i] = c, ~AtHead(c), c \in processingSet'
             PROVE  /\ At(processingQueue', i - 1, c) \/ At(processingQueue', i, c)
                    /\ TakesHead => At(processingQueue', i - 1, c)
  BY DEF InTurn
<1>1. processingQueue \in Seq(Conn) /\ c \in Conn
  BY DEF TypeOK
<1>2. i = 1 => ~InPass
  BY <1>1 DEF AtHead
<1>3. QueueTail \/ QueueTurn => At(processingQueue', i - 1, c)
  BY <1>1, <1>2, Shifted DEF QueueTail, QueueTurn
<1>4. QueueGrows => At(processingQueue', i, c)
  BY <1>1, Shifted DEF QueueGrows
<1>5. processingQueue' = processingQueue => At(processingQueue', i, c)
  BY DEF At
<1> QED
  BY <1>3, <1>4, <1>5, QueueMoves, TakesHeadMoves

(* Round robin passes over nobody: a connection that waits in              *)
(* _processingSet keeps its place in _processingQueue, and every entry     *)
(* _runRoundRobin pops, stale or not, brings it one place nearer.          *)
THEOREM EntriesInTurn == Spec => [][InTurn]_vars
<1>1. TypeOK /\ ClientMap /\ [Next]_vars => [InTurn]_vars
  BY InTurnStep
<1>2. IInv => TypeOK /\ ClientMap
  BY DEF IInv
<1> QED
  BY <1>1, <1>2, Invariance, PTL DEF Spec

=============================================================================
