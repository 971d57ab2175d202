# LeftHookRoll: a TLA+ verification project

LeftHookRoll is a single-threaded HTTP/1.0 server in C++98: one `epoll` loop, a
round-robin queue of work slices, and CGI children behind pipes.  The modules
in this directory model its core logic; TLC checks them on small instances and
TLAPS proves the main results for every size.  Paths are relative to the
repository.

## 1. Inventory

| Part | State it keeps | Operations | Hard behaviour |
|---|---|---|---|
| Event loop, `src/ServerManager.cpp` | `_connections`, `_cgiPipeToConn`, `_cgiStartTimes`, `_fdEvents`, `_processingQueue`, `_processingSet`, the event buffer | `run`: round robin, 408 sweep, CGI sweep, `epoll_wait`, dispatch (CGI pipe, hang-up, accept, client) | events of one batch are handled after the batch was reported; descriptors and heap addresses are reused; queue entries are removed lazily; exceptions cross the loop |
| Connection, `src/Connection.cpp` | `_state`, `_lastActivity`, `_readBuffer`, one `Request`, one `Response` | `handleRead`, `process`, `handleWrite`, `triggerError`, `hasTimedOut` | each handler may be called for an event that is stale or spurious |
| Request, `src/Request.cpp` | `_reqState`, `_contentLength`, `_body`, `_decodedBody`, `_chunkBuffer` | `parseHeaders`, `processBodySlice`, `isChunkedDone` | how `recv()` cuts the stream; sizes supplied by the client |
| Response, `src/Response.cpp` | `_buildPhase`, `_statusCode`, `_postWritePos`, `_responseState`, `_totalBytesSent`, `_streamBuf*`, `_fileFd`, `_postOutFd`, `_cgiInstance`; the files of the site | `buildResponse`, `buildErrorPage`, `sendSlice`, `readCgiOutput`, `cgiTimeout`, `finalizeCgiResponse` | uploads in slices that interleave with other uploads and deletions; partial sends, full sockets, files that change under it, an error page built over a response that is half sent |
| CGI children, `src/CGIManager.cpp` | `_pId`, `_outPipe`, the shared `_activePids` | `execute`, `isDone`, `cleanupAllProcesses` | children outlive connections; reaping happens in three places; a failed `execve` |
| Byte store, `src/DataStore.cpp` | `_mode`, `_dataBuffer`, `_fileFd`, `_readOffset`, `_currentSize` | `append`, `read`, `resetReadPosition`, `clear`, `switchToFileMode` | one kernel offset shared by writes and reads in file mode; temporary files take descriptor numbers inside the handlers of the loop |
| Configuration, `src/ConfigParser.cpp`, `src/ServerConf.cpp`, `src/LocationConf.cpp` | `_tokens`, `_pos`; the `ServerConf`s, read-only afterwards | `parse` and a handler for each directive | directives in any order and number; numbers that overflow |
| Start-up, `src/main.cpp`, the constructor of `ServerManager` | `g_running`, `g_sigpipe`, the listening sockets | `addServer`, signal handlers, the catch clauses | one server of several cannot listen; the destructor runs after an exception |

The parts interact by calls in one thread.  `ServerManager` owns connections,
calls their handlers and looks at the state they leave; a `Connection` owns its
`Request` and `Response`; a `Response` owns its `CGIManager` and with it a pipe
that `ServerManager` watches under its bare number.  The processes outside
(clients, CGI children, the file system, the signal) interleave with every call.

What makes each part correct:

- Event loop: no map holds a deleted connection, no connection is forgotten in
  the queue, `epoll` watches each connection for what its state needs, every
  descriptor has one owner, an event reaches whom it is about, every queued connection is served, every wait for a
  CGI ends, SIGINT stops the server.
- Connection: one request, one answer, then closed; never backwards.
- Response: what the client receives is one response, whole; the site changes
  only as its locations allow, and an upload that is confirmed is there.
- Configuration: the server does what its file says, or does not start.
- CGI children: each is reaped once, signalled only by its owner, and all its
  output is used.
- Request and byte store: the body handed on is the body that was sent.

## 2. Modules

`EventLoop` is the frame; the other modules describe what decides the outcomes
that it leaves open.  They share no variable with it or with each other.

### `EventLoop`

`EventLoop` models `ServerManager::run` and every handler it calls, with the
state machine of `Connection`.  One action is one handler call; `pc` says where
`run()` is.

| In the model | In the code |
|---|---|
| `Conn`, `state[c] = "FREED"` | addresses the heap may return; a free one |
| `connections`, `cgiPipeToConn`, `cgiAge`, `fdEvents` | `_connections`, `_cgiPipeToConn`, `_cgiStartTimes` (as an age), `_fdEvents` |
| `processingQueue`, `processingSet` | the deque and the set of the same names |
| `acceptFd`, `cgiPipe`, `idle` | `_acceptFD`, `getCgiPipeFd()`, `_lastActivity` (as an age) |
| `openFds`, `epollSet` | the kernel's descriptor table and interest list |
| `files` | what a connection's `DataStore`s hold (`_fileFd`), its served file and its upload (`_postOutFd`) |
| `lost` | descriptors left open that nothing will close: an error page whose `append` throws (`Response.cpp:398`), a client that `addPollFd` refuses (`ServerManager.cpp:347`) |
| `stray` | no counterpart: a hang-up has closed somebody's file |
| `batch` | the events of the last `epoll_wait` not yet handled |
| `StartIteration` .. `EndRoundRobin` | the loop condition, `_runRoundRobin`, `process`, `_finalizeProcessed`, `_registerCgiPipe` |
| `SweepTimeouts`, `SweepCgiTimeouts` | the two sweeps, each one atomic call |
| `EpollWait`, `TakeEvent` and the `Dispatch*`, `CgiPipe*`, `HandleConnection`, `Accept*` actions | the dispatch loop of `run()` and the handlers below it |
| `CloseAllFds` | `~ServerManager`, after `run()` returned or an exception left it |

Clients, CGI pipes and files share the descriptor numbers.  Every handler that
can open or close files does so through `Descriptors`, which says which numbers
are closed, which free ones are taken and when `epoll_ctl` refuses one (then
`EscapedException` ends the server).  `_dropConnection` closes a number that is
in no map as well (`DropUnknown`).  A pipe that its connection's end has closed
may still have a hang-up in the batch; if a file has taken its number by then,
that file is closed, and closed once more by its owner, when the number may be a
client's.  The loop goes on after that in the model as in the code; what is then
no longer true is conditional on `stray` in the properties.

What a `recv`, a `send`, a processing slice or a read of a CGI pipe returns is a
nondeterministic choice over what the code can return; what it depends on is
the subject of the other modules.  `EPOLLHUP` and `EPOLLERR` are one event, and
hide the flags reported with them, because the code looks at them first.

`ConnLifecycle` is the abstract specification of a connection: `READING`,
`PROCESSING`, perhaps `WAITING_FOR_CGI`, `WRITING`, closed.  `EventLoop`
implements it with `phase <- state` (`LifecycleSpec`).

`EventLoopInv` holds the inductive invariant, `EventLoopProof` the proofs,
`MCEventLoop` the symmetry and a bound for TLC, and `MCDispatch` a history variable (the
connections accepted since `epoll_wait` returned) for one property.

### `ResponseSender`

One response on its way to its client: `Response::sendSlice` and what it calls,
and the pages that replace it.  A byte is the pair of the page it belongs to and
its position in that page, so a byte sent twice, left out or of an earlier page
shows.

| In the model | In the code |
|---|---|
| `responseState`, `totalBytesSent`, `streamBufLen`, `streamBufSent` | the members with an underscore |
| `storeSize`, `StoreMode` | `_responseDataStore`, a file above `BUFFERLIMIT` |
| `fileOpen`, `fileSize`, `fileOffset` | `_fileFd`, `_fileSize`, the kernel's offset |
| `slice` | where `sendSlice` is: a slice may fill the buffer and then send |
| `streamFirst`, `streamBuild`, `builds`, `received` | which bytes the buffer holds, and what the client has (no counterpart in the code) |
| `FinalizeSuccess`, `ServeFile`, `BuildErrorPage` | `_finalizeSuccess`, `_serveFile`, `buildErrorPage` |
| `SendHeaderPart`, `SendHeaderEnd`, `SendRam`, `ReadFile`, `SendFile`, `ReadStore`, `SendStore` | `_sendHeader`, `_sendBodyDataStore`, `_sendBodyFile`, by outcome of `send()` and `read()` |
| `SendRefused`, `ReadFileFails`, `SendBroken` | a failed call; SIGPIPE noticed by `throwIfSigpipe` |
| `ResizeFile` | another program changes the file that is served |

### `ByteStore` and `DataStore`

`ByteStore` is the abstract specification: a sequence of bytes that grows at its
end and a position from which it is read.  `DataStore` has the two modes, the
kernel's offset of the temporary file, file names, the files on the disk, copies,
failures and the crash of the process; `Content` and `readOffset` map it to
`ByteStore` (`Promise`).

| In the model | In the code |
|---|---|
| `AppendRam`, `AppendFile`, `AppendOver` | the three ways through `append` |
| `SwitchToFileMode` | `switchToFileMode` called by the CGI handler |
| `Read`, `ResetReadPosition`, `Clear` | the methods; `Clear` is the destructor too |
| `Assign` | `operator=`, by copy and swap |
| `AppendFails`, `ReadFails`, `CreationFails` | the exceptions; a store that failed is only cleared or assigned |
| `NewName`, `file_counter` | `_generateTempFileName`, `open` with `O_EXCL` |

`InStep` says when a store in a file may be read: nothing was appended since its
position was last reset; `Read` has it as its guard.  Every caller keeps to that,
for each resets the position after the last byte is in and before the first is
read: `_handleConnection` (`src/ServerManager.cpp:203`) before `processBodySlice`
and a CGI read the body, `_handlePost` (`src/Response.cpp:643`), the sender, and
`processBodySlice` for the decoded body (`src/Request.cpp:349`).

`orphans` and `crashed` are the names that a failed call and a dead process left
on the disk.

### `RequestReader`

One request on its way in: `Connection::handleRead` with `_readHeaders`,
`_readBody` and `_readChunked`, and `Request::processBodySlice`, which takes the
chunks off a body that is complete.  A body above `BUFFERLIMIT` is in a file:
`_handleConnection` reopens it when the last byte is in, so that it is decoded
like one in memory, but `open`, `read` and `write` may fail, and the client of a
well-formed request gets a 500.

| In the model | In the code |
|---|---|
| `request` | what the client sends: the length of its header, the coding of its body, the bytes after the header (the text of the header is not there, only what it announces) |
| `received`, `state`, `reqState`, `statusCode` | `_totalBytesRead` and the states of `Connection` and `Request` |
| `body`, `readOffset`, `chunkBuffer`, `decodedBody` | `_body` and its read position, `_chunkBuffer`, `_decodedBody` |
| `Read`, by what the bytes complete | one `handleRead`; how many bytes `recv()` returns is free |
| `HandOn`, `TakeSlice`, `TakeChunk`, `LastChunk`, `ChunkIncomplete`, `ChunkMalformed`, `OverLimit` | `process` and the loop of `processBodySlice`, by way out |
| `filesFail` | whether the file system fails in this run |
| `StoreFails`, `DecodingFails` | `append`, `resetReadPosition`, `read` or the copy of the decoded body throws: the 500 of `_handleConnection` and of `process` |
| `Strtoul`, `TotalBytesNeeded` | sizes modulo `Word`, the range of a `size_t` |
| `RecvEnds`, `Timeout` | the connection ends while it is read |

A request that is `framed` carries a certificate, `chunks`: where each chunk
begins, how long its size line is and which data it carries (`Framed`).  With it
`Decoded` compares the decoder with what the client meant, and the proof can say
where the decoder stands.

### `ResponseBuilder`

`Response::buildResponse` and the handlers below it, for several clients over
one file system.

| In the model | In the code |
|---|---|
| `state`, `buildPhase`, `statusCode`, `fileFd`, `postOutFd`, `postWritePos` | the members with an underscore |
| `files`, `content` | the directory entries and the inodes behind them: a file that is deleted is still written by who has it open |
| `dest`, `shared`, `removed` | what became of each upload (no counterpart in the code) |
| `MatchesPrefix`, `MatchLocation`, `Route` | `matchLocation` |
| `Refuse`, `Redirect`, `HandleCGI`, `HandleGet`, `HandleDelete`, `PostRefused`, `HandlePost` | `buildResponse` by branch, and its handlers |
| `ContinuePostWrite`, `Slice` | `_continuePostWrite`: a slice writes a part, the rest, or fails |
| `BuildErrorPage`, `Timeout`, `Drop` | `buildErrorPage`, the 408 sweep, `~Response` |

A byte of a body is the pair of its client and its position, so a byte at a wrong
place or of another upload shows.  URLs and paths are sequences of characters,
because `matchLocation` compares at a `/`.

### `StartUp`

`ConfigParser::parse` and the recursive descent below it, then the constructor of
`ServerManager`.  The file is a sequence of tokens chosen while it is read; one
action is one call of a directive's handler.

| In the model | In the code |
|---|---|
| `pc` | the block the parser is in, then the constructor, then `run()` or the exit |
| `file` | `_tokens` up to `_pos` |
| `servers`, `conf`, `loc` | the `ServerConf`s built, and those under construction |
| `ParseListen` .. `ParseCgiInterpreter` | the handlers of the same names |
| `Atoi`, `BodySize` | ports in 32 bits, sizes in 64 (`IntRange`, `LongRange`) |
| `AddServer`, `AddServerFails` | `addServer` and `_createListeningSocket`, and the catch clause of the constructor |

`ServersMeant` is the reference: it reads the meaning of a file from the position
of its tokens alone, with nesting counted and the last of repeated directives
taken, and shares no definition with the parser.  It takes the file and the
positions of its server blocks (`Blocks`) as arguments, so that the proof can
compare what two files mean of which one goes on where the other ends.

`StartUpProof` holds what is proved of types and sockets, `UnderstoodProof` that
the parser and the reference agree.

### `CgiChildren`

`CGIManager`, what `Response` and `ServerManager` do with it, and the processes.

| In the model | In the code |
|---|---|
| `proc[p]` | a process number: free, forked and not yet past `execve`, a script, a zombie, or a process of somebody else |
| `known[p]` | the copy of `_activePids` in a child that has not reached `execve` |
| `pId`, `activePids` | `_pId`, `_activePids` |
| `out`, `held`, `unread` | the pipe: who writes into it, a descendant of the script that kept it, the bytes in it |
| `event` | what the last `epoll_wait` said of the pipe |
| `Execute`, `ExecuteFails` | `execute`, with the reaping and the limit |
| `HandleHup`, `HandleIn`, `HandleInThrows` | `_handleCgiPipeEvent` and `readCgiOutput` |
| `Timeout` | `cgiTimeout`; a waiting connection that gets a 408 comes here too, as the CGI sweep follows |
| `Drop`, `Shutdown`, `PollChildren`, `KillRemaining` | `_dropConnection`, `~ServerManager` and the stages of `cleanupAllProcesses` |
| `ExecFails` | the child throws, unwinds through `main` and destroys its copy of the server |

`phase` is "failed" after an exception that leaves the `CGIManager` in place.
The branches of `readCgiOutput` for a failed `read()` and for the end of the
pipe are not in `HandleIn`: with `EPOLLIN` and no hang-up there are bytes.

Operators with an underscore in their name, each just before the definition it
varies, are faulty versions of that definition: exchanging them must break a
property, which shows that the property can fail.

## 3. Runs

| Run | Checks | Result |
|---|---|---|
| `EventLoopSafety` | `TypeOK`, `NoDanglingPointer`, `NoLostWakeup`, `CgiRegistration`, `EpollCurrent`, `DescriptorsOwned`, and that the loop implements `ConnLifecycle` | holds |
| `EventLoopServed` | `Served` (round robin starves nobody), `Stops` (SIGINT ends the loop), `CgiAnswered` (every wait for a CGI ends), under `LoopFairSpec` | holds |
| `Sender` | `TypeOK`, `CurrentPrefix`, `EntireUnlessCut`, `LengthKept`, and `Finishes` under `FairSpec` | holds |
| `DataStoreSafety` | `TypeOK`, `Holds`, `FilesOwned`, and that a store implements `ByteStore` (`Promise`) | holds |
| `CgiChildren` | `TypeOK`, `ActiveAreChildren`, `LimitKept`, `NoneLeft` | holds |
| `Reader` | `TypeOK`, `BodyIsPayload`, `LengthReached`, `Decoded`, `ErrorsMeant`, `EndSeen`, and `DecodingEnds` under `FairSpec` | holds |
| `Builder` | `TypeOK`, `DescriptorsClosed`, `UploadKept`, `BytesInPlace`, `ChangesAllowed`, and `Answered` under `FairSpec` | holds |
| `StartUp` | `TypeOK`, `Understood`, `EachListens`, `NothingLeft` | holds |
| `DispatchOwnEvents` | `includes/ServerManager.hpp:123`, "to the correct Connection handler", and `:137`, "Closes a client fd" | violated |
| `SenderFalse` | `includes/Response.hpp:69`, "false if more data remains" | violated |
| `CgiOutput` | `includes/Response.hpp:89`, "true if CGI output is fully consumed" | violated |
| `DataStoreCrash` | `includes/DataStore.hpp:114`, "immediate unlink() trick to ensure OS-level cleanup on crashes" | violated |

### Bounds

- Event loop.  Two connections, so that one can be deleted while queued and its
  address be given out again, and so that two compete for the budget of one
  slice per pass.  Three descriptors, so that sockets, pipes and files are scarce
  and each is reused as the others.  `MaxFiles` = 1 file per connection and
  `MaxLost` = 1 descriptor that is never closed are enough for a file on the
  number of a pipe and for its owner's second close.  After a hang-up has closed
  a file the safety run follows the loop until that second close is possible on
  whatever has the number by then (the constraint `UntilSecondClose`): the
  states after it are all of the same kind, and the proofs have no such bound.  `MaxQueue` bounds the deque, which the code does
  not: stale entries can accumulate.  Time-outs of 2, 1 and 1 (or 0) seconds
  stand for 60, 10 and 5: only their order matters, because ages are compared
  with them and with nothing else.  In the liveness run an `epoll_wait` returns
  at most one event and no files are opened (`MaxFiles` = 0), to keep the graph
  small; the safety run has full batches and files.  So `CgiAnswered` says nothing
  of a server in which a hang-up has closed a file.
- Sender.  A buffer of 2 bytes; a header that takes one send or at least two;
  bodies of no byte, of less and of more than one buffer, and one above the
  limit of the store (3).  The served file may change between any two steps.
  `MaxBuilds` = 2 is one page and one that replaces it; `MaxReceived` bounds only
  what a body in a temporary file sends, which never ends.
- Store.  Two stores, so that one is copied to the other; a limit of 1 byte and a
  size of 2, so that both ways into a file occur; two names, so that a name is
  reused after a crash and may run out, in which case nothing can be created.
- Children.  Two requests and three numbers, so that the number of a child that
  was reaped is given out again while a request still waits for it; a limit of
  2, which both requests reach together with a child left behind by a dropped
  one; a pipe of two bytes read one at a time, so that output is left after a
  read.

- Reader.  A `recv()` takes at most 8 bytes and a slice 3, so that headers, size
  lines and the terminator are cut at every place; `Word` = 256, so that two
  hexadecimal digits can make the sum with the framing wrap; requests with and
  without a length, with one, several or malformed chunks, with the terminator
  inside a chunk, and bodies above the limit of the store (5), which are decoded
  from the file, with a file system that works and with one that fails.
- Builder.  Two clients with one request each, out of uploads to one name, to no
  name and to a name that is there, deletions of the same names, and a GET for
  each branch; bodies of 0 to 5 bytes with 2 in memory and 2 per slice, so that
  an upload takes up to three slices; locations one inside the other, and a
  sibling whose name begins like one of them.
- Start-up.  Files of up to 15 tokens: two servers, or one with two locations, or
  three directives in one block, with values that are delimiters, words of the
  language or numbers that do not fit in an `int` of 4 bits and a `long` of 6.

Deadlock is not checked: the server stops when it is told to, a response ends
when it is finished, and the bounds end the rest.

### Fairness

- `LoopFairSpec` is weak fairness of the server thread as a whole.  The thread
  never blocks for ever: sockets are non-blocking, pipes are read only when
  `epoll` reported them, and `epoll_wait` has a time-out of one second.
  `CgiAnswered` also assumes that the clock runs, as its premise
  (`WF_vars(Tick)`): without that no time-out is ever due.  Nothing is assumed of
  clients and CGI children.
- `FairSpec` of `ResponseSender` is weak fairness of `Progress`: the client goes
  on reading, so the descriptor is writable and `epoll`, level-triggered, says so
  again; nothing is assumed of the calls that fail.
- `FairSpec` of `RequestReader` is weak fairness of `Process`: a connection in
  PROCESSING gets its slices, which is what `Served` shows of the loop.
- `FairSpec` of `ResponseBuilder` is the same for requests to be built and for
  uploads to be continued, where that every `write()` fails is not what ends
  them.  Nothing is assumed of time-outs, scripts and clients.
- `DataStore`, `CgiChildren` and `StartUp` have safety properties only: a script
  is free never to end, and a file is finite.

### What the properties leave out

`CurrentPrefix`, `EntireUnlessCut`, `LengthKept` and `Finishes` are about
responses in memory and about served files.  For a body in a temporary file they
are false, and `SenderFalse` shows why.  `Promise` holds for reads in step with
the file.

`EpollCurrent`, `DescriptorsOwned` and the second halves of `NoDanglingPointer` and
`CgiRegistration` hold until a hang-up closes a file (`stray`).  After it they are
false: the owner of the file closes the number again.  If that is a client's, it
is closed and leaves the interest list, while `_fdEvents` keeps it, and the next
`addPollFd` for it throws a `FatalException` that ends the server; if it is
another file or a pipe, that request reads or writes nothing any more.  What the
maps and the queue promise, no deleted connection and no lost wake-up, holds all
the same.  `DescriptorsOwned` also excepts the descriptors in `lost`.

`FilesOwned` says which files are on the disk and that no store gets one that a
failure or a dead process left; that a crash leaves none is denied by
`DataStoreCrash`.

`Decoded`, `EndSeen` and `DecodingEnds` are about well-formed chunked bodies, in
memory or in a file, whose terminator is not cut and does not occur inside a
chunk; the others are in the model, and are decoded late, wrongly or never.
`ErrorsMeant` leaves out the 431 that depends on how the header is cut
(`src/Connection.cpp:121`), and allows the 500 of a well-formed request only if
files fail and its body has outgrown memory.

`UploadKept` is about uploads whose file no other client opened meanwhile or
later; `BytesInPlace` is what is left to the others.  201 does not say that the
file still has its name: a DELETE may have come between two slices.

`Understood` is about files whose values are not delimiters (`Plain`) and whose
numbers the machine can hold (`NumbersFit`).  The parser accepts others, although
`includes/ConfigParser.hpp:9` promises an exception "on any syntax or semantic
error": `root ; ;` makes `;` the root, port 4294967376 is port 80, and a size of
17179869184g is 0, which means no limit.

### What the violated runs show

- `OwnEventsOnly`.  Client A waits for its CGI, and a batch holds the hang-ups of
  A's socket and of the pipe.  The first drops A and closes both.  The same batch
  then gives the number of the pipe away, to a client that is accepted or to a
  temporary file, and the second hang-up, still pending for that number, drops
  that client or closes that file.
- `FalseMeansMore`.  A body above `BUFFERLIMIT` is in a temporary file, whose read
  position `_sendBodyStatic` resets at each slice: the first buffer is sent
  again and again, and the test for the end, an equality, is stepped over.
- `OutputConsumed`.  A script writes and ends before the next `epoll_wait`.  The
  pipe is reported with `EPOLLHUP`, `_handleCgiPipeEvent` takes the output to be
  complete without reading, and closes the pipe with the bytes in it.
- `CleanedUpOnCrash`.  A store outgrows its memory and makes its file with
  `open`; nothing unlinks the name before `clear`, so a process that dies then
  leaves it.

Four more disagreements can be read off the models, without a run of their own.
`includes/Request.hpp:4` speaks of "non-blocking, fragmented data streams": when
`recv()` returns a chunked body up to the middle of its last `0 CR LF CR LF` and
then the rest, `_readChunked` looks for these five bytes in each part by itself,
finds them in neither and waits for more until the connection times out (`cut` in
`EndSeen`, which shows that this is the only way to miss the end).
`includes/ServerManager.hpp:142` says that a connection is queued "if not already
queued": the entry of a connection that was dropped while queued stays in the
deque, and becomes live again when a new connection gets the address; it is then
queued twice and served twice per round.  `includes/ServerManager.hpp:157` says
that `_sweepTimeouts` "drops" idle connections: it sends a 408 and leaves the
timer as it is, so that a client that does not read is found idle by every later
sweep and never dropped.  `includes/Response.hpp:69` says that `sendSlice` returns
"true if the entire response is finished": it does so for every `send()` that
returns -1, also for EAGAIN.

## 4. Proofs

TLAPS proves the following for every value of the constants that satisfies the
named assumptions of the modules.

`EventLoopProof`, for any set of connections and of descriptors, any budget,
event buffer and time-outs (`NamesAssumption`, `LimitsAssumption`,
`TimeoutsAssumption`: the absent values are no addresses or descriptors, and the
CGI time-out is not longer than the connection time-out, which 10 and 60
satisfy):

- `TypeCorrect`: `TypeOK` holds always.
- `Invariance`: `IInv` of `EventLoopInv` holds always.  One part of it holds
  whatever happens to descriptors: who is in `_connections` and may hold a pipe
  (`ClientMap`), that a pipe registered for a connection that no longer waits is
  already past its time-out (`PipeMap`, with the age of the pipe at least the
  idle time of its connection), `NoLostWakeup`, and that no event is pending
  between batches (`BatchOver`).  The other part holds until a hang-up closes a
  file: that every live connection is in the map, every waiting one has its pipe
  registered and a pending event of an open pipe is for a registered one
  (`Reachable`), that the interest list is the clients and the registered pipes
  (`Interest`), and that each descriptor of a client, pipe or file has one owner
  (`Ownership`).  That a server stays in the second part for as long as no
  hang-up meets a file is what has to be shown of the files: a handler gets
  numbers that are free, and `~Connection` closes only what is its own.
- From it `NoDanglingPointerHolds`, `NoLostWakeupHolds`, `CgiRegistrationHolds`,
  `EpollCorrect`, `DescriptorsOwnedHolds`, with the condition on `stray` that their
  properties have.
- `LifecycleRefined`: every step of the loop is a step of `ConnLifecycle` or a
  stutter, so the loop implements it.
- `EntriesInTurn`: while a connection waits for its slice its queue entry is not
  lost and never moves back, and every entry that a pass takes moves it one place
  towards the head.  `QueueMoves` lists what a step can do to the deque.

The first part goes conjunct by conjunct: one lemma for each (`TypeStep`,
`ClientMapStep`, `WakeupStep`, `PipeMapStep`, `BatchStep`), with one step per
action.  The second goes by action, because its three conjuncts need one another:
`SoundStep` collects a lemma for each handler that touches descriptors, and
`StrayStep` says that nothing takes back that a file was closed.  What
`Descriptors` does is stated once, by its types (`DescriptorsType`) and by what is
free before and owned after (`DescriptorsDisjoint`).  `HandleConnectionCases`
reduces `_handleConnection` to the moves it can make, and `ElemsTail` and
`ElemsAppend` say what the deque holds after its head is taken and after something
is put at its end.

`ResponseSenderProof`, for any sizes of headers, bodies, file and buffer
(`SizesAssumption`): `TypeCorrect`, `CurrentPrefixHolds`, `EntireUnlessCutHolds`,
`LengthKeptHolds`, `EverySendAdvances`.  The prefix property is not inductive: that the next byte sent
is the right one depends on the buffer.  The invariant adds that the count is
the number of bytes received (`Counted`), that during the header fewer than
`headerSize` bytes are out (`HeaderPart`), that the bytes left in the buffer
start where the client is, belong to the current page and end at the file's
offset (`FilePart`), that what is in memory is not sent past its end
(`RamPart`), that a page has either a file or a body in the store (`OneBody`),
that nothing is sent before a page is built (`Unbuilt`), and that a file which
differs from its announced length was seen to change (`Watched`).
`EverySendAdvances` measures what is left of a page (`Left`: twice the bytes that
are not out, and one more while the buffer is empty): while a page in memory or a
served file goes out nothing makes it more, and every step of `sendSlice` but the
last makes it less, also when the file changes meanwhile.

`DataStoreProof`, for any stores, bytes, limit and number of names:
`TypeCorrect`, `HoldsAlways`, `FilesOwnedHolds` and `PromiseKept`, that a
`DataStore` implements `ByteStore`.  The invariant is the conjunction of
`TypeOK`, `Holds` and the three parts of `FilesOwned`: a store keeps its bytes
only because no other store writes into its file, and a new file is nobody's
only because the files on the disk are accounted for.  For each action a lemma
says what the store acted on has afterwards (`...Own`), and `OthersKept` that
the rest is as it was; `StepSimulation` and `CrashSimulation` map the steps to
`ByteStore`.

`CgiChildrenProof`, for any requests, any finite set of process numbers and any
limit (`ChildrenAssumption`): `TypeCorrect`, `ActiveAreChildrenHolds`,
`LimitKeptHolds`, `NoneLeftHolds`.  The invariant adds that a number some request
waits for was given to it (`Waiting`), when events may be pending (`Between`)
and what is left at the end (`Ended`).  The limit needs cardinalities and follows
from a second invariant, `LimitedInv`, which uses the first.

`RequestReaderProof`, for any requests, any cuts, limits, slices and range of a
`size_t`: `TypeCorrect`, `BodyIsPayloadHolds`, `LengthReachedHolds`,
`DecodedHolds`, `ErrorsMeantHolds`, `EndSeenHolds`, `EverySliceAdvances`.  The
invariant adds that what has arrived is part of the request and agrees with the
states (`Within`, `HeaderTaken`, `DecoderIdle`), that no chunk is taken for more of the
data than lies before it (`AtChunk`), that between two chunks the
buffer begins with the next one and the data before it is decoded
(`BetweenChunks`), and that a terminator of which a part has arrived was cut
(`CutKnown`).  That the decoder finds the size line of a chunk and no other line
end before it is where `Framed` is used; `Part`, `Join` and `PartOfPart` say what
`substr`, `erase` and `append` make of the bytes.  `EverySliceAdvances` measures the
bytes the decoder has still to read and to take out of its buffer (`Work`): every
pass of the loop of `processBodySlice` makes that less for any body shorter than
the range of a `size_t`, malformed or not (beyond it the sum of
`_totalBytesNeeded` may wrap to nothing), and so does every slice of a well-formed
body that is all there, in memory or in a file.  For the latter `Placed` adds that the end of
such a body is still to be read as long as it is not decoded.

`ResponseBuilderProof`, for any clients, requests, servers and sizes:
`TypeCorrect`, `DescriptorsClosedHolds`, `UploadKeptHolds`, `BytesInPlaceHolds`,
`ChangesAllowedHolds`, `EverySliceAdvances`.  The invariant adds that a request no handler has seen has opened nothing
(`Fresh`), that what an upload has open is what it opened (`Opened`), that nobody
else has the file of an upload open that is not shared (`Alone`), that such an
upload goes on at the end of its file (`AtEnd`), and that positions stay within
the body (`WithinBody`).  `Written` says what `write()` at a position makes of a
file and `Continued` that the beginning of a body with the next part after it is a
longer beginning; `SliceKeeps` serves the two handlers that write, `EndStep` all
the others.  For `ChangesAllowed` lemmas show that what `matchLocation` keeps while it
goes through the locations, in any order, is the longest of those that are a
prefix up to a `/`, and `Uploading` that whoever writes in a slice was let in by
`_handlePost` before.  `EverySliceAdvances` says that a request is dispatched once,
and that a slice after which the upload goes on has written a byte at least and
left one.

`StartUpProof`, for any tokens, numbers and widths of the machine
(`NumbersAssumption`, `BoundsAssumption`), files of any length and any number of
servers:
`TypeCorrect`, `EachListensHolds`, `NothingLeftHolds`.  The invariant adds that
while sockets are opened the first `n` servers have the descriptors 1 to `n`, and
nobody else has one (`Listening`).

`UnderstoodProof`, from the same assumptions: `UnderstoodHolds`, that the
configuration the parser has built is what its file says, for every file that is
`Plain` and whose numbers fit, of any length and with any number of blocks.  The
parser goes through the file once, while the reference looks at all of it from
outside, so that the invariant has to say what the beginning of a file means:

- Each action reads one phrase, some words and the delimiter after them (`Reads`,
  `Phrase`).  Lemmas say what a file means after such a step: the depth of earlier
  positions stays (`Braces` counts them), directives are added only at the place
  where the phrase begins (`DirectivesJoined`, `InJoined`), a block that was closed
  stays closed (`CompleteJoined`), what a block says of every other directive is
  as before (`SaysKept`), and of this one it says the new value after, or instead
  of, the old ones (`SaysMore`).
- The locations of a block and the blocks of a file are taken in the order of
  their positions (`Ordered`, `Enumerates`); a position behind the others becomes
  the last of the list.
- `UnderstoodInv` says, of a file that is `Plain` and whose numbers fit, that
  between two blocks the servers are what the blocks read so far mean (`Top`), and
  that inside a block `conf` and `loc` are what the open blocks say as far as they
  are read (`InServer`, `InLocation`).

`SizeIs` and `AddressIs` connect `Atoi` and the arithmetic of sizes with the numbers
that are meant; this is where `NumbersFit` is used.

Only model-checked: the liveness properties `Served`, `Stops`, `CgiAnswered`,
`Finishes`, `DecodingEnds` and `Answered`, which need fairness and `ENABLED`.  What
four of them need besides, that every step of the kind that is repeated gets
nearer to the end, is proved as an action property: `EntriesInTurn` for `Served`,
`EverySendAdvances` for `Finishes`, and the two theorems `EverySliceAdvances` for
`DecodingEnds` and `Answered`.  All other properties of the passing runs are
theorems.

## 5. Plan

In this order; each line is one module with its runs.

1. `EventLoop`, `ConnLifecycle`: done, with proofs.
2. `ResponseSender`: done, with proofs.
3. `DataStore`, `ByteStore`: done, with proofs.
4. `CgiChildren`: done, with proofs.
5. `RequestReader`: done, with proofs.
6. `ResponseBuilder` (uploads in slices and `matchLocation`): done, with proofs.
7. `StartUp`: done, with proofs.
8. `DataStore` composed with `CgiChildren`: a child whose `execve` failed unwinds
   through `main` and removes the temporary files of the bodies its parent still
   uses.
9. The text of a request: the request line, header fields and cookies
   (`Request::parseHeaders`).

Questions seen in reading and still to be put to a model:

- `includes/CGIManager.hpp:56` speaks of SIGTERM at the shutdown; `ExecFails` sends
  it to the siblings of a child that could not start.
- `includes/Response.hpp` says that `cgiTimeout` kills the CGI process; after
  `_reapFinishedActivePids` the number may be that of another one.

## 6. Not modelled

The tokenizer of the configuration and the text of request headers: the models
start from tokens and from what a header announces.  Response header text, MIME
types, dates, cookies and directory listings are formatting.  `isPathSafe` asks
whether a path built from the root begins with the root, so that its 400 is never
sent.  The copy constructors of the manager classes, `addListenPort` and
`getServerConfForFd` are not used by the program.
