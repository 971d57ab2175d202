---------------------------- MODULE ResponseBuilder ----------------------------
(* How requests become responses and change the site: Response::buildResponse  *)
(* and the handlers below it, for several clients over one file system.  An    *)
(* upload is written in slices to its destination; others run between them.    *)
(* A URL or path is a sequence of characters.  A file is an inode: an upload   *)
(* that makes one gives it the name of its client.                             *)
EXTENDS Integers, Sequences

CONSTANTS
    Client,           \* connections, each with one request
    Requests,         \* what they ask for
    Servers,          \* by name, getLocations() of each server
    InitialFiles,     \* paths of the regular files at the start
    Directories, Specials,   \* paths of other things
    UploadName,       \* "upload_" and the second, by second
    MaxTime,          \* bound: the last second
    BufferLimit,      \* BUFFERLIMIT: a longer body is kept in a file
    WriteBufferSize,  \* RESPONSE_SEND_CHUNK
    Closed,           \* -1, no descriptor
    Zero, Old         \* bytes nobody wrote, and those there at the start

Methods == {"GET", "POST", "DELETE"}
Path == Seq(STRING)

ASSUME RequestsAssumption ==
    \A q \in Requests : /\ q.method \in Methods /\ q.url \in Path
                        /\ q.statusCode \in Nat /\ q.size \in Nat
                        /\ q.server \in DOMAIN Servers

ASSUME LocationsAssumption ==
    /\ \A s \in DOMAIN Servers :
         Servers[s] \in Seq([path : Path, methods : SUBSET Methods,
                             returnCode : Nat, cgi : SUBSET Path, root : Path,
                             defaultPage : Path, autoIndex : BOOLEAN,
                             storage : Path])
    /\ InitialFiles \subseteq Path
    /\ MaxTime \in Nat /\ UploadName \in [0..MaxTime -> Path]

ASSUME SizesAssumption ==
    BufferLimit \in Nat /\ WriteBufferSize \in Nat \ {0}

ASSUME NamesAssumption ==
    Client \cap InitialFiles = {} /\ Closed \notin Client \cup InitialFiles

Inode == Client \cup InitialFiles
Byte  == (Client \X (Nat \ {0})) \cup {Zero, Old}

VARIABLES
    request,      \* of each client
    state,        \* Connection::_state
    buildPhase,   \* _buildPhase
    statusCode,   \* _statusCode
    fileFd,       \* _fileFd, as the inode
    postOutFd,    \* _postOutFd, as the inode
    postWritePos, \* _postWritePos, or the read position of a body in a file
    files,        \* the directory entries: path to inode
    content,      \* what is in an inode
    now,          \* time()
    dest,         \* the inode that a client's upload opened, also when closed
    shared,       \* uploads whose file another one opened meanwhile or later
    removed       \* uploads whose file was deleted

response == <<state, buildPhase, statusCode, fileFd, postOutFd>>
site     == <<files, content, postWritePos, dest, shared, removed>>
vars     == <<request, response, site, now>>

TypeOK ==
    /\ request \in [Client -> Requests]
    /\ state \in [Client -> {"PROCESSING", "WAITING_FOR_CGI", "WRITING", "FINISHED"}]
    /\ buildPhase \in [Client -> {"BUILD_IDLE", "BUILD_POST_WRITING",
                                  "BUILD_CGI_RUNNING", "BUILD_DONE"}]
    /\ statusCode \in [Client -> Nat]
    /\ fileFd \in [Client -> Inode \cup {Closed}]
    /\ postOutFd \in [Client -> Inode \cup {Closed}]
    /\ postWritePos \in [Client -> Nat]
    /\ files \in [DOMAIN files -> Inode]
    /\ content \in [Inode -> Seq(Byte)]
    /\ now \in 0..MaxTime
    /\ dest \in [Client -> Inode \cup {Closed}]
    /\ shared \subseteq Client /\ removed \subseteq Client

Init ==
    /\ request \in [Client -> Requests]
    /\ state = [c \in Client |-> "PROCESSING"]
    /\ buildPhase = [c \in Client |-> "BUILD_IDLE"]
    /\ statusCode = [c \in Client |-> 200]
    /\ fileFd = [c \in Client |-> Closed]
    /\ postOutFd = [c \in Client |-> Closed]
    /\ postWritePos = [c \in Client |-> 0]
    /\ files = [p \in InitialFiles |-> p]
    /\ content = [i \in Inode |-> IF i \in InitialFiles THEN <<Old>> ELSE <<>>]
    /\ now = 0
    /\ dest = [c \in Client |-> Closed]
    /\ shared = {} /\ removed = {}

-----------------------------------------------------------------------------
(* Paths.                                                                      *)

Least(a, b) == IF a < b THEN a ELSE b

MatchesPrefix_Characters(lpath, url) ==
    lpath = <<"/">> \/ SubSeq(url, 1, Least(Len(lpath), Len(url))) = lpath

(* The test of matchLocation for one location.                                 *)
MatchesPrefix(lpath, url) ==
    \/ lpath = <<"/">>
    \/ url = lpath
    \/ /\ Len(url) > Len(lpath) /\ url[Len(lpath) + 1] = "/"
       /\ SubSeq(url, 1, Len(lpath)) = lpath

(* matchLocation: the last of the longest that match, or 0.                    *)
MatchLocation(url, locations) ==
    LET matching == {k \in 1..Len(locations) : MatchesPrefix(locations[k].path, url)}
        longer(i, k) == \/ Len(locations[i].path) > Len(locations[k].path)
                        \/ /\ Len(locations[i].path) = Len(locations[k].path)
                           /\ i >= k
    IN  IF matching = {} THEN 0
        ELSE CHOOSE i \in matching : \A k \in matching : longer(i, k)

Route == [q \in Requests |-> MatchLocation(q.url, Servers[q.server])]

LocationsOf(c) == Servers[request[c].server]

LocationOf(c) == LocationsOf(c)[Route[request[c]]]

(* What follows the last character ch of the path; all of it without one.      *)
AfterLast(path, ch) ==
    LET last == CHOOSE n \in 0..Len(path) :
                  /\ n = 0 \/ path[n] = ch
                  /\ \A k \in (n + 1)..Len(path) : path[k] # ch
    IN  SubSeq(path, last + 1, Len(path))

(* extractFilenameFromUrl: a URL begins with "/".                              *)
FilenameOf(url) == AfterLast(url, "/")

(* getFileExtension, without its dot.                                          *)
ExtensionOf(url) ==
    LET name == FilenameOf(url)
    IN  IF \E n \in 1..Len(name) : name[n] = "." THEN AfterLast(name, ".") ELSE <<>>

(* root + url, without a "/" at the end.  It has the prefix root, which is all *)
(* that isPathSafe asks, so that its 400 is never sent.                        *)
ResolvedPath(c) ==
    LET path == LocationOf(c).root \o request[c].url
    IN  IF Len(path) > 1 /\ path[Len(path)] = "/"
        THEN SubSeq(path, 1, Len(path) - 1) ELSE path

-----------------------------------------------------------------------------
(* Answers.                                                                    *)

(* A page in memory is ready to be sent.                                       *)
Answer(c, code) ==
    /\ statusCode' = [statusCode EXCEPT ![c] = code]
    /\ state' = [state EXCEPT ![c] = "WRITING"]

BuildErrorPage_KeepsPost(c, code) ==
    /\ Answer(c, code)
    /\ buildPhase' = [buildPhase EXCEPT ![c] = "BUILD_DONE"]
    /\ fileFd' = [fileFd EXCEPT ![c] = Closed]
    /\ UNCHANGED postOutFd

(* buildErrorPage.                                                             *)
BuildErrorPage(c, code) ==
    /\ Answer(c, code)
    /\ buildPhase' = [buildPhase EXCEPT ![c] = "BUILD_DONE"]
    /\ fileFd' = [fileFd EXCEPT ![c] = Closed]
    /\ postOutFd' = [postOutFd EXCEPT ![c] = Closed]

Building(c) == state[c] = "PROCESSING" /\ buildPhase[c] = "BUILD_IDLE"

(* buildResponse, up to the choice of a handler.                               *)
Routed(c) ==
    /\ Building(c) /\ request[c].statusCode = 200
    /\ Route[request[c]] \in 1..Len(LocationsOf(c))

Permitted(c) == Routed(c) /\ request[c].method \in LocationOf(c).methods

Refuse(c) ==
    /\ Building(c)
    /\ \/ request[c].statusCode # 200 /\ BuildErrorPage(c, request[c].statusCode)
       \/ /\ request[c].statusCode = 200
          /\ Route[request[c]] \notin 1..Len(LocationsOf(c))
          /\ BuildErrorPage(c, 404)
       \/ Routed(c) /\ ~Permitted(c) /\ BuildErrorPage(c, 405)
    /\ UNCHANGED <<request, site, now>>

Redirect(c) ==
    /\ Permitted(c) /\ LocationOf(c).returnCode # 0
    /\ Answer(c, LocationOf(c).returnCode)
    /\ UNCHANGED <<request, buildPhase, fileFd, postOutFd, site, now>>

IsCgi(c) == ExtensionOf(request[c].url) \in LocationOf(c).cgi

(* The method decides.                                                         *)
Handled(c, method) ==
    /\ Permitted(c) /\ LocationOf(c).returnCode = 0 /\ ~IsCgi(c)
    /\ request[c].method = method

-----------------------------------------------------------------------------
(* _handleCGI; what happens to the script is in CgiChildren.                   *)

HandleCGI(c) ==
    /\ Permitted(c) /\ LocationOf(c).returnCode = 0 /\ IsCgi(c)
    /\ IF LocationOf(c).root \o request[c].url \in DOMAIN files
       THEN \/ \E code \in {500, 503} : BuildErrorPage(c, code)
            \/ /\ state' = [state EXCEPT ![c] = "WAITING_FOR_CGI"]
               /\ buildPhase' = [buildPhase EXCEPT ![c] = "BUILD_CGI_RUNNING"]
               /\ UNCHANGED <<statusCode, fileFd, postOutFd>>
       ELSE BuildErrorPage(c, 404)
    /\ UNCHANGED <<request, site, now>>

(* finalizeCgiResponse, or cgiTimeout.                                         *)
CgiEnds(c) ==
    /\ state[c] = "WAITING_FOR_CGI"
    /\ \/ /\ Answer(c, 200)
          /\ buildPhase' = [buildPhase EXCEPT ![c] = "BUILD_DONE"]
          /\ UNCHANGED <<fileFd, postOutFd>>
       \/ \E code \in {502, 504} : BuildErrorPage(c, code)
    /\ UNCHANGED <<request, site, now>>

-----------------------------------------------------------------------------
(* _handleGet.                                                                 *)

(* _serveFile; open() may fail.                                                *)
ServeFile(c, path) ==
    \/ /\ Answer(c, 200)
       /\ fileFd' = [fileFd EXCEPT ![c] = files[path]]
       /\ UNCHANGED <<buildPhase, postOutFd>>
    \/ BuildErrorPage(c, 404)

HandleGet(c) ==
    LET loc   == LocationOf(c)
        path  == ResolvedPath(c)
        index == path \o <<"/">> \o loc.defaultPage
        indexed == loc.defaultPage # <<>> /\ index \in DOMAIN files
    IN  /\ Handled(c, "GET")
        /\ \/ path \in DOMAIN files /\ ServeFile(c, path)
           \/ path \in Directories /\ indexed /\ ServeFile(c, index)
           \/ /\ path \in Directories /\ ~indexed /\ loc.autoIndex
              /\ \/ Answer(c, 200) /\ UNCHANGED <<buildPhase, fileFd, postOutFd>>
                 \/ BuildErrorPage(c, 500)
           \/ /\ path \in Directories /\ ~indexed /\ ~loc.autoIndex
              /\ BuildErrorPage(c, 403)
           \/ path \in Specials /\ BuildErrorPage(c, 403)
           \/ /\ path \notin DOMAIN files \cup Directories \cup Specials
              /\ BuildErrorPage(c, 404)
        /\ UNCHANGED <<request, site, now>>

-----------------------------------------------------------------------------
(* _handleDelete.                                                              *)

HandleDelete(c) ==
    LET path == ResolvedPath(c)
    IN  /\ Handled(c, "DELETE")
        /\ \/ /\ path \in DOMAIN files /\ Answer(c, 204)
              /\ files' = [p \in DOMAIN files \ {path} |-> files[p]]
              /\ removed' = removed \cup {d \in Client : dest[d] = files[path]}
              /\ UNCHANGED <<buildPhase, fileFd, postOutFd>>
           \/ /\ \/ /\ path \in DOMAIN files
                    /\ \E code \in {403, 500} : BuildErrorPage(c, code)
                 \/ path \in Directories \cup Specials /\ BuildErrorPage(c, 403)
                 \/ /\ path \notin DOMAIN files \cup Directories \cup Specials
                    /\ BuildErrorPage(c, 404)
              /\ UNCHANGED <<files, removed>>
        /\ UNCHANGED <<request, content, postWritePos, dest, shared, now>>

-----------------------------------------------------------------------------
(* _handlePost and _continuePostWrite.                                         *)

InRam(c) == request[c].size <= BufferLimit

Data_FromStart(c, pos, n) == [k \in 1..n |-> <<c, k>>]

(* n bytes of a client's body from position pos.                               *)
Data(c, pos, n) == [k \in 1..n |-> <<c, pos + k>>]

(* write() at position pos of a file: what lies between its end and pos reads  *)
(* as zeros.                                                                   *)
WriteAt(old, pos, data) ==
    LET end == IF Len(old) > pos + Len(data) THEN Len(old) ELSE pos + Len(data)
    IN  [k \in 1..end |->
           IF k \in (pos + 1)..(pos + Len(data)) THEN data[k - pos]
           ELSE IF k <= Len(old) THEN old[k] ELSE Zero]

(* How much one write() takes: part of a body in memory, all of what was read  *)
(* of one in a file.                                                           *)
Lengths(c, pos) ==
    LET n == Least(request[c].size - pos, WriteBufferSize)
    IN  IF InRam(c) /\ n > 0 THEN 1..n ELSE {n}

AllWritten_Beyond(c, pos) == pos > request[c].size

AllWritten(c, pos) == pos >= request[c].size

(* _continuePostWrite from position pos of inode i, the files being base.      *)
SliceWrites(c, i, pos, base) ==
    \E n \in Lengths(c, pos) :
        /\ content' = [base EXCEPT ![i] = WriteAt(@, pos, Data(c, pos, n))]
        /\ postWritePos' = [postWritePos EXCEPT ![c] = pos + n]
        /\ IF AllWritten(c, pos + n)
           THEN /\ Answer(c, 201)
                /\ buildPhase' = [buildPhase EXCEPT ![c] = "BUILD_DONE"]
                /\ postOutFd' = [postOutFd EXCEPT ![c] = Closed]
           ELSE /\ buildPhase' = [buildPhase EXCEPT ![c] = "BUILD_POST_WRITING"]
                /\ postOutFd' = [postOutFd EXCEPT ![c] = i]
                /\ UNCHANGED <<state, statusCode>>
        /\ UNCHANGED fileFd

SliceFails_Counts(c, i, pos, base) ==
    /\ BuildErrorPage(c, 500) /\ content' = base
    /\ postWritePos' = [postWritePos EXCEPT ![c] = pos - 1]

(* write() fails, or takes a part of what was read from a file: 500.  SIGPIPE  *)
(* is noticed before or after it: 502, the position as it was.                 *)
SliceFails(c, i, pos, base) ==
    /\ \/ /\ BuildErrorPage(c, 500) /\ request[c].size > 0
          /\ \/ content' = base
             \/ /\ ~InRam(c)
                /\ \E m \in Lengths(c, pos) : \E n \in 1..(m - 1) :
                     content' = [base EXCEPT ![i] = WriteAt(@, pos, Data(c, pos, n))]
       \/ /\ BuildErrorPage(c, 502)
          /\ \/ content' = base
             \/ \E n \in Lengths(c, pos) :
                  content' = [base EXCEPT ![i] = WriteAt(@, pos, Data(c, pos, n))]
    /\ postWritePos' = [postWritePos EXCEPT ![c] = pos]

Slice(c, i, pos, base) == SliceWrites(c, i, pos, base) \/ SliceFails(c, i, pos, base)

Destination(c) ==
    LET name == FilenameOf(request[c].url)
    IN  LocationOf(c).storage \o <<"/">> \o
          (IF name = <<>> THEN UploadName[now] ELSE name)

Truncated_Not(i) == content

(* open() with O_TRUNC empties the file for all who have it open.              *)
Truncated(i) == [content EXCEPT ![i] = <<>>]

PostRefused(c) ==
    /\ Handled(c, "POST")
    /\ \/ LocationOf(c).storage = <<>> /\ BuildErrorPage(c, 503)
       \/ LocationOf(c).storage # <<>> /\ BuildErrorPage(c, 500)
    /\ UNCHANGED <<request, site, now>>

(* The file is opened, and the first slice written in the same call.           *)
HandlePost(c) ==
    LET path == Destination(c)
        i    == IF path \in DOMAIN files THEN files[path] ELSE c
    IN  /\ Handled(c, "POST") /\ LocationOf(c).storage # <<>>
        /\ path \notin Directories \cup Specials
        /\ files' = [p \in DOMAIN files \cup {path} |->
                       IF p = path THEN i ELSE files[p]]
        /\ dest' = [dest EXCEPT ![c] = i]
        /\ shared' = shared \cup {d \in Client \ {c} : dest[d] = i}
                       \cup {d \in {c} : \E e \in Client \ {c} : postOutFd[e] = i}
        /\ Slice(c, i, 0, Truncated(i))
        /\ UNCHANGED <<request, removed, now>>

ContinuePostWrite(c) ==
    /\ state[c] = "PROCESSING" /\ buildPhase[c] = "BUILD_POST_WRITING"
    /\ Slice(c, postOutFd[c], postWritePos[c], content)
    /\ UNCHANGED <<request, files, dest, shared, removed, now>>

-----------------------------------------------------------------------------
(* A slice of process().                                                       *)
Process(c) ==
    \/ Refuse(c) \/ Redirect(c) \/ HandleCGI(c) \/ HandleGet(c) \/ HandleDelete(c)
    \/ PostRefused(c) \/ HandlePost(c) \/ ContinuePostWrite(c)

(* The sweep finds the connection idle; so it may while its answer is sent.    *)
Timeout(c) ==
    /\ state[c] # "FINISHED"
    /\ BuildErrorPage(c, 408)
    /\ UNCHANGED <<request, site, now>>

(* The connection is dropped, by a hang-up or when its response is sent.       *)
Drop(c) ==
    /\ state[c] # "FINISHED"
    /\ state' = [state EXCEPT ![c] = "FINISHED"]
    /\ fileFd' = [fileFd EXCEPT ![c] = Closed]
    /\ postOutFd' = [postOutFd EXCEPT ![c] = Closed]
    /\ UNCHANGED <<request, buildPhase, statusCode, site, now>>

Tick ==
    /\ now < MaxTime /\ now' = now + 1
    /\ UNCHANGED <<request, response, site>>

Next == Tick \/ \E c \in Client : Process(c) \/ CgiEnds(c) \/ Timeout(c) \/ Drop(c)

Spec == Init /\ [][Next]_vars

(* A connection in PROCESSING gets its slices (Served of EventLoop); that they *)
(* fail is not what ends an upload.                                            *)
FairSpec ==
    /\ Spec
    /\ \A c \in Client :
         /\ WF_vars(Building(c) /\ Process(c))
         /\ WF_vars(ContinuePostWrite(c) /\ statusCode'[c] \notin {500, 502})

-----------------------------------------------------------------------------
(* Every descriptor an answer needs is open while it is needed and no longer,  *)
(* whatever failed (buildErrorPage, _continuePostWrite, ~Response).            *)
DescriptorsClosed ==
    \A c \in Client :
        /\ postOutFd[c] # Closed
             <=> state[c] = "PROCESSING" /\ buildPhase[c] = "BUILD_POST_WRITING"
        /\ fileFd[c] # Closed => state[c] = "WRITING" /\ statusCode[c] = 200

(* An upload whose file no other one opened since holds the beginning of its   *)
(* body, whatever failed; all of it when 201 says so, under a name unless it   *)
(* was deleted (_handlePost, _continuePostWrite).                              *)
UploadKept ==
    \A c \in Client : dest[c] # Closed /\ c \notin shared =>
        /\ Len(content[dest[c]]) <= request[c].size
        /\ content[dest[c]] = Data(c, 0, Len(content[dest[c]]))
        /\ statusCode[c] = 201 => Len(content[dest[c]]) = request[c].size
        /\ c \notin removed => \E p \in DOMAIN files : files[p] = dest[c]

(* Uploads that share a file mix, but each byte lies where it was in its body  *)
(* (_continuePostWrite).                                                       *)
BytesInPlace ==
    \A i \in Inode : \A k \in 1..Len(content[i]) :
        \/ content[i][k] \in {Zero, Old}
        \/ \E d \in Client : dest[d] = i /\ content[i][k] = <<d, k>>

(* Whole segments of the URL.                                                  *)
Covers(lpath, url) ==
    lpath = <<"/">>
      \/ \E rest \in {SubSeq(url, n, Len(url)) : n \in 1..(Len(url) + 1)} :
            url = lpath \o rest /\ (rest = <<>> \/ rest[1] = "/")

(* The locations that are responsible for a request: the most specific.        *)
Governing(q) ==
    LET locations == Servers[q.server]
        covering  == {k \in 1..Len(locations) : Covers(locations[k].path, q.url)}
    IN  {locations[k] : k \in
           {i \in covering : \A k \in covering :
              Len(locations[k].path) <= Len(locations[i].path)}}

MayChange(c, method) ==
    /\ state[c] = "PROCESSING" /\ request[c].method = method
    /\ \E loc \in Governing(request[c]) :
         method \in loc.methods /\ loc.returnCode = 0

(* The site changes only by requests whose location, the most specific one,    *)
(* allows their method and does not redirect, and a deletion takes one file    *)
(* (buildResponse, matchLocation, _handleDelete).                              *)
ChangesAllowed ==
    [][/\ content' # content \/ DOMAIN files' \ DOMAIN files # {}
            => \E c \in Client : MayChange(c, "POST")
       /\ DOMAIN files \ DOMAIN files' # {}
            => \E c \in Client : /\ MayChange(c, "DELETE")
                                 /\ statusCode'[c] = 204 /\ state'[c] = "WRITING"]_vars

(* Every request is answered after finitely many slices, however large its     *)
(* body (process, buildResponse).                                              *)
Answered == \A c \in Client : state[c] = "PROCESSING" ~> state[c] # "PROCESSING"
=============================================================================
