------------------------------- MODULE StartUp -------------------------------
(* From the configuration file to the listening sockets: ConfigParser::parse   *)
(* with the recursive descent below it, and the constructor of ServerManager.  *)
(* The file is a sequence of tokens that is chosen while it is read; what the  *)
(* characters of a token say (digits, suffixes, addresses) is given by tables. *)
EXTENDS Integers, Sequences, FiniteSets, FiniteSetsExt, SequencesExt

CONSTANTS
    Text,        \* tokens tried where any token will do
    Number,      \* by token that consists of digits, its value
    Codes,       \* those of three digits
    Suffixed,    \* by token that ends in k, m or g, its digits and the factor
    Addresses,   \* by token with a colon, its host and port
    Resolve,     \* getaddrinfo: by host, the address
    IntRange,    \* 2^32
    LongRange,   \* 2^64
    MaxPort,     \* 65535
    MaxTokens,   \* bound: length of the file
    MaxMethods   \* bound: methods in one directive

AnyHost == "0.0.0.0"

(* The tokens of one character (_tokenize).                                    *)
LBrace    == "{"
RBrace    == "}"
Semicolon == ";"

ASSUME NumbersAssumption ==
    /\ Number \in [DOMAIN Number -> Nat] /\ Codes \subseteq DOMAIN Number
    /\ \A v \in DOMAIN Suffixed : Suffixed[v].factor \in Nat \ {0}
    /\ {MaxPort, IntRange, LongRange} \subseteq Nat
    /\ 0 < MaxPort /\ MaxPort < IntRange \div 2 /\ IntRange < LongRange

ASSUME BoundsAssumption == MaxTokens \in Nat /\ MaxMethods \in Nat

VARIABLES
    pc,          \* where the parser or the constructor is
    file,        \* the tokens up to _pos
    servers,     \* parsedConfs
    conf, loc,   \* of _parseServerBlock and _parseLocationBlock
    address,     \* of the open listening sockets, as the kernel has it
    listenFdToServerConf,   \* _listenFdToServerConf, as an index of servers
    fdEvents     \* the descriptors in _fdEvents

reading == <<file, servers, conf, loc>>
sockets == <<address, listenFdToServerConf, fdEvents>>
vars    == <<pc, reading, sockets>>

Methods == {"GET", "POST", "DELETE"}

NoServer == [name |-> "", listen |-> [host |-> AnyHost, port |-> 0], maxBodySize |-> 0,
             locations |-> <<>>, errorPages |-> <<>>]

NoLocation == [path |-> "", root |-> "", methods |-> {}, returnCode |-> "",
               returnURL |-> "", autoIndex |-> FALSE, defaultPage |-> "",
               storage |-> "", cgi |-> <<>>]

(* setDefaults, for a server started without a file; a small size and port     *)
(* stand for its own.                                                          *)
DefaultServer ==
    [name |-> "LeftHookRoll", listen |-> [host |-> AnyHost, port |-> 1],
     maxBodySize |-> 1, locations |-> <<>>, errorPages |-> <<>>]

-----------------------------------------------------------------------------
(* Numbers.                                                                    *)

LongMax == LongRange \div 2 - 1

(* strtol, behind atol and atoi, stops at its limit.                           *)
Strtol(digits) == Min({Number[digits], LongMax})

(* atoi keeps the low bits.                                                    *)
Atoi(digits) ==
    LET low == Strtol(digits) % IntRange
    IN  IF low < IntRange \div 2 THEN low ELSE low - IntRange

BodySize_Bytes(value) ==
    IF value \in DOMAIN Suffixed THEN Strtol(Suffixed[value].digits) ELSE Strtol(value)

(* _parseBodySize.                                                             *)
BodySize(value) ==
    IF value \in DOMAIN Suffixed
    THEN (Strtol(Suffixed[value].digits) * Suffixed[value].factor) % LongRange
    ELSE Strtol(value)

PortAllowed_SixteenBits(digits) ==
    digits \in DOMAIN Number /\ Atoi(digits) % (MaxPort + 1) > 0

PortAllowed(digits) == digits \in DOMAIN Number /\ Atoi(digits) \in 1..MaxPort

(* _parseSockAddr: what it accepts, and the address.                           *)
ListenAllowed(value) ==
    IF value \in DOMAIN Addresses
    THEN PortAllowed(Addresses[value].port) /\ Addresses[value].host \in DOMAIN Resolve
    ELSE PortAllowed(value)

SockAddr(value) ==
    IF value \in DOMAIN Addresses
    THEN [host |-> Resolve[Addresses[value].host], port |-> Atoi(Addresses[value].port)]
    ELSE [host |-> AnyHost, port |-> Atoi(value)]

Assigned_Inserted(map, key, value) ==
    [k \in DOMAIN map \cup {key} |-> IF k \in DOMAIN map THEN map[k] ELSE value]

(* A std::map after an assignment to one of its keys.                          *)
Assigned(map, key, value) ==
    [k \in DOMAIN map \cup {key} |-> IF k = key THEN value ELSE map[k]]

-----------------------------------------------------------------------------
(* Parsing.  An action takes the tokens that one call of a handler takes.      *)

Init ==
    /\ \/ pc = "top" /\ servers = <<>>
       \/ pc = "binding" /\ servers = <<DefaultServer>>
    /\ file = <<>> /\ conf = NoServer /\ loc = NoLocation
    /\ address = <<>> /\ listenFdToServerConf = <<>> /\ fdEvents = {}

Consume(block, tokens) ==
    /\ pc = block /\ Len(file) + Len(tokens) <= MaxTokens
    /\ file' = file \o tokens
    /\ UNCHANGED sockets

OpenServer ==
    /\ Consume("top", <<"server", LBrace>>)
    /\ pc' = "server" /\ conf' = NoServer
    /\ UNCHANGED <<servers, loc>>

CloseServer ==
    /\ Consume("server", <<RBrace>>)
    /\ pc' = "top" /\ servers' = Append(servers, conf)
    /\ UNCHANGED <<conf, loc>>

SetInServer(tokens, new) ==
    /\ Consume("server", tokens) /\ conf' = new
    /\ UNCHANGED <<pc, servers, loc>>

ParseListen == \E v \in DOMAIN Number \cup DOMAIN Addresses :
    /\ ListenAllowed(v)
    /\ SetInServer(<<"listen", v, Semicolon>>, [conf EXCEPT !.listen = SockAddr(v)])

ParseServerName == \E name \in Text :
    SetInServer(<<"server_name", name, Semicolon>>, [conf EXCEPT !.name = name])

ParseMaxBodySize == \E v \in DOMAIN Number \cup DOMAIN Suffixed :
    /\ v \in DOMAIN Suffixed => Suffixed[v].digits \in DOMAIN Number
    /\ SetInServer(<<"client_max_body_size", v, Semicolon>>,
                   [conf EXCEPT !.maxBodySize = BodySize(v)])

ParseErrorPage == \E code \in Codes, path \in Text :
    SetInServer(<<"error_page", code, path, Semicolon>>,
                [conf EXCEPT !.errorPages = Assigned(@, code, path)])

OpenLocation == \E path \in Text :
    /\ Consume("server", <<"location", path, LBrace>>)
    /\ pc' = "location" /\ loc' = [NoLocation EXCEPT !.path = path]
    /\ UNCHANGED <<servers, conf>>

CloseLocation ==
    /\ Consume("location", <<RBrace>>)
    /\ pc' = "server" /\ conf' = [conf EXCEPT !.locations = Append(@, loc)]
    /\ UNCHANGED <<servers, loc>>

SetInLocation(tokens, new) ==
    /\ Consume("location", tokens) /\ loc' = new
    /\ UNCHANGED <<pc, servers, conf>>

ParseRoot == \E root \in Text :
    SetInLocation(<<"root", root, Semicolon>>, [loc EXCEPT !.root = root])

ParseMethods == \E n \in 1..MaxMethods : \E methods \in [1..n -> Methods] :
    SetInLocation(<<"methods">> \o methods \o <<Semicolon>>,
                  [loc EXCEPT !.methods = @ \cup ToSet(methods)])

ParseAutoIndex == \E value \in {"on", "off"} :
    SetInLocation(<<"autoindex", value, Semicolon>>, [loc EXCEPT !.autoIndex = value = "on"])

ParseIndex == \E page \in Text :
    SetInLocation(<<"index", page, Semicolon>>, [loc EXCEPT !.defaultPage = page])

ParseUploadStore == \E dir \in Text :
    SetInLocation(<<"upload_store", dir, Semicolon>>, [loc EXCEPT !.storage = dir])

ParseReturn == \E code \in DOMAIN Number, url \in Text :
    SetInLocation(<<"return", code, url, Semicolon>>,
                  [loc EXCEPT !.returnCode = code, !.returnURL = url])

ParseCgiInterpreter == \E path, ext \in Text :
    SetInLocation(<<"cgi_interpreter", path, ext, Semicolon>>,
                  [loc EXCEPT !.cgi = Assigned(@, ext, path)])

EndOfFile ==
    /\ pc = "top" /\ servers # <<>>
    /\ pc' = "binding"
    /\ UNCHANGED <<reading, sockets>>

(* ConfigException: another token than is expected, a value that is refused,   *)
(* or the end of the file, which may come in every block.  main() returns 1.   *)
ParseFails ==
    /\ pc \in {"top", "server", "location"}
    /\ pc' = "exited"
    /\ UNCHANGED <<reading, sockets>>

Parse ==
    \/ OpenServer \/ CloseServer \/ OpenLocation \/ CloseLocation
    \/ ParseListen \/ ParseServerName \/ ParseMaxBodySize \/ ParseErrorPage
    \/ ParseRoot \/ ParseMethods \/ ParseAutoIndex \/ ParseIndex
    \/ ParseUploadStore \/ ParseReturn \/ ParseCgiInterpreter
    \/ EndOfFile \/ ParseFails

-----------------------------------------------------------------------------
(* ServerManager::ServerManager.                                               *)

(* bind() refuses the second of two such sockets.  Port 0, which a server      *)
(* without listen has, stands for one that the kernel chooses.                 *)
Conflict(a, b) ==
    a.port # 0 /\ a.port = b.port /\ (a.host = b.host \/ AnyHost \in {a.host, b.host})

Added == Cardinality(DOMAIN listenFdToServerConf)

(* The number socket() returns, counted from the first that was free.          *)
NewFd == Added + 1

Bindable_Always(addr) == TRUE

Bindable(addr) == \A fd \in DOMAIN address : ~Conflict(address[fd], addr)

(* addServer.                                                                  *)
AddServer ==
    LET addr == servers[Added + 1].listen
    IN  /\ pc = "binding" /\ Bindable(addr)
        /\ address' = Assigned(address, NewFd, addr)
        /\ listenFdToServerConf' = Assigned(listenFdToServerConf, NewFd, Added + 1)
        /\ fdEvents' = fdEvents \cup {NewFd}
        /\ pc' = IF Added + 1 = Len(servers) THEN "running" ELSE "binding"
        /\ UNCHANGED reading

Closed_Not(open, events) == open

(* _closeAllFds closes what is in _fdEvents.                                   *)
Closed(open, events) == [fd \in DOMAIN open \ events |-> open[fd]]

(* An exception in addServer ends the constructor: socket() to fcntl() fail,   *)
(* and the socket is closed, or epoll_ctl() does, and it is in no table yet.   *)
AddServerFails ==
    /\ pc = "binding"
    /\ \/ address' = Closed(address, fdEvents)
       \/ LET addr == servers[Added + 1].listen
          IN  /\ Bindable(addr)
              /\ address' = Closed(Assigned(address, NewFd, addr), fdEvents)
    /\ listenFdToServerConf' = <<>> /\ fdEvents' = {}
    /\ pc' = "exited"
    /\ UNCHANGED reading

Next == Parse \/ AddServer \/ AddServerFails

Spec == Init /\ [][Next]_vars

-----------------------------------------------------------------------------
(* What a file f says, read from its tokens alone.                             *)

Delimiters == {LBrace, RBrace, Semicolon}

(* No value is a delimiter.  The parser takes "root ; ;" for a root named ";". *)
Plain(f) ==
    \A n \in 2..Len(f) :
        /\ f[n] \in Delimiters => (f[n - 1] \in Delimiters <=> f[n] = RBrace)
        /\ f[n] = Semicolon => n > 2 /\ f[n - 2] \notin Delimiters

Depth(f, n) == Cardinality({k \in 1..(n - 1) : f[k] = LBrace})
                 - Cardinality({k \in 1..(n - 1) : f[k] = RBrace})

(* Where the directives with this word begin, at this depth.                   *)
Directives(f, word, depth) ==
    {n \in 1..Len(f) : /\ f[n] = word /\ Depth(f, n) = depth
                       /\ n = 1 \/ f[n - 1] \in Delimiters}

(* The block that begins at b ends at n.                                       *)
Ends(f, b, n) == f[n] = RBrace /\ Depth(f, n) = Depth(f, b) + 1

In(f, b, word) ==
    {n \in Directives(f, word, Depth(f, b) + 1) : n > b /\ \A k \in b..n : ~Ends(f, b, k)}

(* Argument k of the last such directive in a block.                           *)
Says(f, b, word, k, default) ==
    IF In(f, b, word) = {} THEN default ELSE f[Max(In(f, b, word)) + k]

(* Of directives with a key, the last for each key counts.                     *)
SaysFor(f, b, word, key, value) ==
    [k \in {f[n + key] : n \in In(f, b, word)} |->
       f[Max({n \in In(f, b, word) : f[n + key] = k}) + value]]

(* The arguments of all such directives in a block.                            *)
SaysAll(f, b, word) ==
    {f[m] : m \in {m \in 1..Len(f) : \E n \in In(f, b, word) :
                     n < m /\ \A k \in n..m : f[k] \notin Delimiters}}

InOrder(S) ==
    [i \in 1..Cardinality(S) |-> Min({n \in S : Cardinality({m \in S : m <= n}) = i})]

NumberMeant(v) ==
    IF v \in DOMAIN Suffixed THEN Number[Suffixed[v].digits] * Suffixed[v].factor
    ELSE Number[v]

AddressMeant(v) ==
    IF v \in DOMAIN Addresses
    THEN [host |-> Resolve[Addresses[v].host], port |-> Number[Addresses[v].port]]
    ELSE [host |-> AnyHost, port |-> Number[v]]

LocationMeant(f, b) ==
    [path |-> f[b + 1],
     root |-> Says(f, b, "root", 1, ""),
     methods |-> SaysAll(f, b, "methods"),
     returnCode |-> Says(f, b, "return", 1, ""),
     returnURL |-> Says(f, b, "return", 2, ""),
     autoIndex |-> Says(f, b, "autoindex", 1, "off") = "on",
     defaultPage |-> Says(f, b, "index", 1, ""),
     storage |-> Says(f, b, "upload_store", 1, ""),
     cgi |-> SaysFor(f, b, "cgi_interpreter", 2, 1)]

LocationsMeant(f, S) == [i \in DOMAIN InOrder(S) |-> LocationMeant(f, InOrder(S)[i])]

ServerMeant(f, b) ==
    [name |-> Says(f, b, "server_name", 1, ""),
     listen |-> IF In(f, b, "listen") = {} THEN NoServer.listen
                ELSE AddressMeant(Says(f, b, "listen", 1, "")),
     maxBodySize |-> IF In(f, b, "client_max_body_size") = {} THEN 0
                     ELSE NumberMeant(Says(f, b, "client_max_body_size", 1, "")),
     locations |-> LocationsMeant(f, In(f, b, "location")),
     errorPages |-> SaysFor(f, b, "error_page", 1, 2)]

ServersMeant(f, S) == [i \in DOMAIN InOrder(S) |-> ServerMeant(f, InOrder(S)[i])]

Blocks(f) == Directives(f, "server", 0)

(* The machine can hold the numbers; it takes others modulo 2^32 and 2^64.     *)
NumbersFit(f) ==
    \A n \in 1..(Len(f) - 1) :
        /\ f[n] = "listen" /\ ListenAllowed(f[n + 1])
             => AddressMeant(f[n + 1]).port < IntRange \div 2
        /\ f[n] = "client_max_body_size" /\ f[n + 1] \in DOMAIN Number \cup DOMAIN Suffixed
             => NumberMeant(f[n + 1]) <= LongMax

Loaded == file # <<>> /\ pc \in {"binding", "running"}

-----------------------------------------------------------------------------
Locations ==
    [path : Text \cup {""}, root : Text \cup {""}, methods : SUBSET Methods,
     returnCode : DOMAIN Number \cup {""}, returnURL : Text \cup {""},
     autoIndex : BOOLEAN, defaultPage : Text \cup {""}, storage : Text \cup {""},
     cgi : UNION {[exts -> Text] : exts \in SUBSET Text}]

SockAddrs ==
    [host : {AnyHost} \cup {Resolve[h] : h \in DOMAIN Resolve}, port : 0..MaxPort]

ServerConfs ==
    [name : Text \cup {"", "LeftHookRoll"},
     listen : SockAddrs,
     maxBodySize : 0..(LongRange - 1), locations : Seq(Locations),
     errorPages : UNION {[codes -> Text] : codes \in SUBSET Codes}]

TypeOK ==
    /\ pc \in {"top", "server", "location", "binding", "running", "exited"}
    /\ servers \in Seq(ServerConfs) /\ conf \in ServerConfs /\ loc \in Locations
    /\ address \in [DOMAIN address -> SockAddrs]
    /\ listenFdToServerConf \in [DOMAIN listenFdToServerConf -> 1..Len(servers)]
    /\ fdEvents \subseteq Nat

(* The configuration the server gets is what the file says, block by block,    *)
(* whatever the order and repetition of its directives (parse and the handlers *)
(* below it).                                                                  *)
Understood ==
    Loaded /\ Plain(file) /\ NumbersFit(file) => servers = ServersMeant(file, Blocks(file))

(* A server that runs answers for every block of its file, at the address it   *)
(* gives, on a socket of its own that epoll watches and that competes with no  *)
(* other (ServerManager::ServerManager, addServer).                            *)
EachListens ==
    pc = "running" =>
        /\ \A k \in 1..Len(servers) : \E fd \in fdEvents :
              listenFdToServerConf[fd] = k /\ address[fd] = servers[k].listen
        /\ \A f, g \in DOMAIN address : f # g => ~Conflict(address[f], address[g])
        /\ Cardinality(fdEvents) = Len(servers)

(* A start that fails leaves no socket open, but for the one that epoll_ctl()  *)
(* refused (the catch clause of the constructor, _closeAllFds).                *)
NothingLeft == pc = "exited" => fdEvents = {} /\ Cardinality(DOMAIN address) <= 1
=============================================================================
