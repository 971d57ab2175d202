---------------------------- MODULE StartUpProof -----------------------------
(* What is read from the file has its type and every server listens, for any   *)
(* tokens and numbers and files of any length.                                 *)
EXTENDS StartUp, SequenceTheorems, FiniteSetTheorems, TLAPS

-----------------------------------------------------------------------------
(* Numbers.                                                                    *)

(* The smaller of two numbers.                                                 *)
LEMMA MinOfTwo ==
    ASSUME NEW a \in Int, NEW b \in Int
    PROVE  Min({a, b}) \in {a, b} /\ Min({a, b}) <= a /\ Min({a, b}) <= b
<1>1. \E x \in {a, b} : \A y \in {a, b} : x <= y
    <2>1. CASE a <= b
        BY <2>1
    <2>2. CASE ~(a <= b)
        BY <2>2
    <2> QED
        BY <2>1, <2>2
<1> QED
    BY <1>1 DEF Min

(* strtol() returns what a long holds.                                         *)
LEMMA StrtolType ==
    ASSUME NEW digits \in DOMAIN Number
    PROVE  Strtol(digits) \in 0..LongMax
<1>1. Number[digits] \in Nat /\ LongMax \in Nat
    BY NumbersAssumption DEF LongMax
<1>2. /\ Strtol(digits) \in {Number[digits], LongMax}
      /\ Strtol(digits) <= LongMax
    BY <1>1, MinOfTwo DEF Strtol
<1> QED
    BY <1>1, <1>2

(* A remainder is smaller than the modulus.                                    *)
LEMMA Remainder ==
    ASSUME NEW a \in Nat, NEW n \in Nat, 0 < n
    PROVE  a % n \in 0..(n - 1)
    OBVIOUS

(* A size is a size_t.                                                         *)
LEMMA BodySizeType ==
    ASSUME NEW v \in DOMAIN Number \cup DOMAIN Suffixed,
           v \in DOMAIN Suffixed => Suffixed[v].digits \in DOMAIN Number
    PROVE  BodySize(v) \in 0..(LongRange - 1)
<1>1. LongRange \in Nat /\ 0 < LongRange /\ LongMax \in Nat /\ LongMax <= LongRange - 1
    BY NumbersAssumption DEF LongMax
<1>2. CASE v \in DOMAIN Suffixed
    <2> DEFINE x == Strtol(Suffixed[v].digits)
               f == Suffixed[v].factor
    <2>1. x \in Nat
        BY <1>1, <1>2, StrtolType
    <2>2. f \in Nat
        BY <1>2, NumbersAssumption
    <2>3. BodySize(v) = (x * f) % LongRange
        BY <1>2 DEF BodySize
    <2> HIDE DEF x, f
    <2>4. x * f \in Nat
        BY <2>1, <2>2
    <2> QED
        BY <1>1, <2>3, <2>4, Remainder
<1>3. CASE v \notin DOMAIN Suffixed
    <2>1. Strtol(v) \in 0..LongMax
        BY <1>3, StrtolType
    <2> QED
        BY <1>1, <1>3, <2>1 DEF BodySize
<1> QED
    BY <1>2, <1>3

(* An address the parser accepts.                                              *)
LEMMA SockAddrType ==
    ASSUME NEW v, ListenAllowed(v)
    PROVE  SockAddr(v) \in SockAddrs
    BY NumbersAssumption DEF ListenAllowed, SockAddr, PortAllowed, SockAddrs

(* A map after an assignment.                                                  *)
LEMMA AssignedType ==
    ASSUME NEW S, NEW T, NEW key \in S, NEW value \in T,
           NEW map \in UNION {[keys -> T] : keys \in SUBSET S}
    PROVE  Assigned(map, key, value) \in UNION {[keys -> T] : keys \in SUBSET S}
<1>1. PICK K \in SUBSET S : map \in [K -> T]
    OBVIOUS
<1>2. Assigned(map, key, value) \in [K \cup {key} -> T]
    BY <1>1 DEF Assigned
<1>3. K \cup {key} \in SUBSET S
    OBVIOUS
<1> QED
    BY <1>2, <1>3

-----------------------------------------------------------------------------
(* Types.                                                                      *)

Pages == UNION {[codes -> Text] : codes \in SUBSET Codes}
Cgis  == UNION {[exts -> Text] : exts \in SUBSET Text}

(* The fields of a server, one by one.                                         *)
LEMMA ConfChanged ==
    ASSUME conf \in ServerConfs
    PROVE  /\ \A x \in Text : [conf EXCEPT !.name = x] \in ServerConfs
           /\ \A x \in SockAddrs : [conf EXCEPT !.listen = x] \in ServerConfs
           /\ \A x \in 0..(LongRange - 1) : [conf EXCEPT !.maxBodySize = x] \in ServerConfs
           /\ \A x \in Seq(Locations) : [conf EXCEPT !.locations = x] \in ServerConfs
           /\ \A x \in Pages : [conf EXCEPT !.errorPages = x] \in ServerConfs
           /\ conf.locations \in Seq(Locations) /\ conf.errorPages \in Pages
<1> DEFINE L == Seq(Locations)
           N == 0..(LongRange - 1)
<1>1. ServerConfs = [name : Text \cup {"", "LeftHookRoll"}, listen : SockAddrs,
                     maxBodySize : N, locations : L, errorPages : Pages]
    BY DEF ServerConfs, Pages
<1> HIDE DEF L, N
<1>2. /\ \A x \in Text : [conf EXCEPT !.name = x] \in ServerConfs
      /\ \A x \in SockAddrs : [conf EXCEPT !.listen = x] \in ServerConfs
      /\ \A x \in N : [conf EXCEPT !.maxBodySize = x] \in ServerConfs
      /\ \A x \in L : [conf EXCEPT !.locations = x] \in ServerConfs
      /\ \A x \in Pages : [conf EXCEPT !.errorPages = x] \in ServerConfs
      /\ conf.locations \in L /\ conf.errorPages \in Pages
    BY <1>1
<1> QED
    BY <1>2 DEF L, N

(* The fields of a location, one by one.                                       *)
LEMMA LocChanged ==
    ASSUME loc \in Locations
    PROVE  /\ \A x \in Text : /\ [loc EXCEPT !.root = x] \in Locations
                              /\ [loc EXCEPT !.defaultPage = x] \in Locations
                              /\ [loc EXCEPT !.storage = x] \in Locations
           /\ \A M \in SUBSET Methods :
                 [loc EXCEPT !.methods = loc.methods \cup M] \in Locations
           /\ \A x \in BOOLEAN : [loc EXCEPT !.autoIndex = x] \in Locations
           /\ \A x \in DOMAIN Number, y \in Text :
                 [loc EXCEPT !.returnCode = x, !.returnURL = y] \in Locations
           /\ \A x \in Cgis : [loc EXCEPT !.cgi = x] \in Locations
           /\ loc.cgi \in Cgis
<1>1. Locations =
        [path : Text \cup {""}, root : Text \cup {""}, methods : SUBSET Methods,
         returnCode : DOMAIN Number \cup {""}, returnURL : Text \cup {""},
         autoIndex : BOOLEAN, defaultPage : Text \cup {""}, storage : Text \cup {""},
         cgi : Cgis]
    BY DEF Locations, Cgis
<1> QED
    BY <1>1

(* The values a server, a location and the default begin with.                 *)
LEMMA FirstValues ==
    /\ NoServer \in ServerConfs /\ DefaultServer \in ServerConfs
    /\ \A p \in Text : [NoLocation EXCEPT !.path = p] \in Locations
    /\ NoLocation \in Locations
<1>1. <<>> \in Pages /\ <<>> \in Cgis /\ <<>> \in Seq(Locations)
    <2>1. <<>> \in [{} -> Text]
        OBVIOUS
    <2>2. {} \in SUBSET Codes /\ {} \in SUBSET Text
        OBVIOUS
    <2>3. <<>> \in Pages
        BY <2>1, <2>2, Zenon DEF Pages
    <2>4. <<>> \in Cgis
        BY <2>1, <2>2, Zenon DEF Cgis
    <2> QED
        BY <2>3, <2>4
<1>2. /\ 0 \in 0..(LongRange - 1) /\ 1 \in 0..(LongRange - 1)
      /\ 0 \in 0..MaxPort /\ 1 \in 0..MaxPort
    BY NumbersAssumption
<1>3. /\ [host |-> AnyHost, port |-> 0] \in SockAddrs
      /\ [host |-> AnyHost, port |-> 1] \in SockAddrs
    BY <1>2 DEF SockAddrs
<1>4. NoServer \in ServerConfs
    BY <1>1, <1>2, <1>3 DEF NoServer, ServerConfs, Pages
<1>5. DefaultServer \in ServerConfs
    BY <1>1, <1>2, <1>3 DEF DefaultServer, ServerConfs, Pages
<1>6. NoLocation \in Locations
    BY <1>1 DEF NoLocation, Locations, Cgis
<1>7. \A p \in Text : [NoLocation EXCEPT !.path = p] \in Locations
    BY <1>1 DEF NoLocation, Locations, Cgis
<1> QED
    BY <1>4, <1>5, <1>6, <1>7

(* What the parser reads has its type.                                         *)
LEMMA ReadingType ==
    ASSUME TypeOK, Parse
    PROVE  /\ pc' \in {"top", "server", "location", "binding", "running", "exited"}
           /\ servers' \in Seq(ServerConfs) /\ Len(servers) <= Len(servers')
           /\ conf' \in ServerConfs /\ loc' \in Locations
<1>1. /\ servers \in Seq(ServerConfs) /\ conf \in ServerConfs /\ loc \in Locations
      /\ Len(servers) \in Nat
    BY DEF TypeOK
<1>2. ASSUME UNCHANGED <<servers, loc>>, conf' \in ServerConfs
      PROVE  servers' \in Seq(ServerConfs) /\ Len(servers) <= Len(servers') /\ loc' \in Locations
    BY <1>1, <1>2
<1>3. ASSUME UNCHANGED <<servers, conf>>
      PROVE  /\ servers' \in Seq(ServerConfs) /\ Len(servers) <= Len(servers')
             /\ conf' \in ServerConfs
    BY <1>1, <1>3
<1>4. CASE OpenServer
    BY <1>2, <1>4, FirstValues DEF OpenServer
<1>5. CASE CloseServer
    <2>1. servers' = Append(servers, conf) /\ UNCHANGED <<conf, loc>> /\ pc' = "top"
        BY <1>5 DEF CloseServer
    <2>2. servers' \in Seq(ServerConfs) /\ Len(servers') = Len(servers) + 1
        BY <1>1, <2>1, AppendProperties
    <2> QED
        BY <1>1, <2>1, <2>2
<1>6. CASE OpenLocation
    BY <1>3, <1>6, FirstValues DEF OpenLocation
<1>7. CASE CloseLocation
    <2>1. Append(conf.locations, loc) \in Seq(Locations)
        BY <1>1, ConfChanged, AppendProperties
    <2>2. conf' \in ServerConfs
        BY <1>1, <1>7, <2>1, ConfChanged DEF CloseLocation
    <2> QED
        BY <1>2, <1>7, <2>2 DEF CloseLocation
<1>8. ASSUME NEW tokens, NEW new \in ServerConfs, SetInServer(tokens, new)
      PROVE  /\ pc' = "server" /\ conf' \in ServerConfs /\ UNCHANGED <<servers, loc>>
    BY <1>8 DEF SetInServer, Consume
<1>9. ASSUME NEW tokens, NEW new \in Locations, SetInLocation(tokens, new)
      PROVE  /\ pc' = "location" /\ loc' \in Locations /\ UNCHANGED <<servers, conf>>
    BY <1>9 DEF SetInLocation, Consume
<1>10. CASE ParseListen
    BY <1>1, <1>2, <1>8, <1>10, ConfChanged, SockAddrType DEF ParseListen
<1>11. CASE ParseServerName
    BY <1>1, <1>2, <1>8, <1>11, ConfChanged DEF ParseServerName
<1>12. CASE ParseMaxBodySize
    BY <1>1, <1>2, <1>8, <1>12, ConfChanged, BodySizeType DEF ParseMaxBodySize
<1>13. CASE ParseErrorPage
    <2>1. PICK code \in Codes, path \in Text :
            SetInServer(<<"error_page", code, path, Semicolon>>,
                        [conf EXCEPT !.errorPages = Assigned(conf.errorPages, code, path)])
        BY <1>13 DEF ParseErrorPage
    <2>2. Assigned(conf.errorPages, code, path) \in Pages
        BY <1>1, ConfChanged, AssignedType DEF Pages
    <2> QED
        BY <1>1, <1>2, <1>8, <2>1, <2>2, ConfChanged
<1>14. CASE ParseRoot
    BY <1>1, <1>3, <1>9, <1>14, LocChanged DEF ParseRoot
<1>15. CASE ParseMethods
    <2>0. PICK n \in 1..MaxMethods : \E methods \in [1..n -> Methods] :
            SetInLocation(<<"methods">> \o methods \o <<Semicolon>>,
                          [loc EXCEPT !.methods = loc.methods \cup ToSet(methods)])
        BY <1>15 DEF ParseMethods
    <2>1. PICK methods \in [1..n -> Methods] :
            SetInLocation(<<"methods">> \o methods \o <<Semicolon>>,
                          [loc EXCEPT !.methods = loc.methods \cup ToSet(methods)])
        BY <2>0
    <2>2. ToSet(methods) \in SUBSET Methods
        BY DEF ToSet
    <2> QED
        BY <1>1, <1>3, <1>9, <2>1, <2>2, LocChanged
<1>16. CASE ParseAutoIndex
    BY <1>1, <1>3, <1>9, <1>16, LocChanged DEF ParseAutoIndex
<1>17. CASE ParseIndex
    BY <1>1, <1>3, <1>9, <1>17, LocChanged DEF ParseIndex
<1>18. CASE ParseUploadStore
    BY <1>1, <1>3, <1>9, <1>18, LocChanged DEF ParseUploadStore
<1>19. CASE ParseReturn
    BY <1>1, <1>3, <1>9, <1>19, LocChanged DEF ParseReturn
<1>20. CASE ParseCgiInterpreter
    <2>1. PICK path \in Text, ext \in Text :
            SetInLocation(<<"cgi_interpreter", path, ext, Semicolon>>,
                          [loc EXCEPT !.cgi = Assigned(loc.cgi, ext, path)])
        BY <1>20 DEF ParseCgiInterpreter
    <2>2. Assigned(loc.cgi, ext, path) \in Cgis
        BY <1>1, LocChanged, AssignedType DEF Cgis
    <2> QED
        BY <1>1, <1>3, <1>9, <2>1, <2>2, LocChanged
<1>21. CASE EndOfFile \/ ParseFails
    BY <1>1, <1>21 DEF EndOfFile, ParseFails, reading
<1> QED
    BY <1>4, <1>5, <1>6, <1>7, <1>10, <1>11, <1>12, <1>13, <1>14, <1>15, <1>16, <1>17,
       <1>18, <1>19, <1>20, <1>21 DEF Parse

(* The parser opens no socket.                                                 *)
LEMMA ParseOpensNone == ASSUME Parse PROVE UNCHANGED sockets
    BY DEF Parse, OpenServer, CloseServer, OpenLocation, CloseLocation, ParseListen,
       ParseServerName, ParseMaxBodySize, ParseErrorPage, ParseRoot, ParseMethods,
       ParseAutoIndex, ParseIndex, ParseUploadStore, ParseReturn, ParseCgiInterpreter,
       SetInServer, SetInLocation, Consume, EndOfFile, ParseFails

-----------------------------------------------------------------------------
(* Sockets.                                                                    *)

(* The first n servers listen, on the descriptors 1 to n, and no others.       *)
Listening(n) ==
    /\ n \in 0..Len(servers)
    /\ DOMAIN address = 1..n /\ DOMAIN listenFdToServerConf = 1..n /\ fdEvents = 1..n
    /\ \A k \in 1..n : listenFdToServerConf[k] = k /\ address[k] = servers[k].listen
    /\ \A j, k \in 1..n : j # k => ~Conflict(address[j], address[k])

(* The inductive invariant: sockets are opened in the order of the servers.    *)
Inv ==
    /\ TypeOK
    /\ pc \in {"top", "server", "location"} => Listening(0)
    /\ pc = "binding" => \E n \in 0..(Len(servers) - 1) : Listening(n)
    /\ pc = "running" => Listening(Len(servers))
    /\ NothingLeft

(* NothingLeft, where nothing is open.                                         *)
LEMMA NothingIsLittle == Cardinality({}) <= 1
    BY FS_EmptySet

LEMMA OneIsLittle == ASSUME NEW x PROVE Cardinality({x}) <= 1
<1>1. Cardinality({} \cup {x}) = 1
    <2>1. IsFiniteSet({}) /\ Cardinality({}) = 0 /\ x \notin {}
        BY FS_EmptySet
    <2>2. Cardinality({} \cup {x}) = Cardinality({}) + 1
        BY <2>1, FS_AddElement, Zenon
    <2> QED
        BY <2>1, <2>2
<1>2. {} \cup {x} = {x}
    OBVIOUS
<1> QED
    BY <1>1, <1>2

LEMMA InitInv == Init => Inv
<1> SUFFICES ASSUME Init PROVE Inv
    OBVIOUS
<1>1. servers \in Seq(ServerConfs) /\ Len(servers) \in Nat
    <2>1. CASE servers = <<>>
        BY <2>1
    <2>2. CASE servers = <<DefaultServer>>
        BY <2>2, FirstValues
    <2> QED
        BY <2>1, <2>2 DEF Init
<1>2. DOMAIN address = {} /\ DOMAIN listenFdToServerConf = {} /\ fdEvents = {} /\ 1..0 = {}
    BY DEF Init
<1>3. TypeOK
    BY <1>1, <1>2, FirstValues DEF Init, TypeOK
<1>4. Listening(0)
    BY <1>1, <1>2 DEF Listening
<1>5. pc = "binding" => 0 \in 0..(Len(servers) - 1)
    BY DEF Init
<1>6. pc \in {"top", "binding"}
    BY DEF Init
<1> QED
    BY <1>3, <1>4, <1>5, <1>6 DEF Inv, NothingLeft

(* The parser.                                                                 *)
LEMMA ParseStep == ASSUME Inv, Parse PROVE Inv'
<1>1. UNCHANGED <<address, listenFdToServerConf, fdEvents>>
    BY ParseOpensNone DEF sockets
<1>2. /\ pc' \in {"top", "server", "location", "binding", "running", "exited"}
      /\ servers' \in Seq(ServerConfs) /\ Len(servers) <= Len(servers')
      /\ conf' \in ServerConfs /\ loc' \in Locations
      /\ Len(servers) \in Nat /\ Len(servers') \in Nat
    BY ReadingType DEF Inv, TypeOK
<1>3. pc \in {"top", "server", "location"}
    BY DEF Parse, OpenServer, CloseServer, OpenLocation, CloseLocation, ParseListen,
       ParseServerName, ParseMaxBodySize, ParseErrorPage, ParseRoot, ParseMethods,
       ParseAutoIndex, ParseIndex, ParseUploadStore, ParseReturn, ParseCgiInterpreter,
       SetInServer, SetInLocation, Consume, EndOfFile, ParseFails
<1>4. /\ pc' \in {"top", "server", "location", "binding", "exited"}
      /\ pc' = "binding" => servers' = servers /\ servers # <<>>
    BY DEF Parse, OpenServer, CloseServer, OpenLocation, CloseLocation, ParseListen,
       ParseServerName, ParseMaxBodySize, ParseErrorPage, ParseRoot, ParseMethods,
       ParseAutoIndex, ParseIndex, ParseUploadStore, ParseReturn, ParseCgiInterpreter,
       SetInServer, SetInLocation, Consume, EndOfFile, ParseFails, reading
<1>5. Listening(0) /\ 1..0 = {}
    BY <1>3 DEF Inv
<1>6. TypeOK'
    BY <1>1, <1>2, <1>5 DEF Inv, TypeOK, Listening
<1>7. Listening(0)'
    BY <1>1, <1>2, <1>5 DEF Listening
<1>8. pc' = "binding" => 0 \in 0..(Len(servers') - 1)
    <2>1. pc' = "binding" => Len(servers') # 0
        BY <1>2, <1>4, EmptySeq
    <2> QED
        BY <1>2, <2>1
<1>9. NothingLeft'
    BY <1>1, <1>5, NothingIsLittle DEF NothingLeft, Listening
<1> QED
    BY <1>4, <1>6, <1>7, <1>8, <1>9 DEF Inv

(* What Added is when n servers listen.                                        *)
LEMMA AddedIs ==
    ASSUME NEW n \in Nat, Listening(n)
    PROVE  Added = n /\ NewFd = n + 1
<1>1. Cardinality(1..n) = n
    BY FS_Interval
<1> QED
    BY <1>1 DEF Added, NewFd, Listening

(* One more server that listens.                                               *)
LEMMA AddServerStep == ASSUME Inv, AddServer PROVE Inv'
<1>1. PICK n \in 0..(Len(servers) - 1) : Listening(n)
    BY DEF Inv, AddServer
<1>2. n \in Nat /\ Len(servers) \in Nat /\ n < Len(servers) /\ servers \in Seq(ServerConfs)
    BY <1>1 DEF Inv, TypeOK
<1>3. Added = n /\ NewFd = n + 1
    BY <1>1, <1>2, AddedIs
<1> DEFINE addr == servers[n + 1].listen
<1>4. /\ \A fd \in DOMAIN address : ~Conflict(address[fd], addr)
      /\ address' = Assigned(address, n + 1, addr)
      /\ listenFdToServerConf' = Assigned(listenFdToServerConf, n + 1, n + 1)
      /\ fdEvents' = fdEvents \cup {n + 1}
      /\ pc' = IF n + 1 = Len(servers) THEN "running" ELSE "binding"
      /\ UNCHANGED <<file, servers, conf, loc>>
    BY <1>3 DEF AddServer, Bindable, reading
<1>5. addr \in SockAddrs
    <2>1. servers[n + 1] \in ServerConfs
        BY <1>2, ElementOfSeq
    <2> QED
        BY <2>1 DEF ServerConfs
<1> HIDE DEF addr
<1>6. 1..n \cup {n + 1} = 1..(n + 1)
    BY <1>2
<1>7. /\ DOMAIN address' = 1..(n + 1) /\ DOMAIN listenFdToServerConf' = 1..(n + 1)
      /\ fdEvents' = 1..(n + 1)
    BY <1>1, <1>4, <1>6 DEF Listening, Assigned
<1>8. \A k \in 1..(n + 1) : /\ address'[k] = IF k = n + 1 THEN addr ELSE address[k]
                            /\ listenFdToServerConf'[k] = k
    <2>1. \A k \in 1..(n + 1) : k = n + 1 \/ k \in 1..n
        BY <1>2
    <2> QED
        BY <1>1, <1>4, <1>6, <2>1 DEF Listening, Assigned
<1>9. \A k \in 1..(n + 1) : address'[k] = servers[k].listen
    <2>1. \A k \in 1..(n + 1) : k = n + 1 \/ k \in 1..n
        BY <1>2
    <2> QED
        BY <1>1, <1>8, <2>1 DEF Listening, addr
<1>10. \A j, k \in 1..(n + 1) : j # k => ~Conflict(address'[j], address'[k])
    <2>1. \A k \in 1..n : ~Conflict(address[k], addr) /\ ~Conflict(addr, address[k])
        BY <1>1, <1>4 DEF Listening, Conflict
    <2>2. \A k \in 1..(n + 1) : k = n + 1 \/ k \in 1..n
        BY <1>2
    <2>3. ASSUME NEW j \in 1..(n + 1), NEW k \in 1..(n + 1), j # k
          PROVE  ~Conflict(address'[j], address'[k])
        BY <1>1, <1>8, <2>1, <2>2, <2>3 DEF Listening
    <2> QED
        BY <2>3
<1>11. Listening(n + 1)'
    <2>1. n + 1 \in 0..Len(servers')
        BY <1>2, <1>4
    <2> QED
        BY <1>4, <1>7, <1>8, <1>9, <1>10, <2>1 DEF Listening
<1>12. TypeOK'
    <2>1. address' \in [DOMAIN address' -> SockAddrs]
        BY <1>4, <1>5 DEF Assigned, Inv, TypeOK
    <2>2. listenFdToServerConf' \in [DOMAIN listenFdToServerConf' -> 1..Len(servers')]
        <3>1. n + 1 \in 1..Len(servers)
            BY <1>2
        <3> QED
            BY <1>4, <3>1 DEF Assigned, Inv, TypeOK
    <2>3. fdEvents' \subseteq Nat
        BY <1>2, <1>7
    <2> QED
        BY <1>4, <2>1, <2>2, <2>3 DEF Inv, TypeOK
<1>13. CASE n + 1 = Len(servers)
    BY <1>4, <1>11, <1>12, <1>13 DEF Inv, NothingLeft
<1>14. CASE n + 1 # Len(servers)
    <2>1. n + 1 \in 0..(Len(servers') - 1)
        BY <1>2, <1>4, <1>14
    <2> QED
        BY <1>4, <1>11, <1>12, <1>14, <2>1 DEF Inv, NothingLeft
<1> QED
    BY <1>13, <1>14

(* A server that cannot listen ends the start.                                 *)
LEMMA AddServerFailsStep == ASSUME Inv, AddServerFails PROVE Inv'
<1>1. PICK n \in 0..(Len(servers) - 1) : Listening(n)
    BY DEF Inv, AddServerFails
<1>2. n \in Nat /\ Len(servers) \in Nat /\ n < Len(servers) /\ servers \in Seq(ServerConfs)
    BY <1>1 DEF Inv, TypeOK
<1>3. Added = n /\ NewFd = n + 1
    BY <1>1, <1>2, AddedIs
<1> DEFINE addr == servers[n + 1].listen
<1>4. /\ \/ address' = Closed(address, fdEvents)
         \/ address' = Closed(Assigned(address, n + 1, addr), fdEvents)
      /\ listenFdToServerConf' = <<>> /\ fdEvents' = {} /\ pc' = "exited"
      /\ UNCHANGED <<file, servers, conf, loc>>
    BY <1>3 DEF AddServerFails, reading
<1>5. addr \in SockAddrs
    <2>1. servers[n + 1] \in ServerConfs
        BY <1>2, ElementOfSeq
    <2> QED
        BY <2>1 DEF ServerConfs
<1> HIDE DEF addr
<1>6. DOMAIN address = 1..n /\ fdEvents = 1..n /\ address \in [1..n -> SockAddrs]
    BY <1>1 DEF Listening, Inv, TypeOK
<1>7. DOMAIN address' \in {{}, {n + 1}} /\ address' \in [DOMAIN address' -> SockAddrs]
    <2>1. CASE address' = Closed(address, fdEvents)
        BY <1>6, <2>1 DEF Closed
    <2>2. CASE address' = Closed(Assigned(address, n + 1, addr), fdEvents)
        <3>1. Assigned(address, n + 1, addr) \in [1..n \cup {n + 1} -> SockAddrs]
            BY <1>5, <1>6 DEF Assigned
        <3>2. (1..n \cup {n + 1}) \ (1..n) = {n + 1}
            BY <1>2
        <3> QED
            BY <1>6, <2>2, <3>1, <3>2 DEF Closed
    <2> QED
        BY <1>4, <2>1, <2>2
<1>8. TypeOK'
    BY <1>4, <1>7 DEF Inv, TypeOK
<1>9. NothingLeft'
    BY <1>4, <1>7, NothingIsLittle, OneIsLittle DEF NothingLeft
<1> QED
    BY <1>4, <1>8, <1>9 DEF Inv

-----------------------------------------------------------------------------
(* The theorems.                                                               *)

(* What listens is known at every step of the start, for any tokens, numbers,  *)
(* servers and length of the file (parse, addServer).                          *)
THEOREM Invariance == Spec => []Inv
<1>1. Inv /\ UNCHANGED vars => Inv'
    BY DEF Inv, TypeOK, Listening, NothingLeft, vars, reading, sockets
<1>2. Inv /\ [Next]_vars => Inv'
    BY <1>1, ParseStep, AddServerStep, AddServerFailsStep DEF Next
<1> QED
    BY <1>2, InitInv, PTL DEF Spec

(* Types: a port that is kept fits in 16 bits, a size in a size_t (_parseListen,*)
(* _parseBodySize).                                                            *)
THEOREM TypeCorrect == Spec => []TypeOK
<1>1. Inv => TypeOK
    BY DEF Inv
<1> QED
    BY <1>1, Invariance, PTL

(* A server that runs answers for each of its blocks on a socket of its own    *)
(* (addServer).                                                                *)
THEOREM EachListensHolds == Spec => []EachListens
<1>1. Inv => EachListens
    <2> SUFFICES ASSUME Inv, pc = "running" PROVE EachListens
        BY DEF EachListens
    <2>1. Listening(Len(servers)) /\ Len(servers) \in Nat
        BY DEF Inv, TypeOK
    <2>2. Cardinality(fdEvents) = Len(servers)
        <3>1. \A n \in Nat : Cardinality(1..n) = n
            BY FS_Interval
        <3> QED
            BY <2>1, <3>1 DEF Listening
    <2> QED
        BY <2>1, <2>2 DEF EachListens, Listening
<1> QED
    BY <1>1, Invariance, PTL

(* A start that fails leaves at most the socket that epoll_ctl() refused       *)
(* (_closeAllFds).                                                             *)
THEOREM NothingLeftHolds == Spec => []NothingLeft
<1>1. Inv => NothingLeft
    BY DEF Inv
<1> QED
    BY <1>1, Invariance, PTL
=============================================================================
