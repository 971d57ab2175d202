-------------------------- MODULE MCResponseBuilder --------------------------
(* A site for ResponseBuilder: an upload directory under a location that also  *)
(* reads and deletes, with a read-only location inside it and a file beside it *)
(* whose name only begins like it.                                             *)
EXTENDS ResponseBuilder, TLC

At(p, methods) ==
    [path |-> p, methods |-> methods, returnCode |-> 0, cgi |-> {},
     root |-> <<"w">>, defaultPage |-> <<>>, autoIndex |-> FALSE, storage |-> <<>>]

MCServers ==
  [main |->
    <<At(<<"/", "a">>, {"GET"}),
      [At(<<"/", "a">>, Methods) EXCEPT !.storage = <<"w", "/", "a">>],
      [At(<<"/">>, {"GET"}) EXCEPT !.defaultPage = <<"i">>],
      [At(<<"/", "a", "/", "b">>, {"GET"}) EXCEPT !.autoIndex = TRUE],
      [At(<<"/", "r">>, Methods) EXCEPT !.returnCode = 301],
      [At(<<"/", "c">>, {"GET", "POST", "DELETE"}) EXCEPT !.cgi = {<<"p">>}]>>,
   upload |-> <<[At(<<"/", "a">>, {"POST"}) EXCEPT !.storage = <<"w", "/", "a">>]>>]

MCInitialFiles ==
    {<<"w", "/", "a", "/", "x">>, <<"w", "/", "a", "b">>, <<"w", "/", "i">>,
     <<"w", "/", "r">>, <<"w", "/", "a", "/", "b", "/", "x">>,
     <<"w", "/", "c", ".", "p">>, <<"w", "/", "c", "/", "s", ".", "p">>}

MCDirectories == {<<"w">>, <<"w", "/", "a">>, <<"w", "/", "a", "/", "b">>}

Ask(method, url) == [method |-> method, url |-> url, statusCode |-> 200, size |-> 0,
                     server |-> "main"]

Send(url, size) == [Ask("POST", url) EXCEPT !.size = size]

MCRequests ==
    {Send(<<"/", "a", "/", "x">>, n) : n \in {0, 5}}
    \cup {Send(<<"/", "a", "/">>, 2), Send(<<"/", "a", "/", "y">>, 2),
          Send(<<"/", "a", "/", "b">>, 1), Send(<<"/", "c", "/">>, 1),
          [Send(<<"/", "a", "b">>, 1) EXCEPT !.server = "upload"]}
    \cup {Ask("DELETE", u) : u \in
             {<<"/", "a", "/", "x">>, <<"/", "a", "b">>, <<"/", "r">>,
              <<"/", "a", "/", "y", "/">>, <<"/", "a", "/", "d">>,
              <<"/", "a", "/", "b", "/", "x">>}}
    \cup {Ask("GET", u) : u \in
             {<<"/", "a", "/", "x">>, <<"/">>, <<"/", "a">>, <<"/", "a", "/", "b">>,
              <<"/", "a", "/", "d">>, <<"/", "z">>, <<"/", "c", "/", "s", ".", "p">>,
              <<"/", "c", "/", "t", ".", "p">>}}
    \cup {[Ask("GET", <<"/">>) EXCEPT !.statusCode = 413]}

MCUploadName == [t \in 0..MaxTime |-> <<"u", ToString(t)>>]

MCSpecials == {<<"w", "/", "a", "/", "d">>}
=============================================================================
