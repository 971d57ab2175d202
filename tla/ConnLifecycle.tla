--------------------------- MODULE ConnLifecycle ---------------------------
(***************************************************************************)
(* What the states of Connection.hpp promise about one connection, whoever *)
(* drives it: a request is received once, processed once, answered once,   *)
(* and the connection is then closed.  WRITING is left only by closing, so *)
(* a connection never carries a second request, and PROCESSING or          *)
(* WAITING_FOR_CGI is never re-entered.                                    *)
(***************************************************************************)
CONSTANT Conn

VARIABLE phase

LivePhase == {"READING", "PROCESSING", "WRITING", "WAITING_FOR_CGI"}

Init == phase = [c \in Conn |-> "FREED"]

Move(c, from, to) ==
    /\ phase[c] \in from
    /\ phase' = [phase EXCEPT ![c] = to]

Open(c)    == Move(c, {"FREED"}, "READING")
Receive(c) == Move(c, {"READING"}, "PROCESSING")
RunCgi(c)  == Move(c, {"PROCESSING"}, "WAITING_FOR_CGI")
Answer(c)  == Move(c, {"READING", "PROCESSING", "WAITING_FOR_CGI"}, "WRITING")
Close(c)   == Move(c, LivePhase, "FREED")

(* A sweep answers several connections with an error at once.              *)
AnswerAll(S) ==
    /\ \A c \in S : phase[c] \in LivePhase
    /\ phase' = [c \in Conn |-> IF c \in S THEN "WRITING" ELSE phase[c]]

CloseAll == phase' = [c \in Conn |-> "FREED"]

Next ==
    \/ \E c \in Conn : Open(c) \/ Receive(c) \/ RunCgi(c) \/ Answer(c) \/ Close(c)
    \/ \E S \in SUBSET Conn : AnswerAll(S)
    \/ CloseAll

Spec == Init /\ [][Next]_phase
=============================================================================
