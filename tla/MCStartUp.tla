------------------------------ MODULE MCStartUp ------------------------------
(* Tokens for StartUp, with numbers beyond the width of the machine.           *)
EXTENDS StartUp, TLC

MCText == {"/", "root", ";"}
MCNumber == ("1" :> 1) @@ ("7" :> 7) @@ ("17" :> 17) @@ ("404" :> 404)
MCSuffixed == ("7k" :> [digits |-> "7", factor |-> 4])
              @@ ("17k" :> [digits |-> "17", factor |-> 4])
              @@ ("k" :> [digits |-> "", factor |-> 4])
MCAddresses == ("h:1" :> [host |-> "h", port |-> "1"])
               @@ ("x:1" :> [host |-> "x", port |-> "1"])
MCResolve == ("h" :> "127.0.0.1")
=============================================================================
