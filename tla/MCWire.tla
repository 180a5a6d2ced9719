------------------------------- MODULE MCWire --------------------------------
(* A client that behaves and says much, and one that says little and does   *)
(* not behave.                                                                  *)
EXTENDS Wire

CONSTANTS shell, pest

MCSends ==
    (shell :>
        [line |-> {"PING", "NOW", "other", "not UTF-8"},
         varlink |-> {"GetHistory", "another method", "not JSON", "not UTF-8", "blank"},
         http |-> {"GET /metrics", "POST"}])
    @@ (pest :>
        [line |-> {"SINCE seconds"}, varlink |-> {"GetHistory"}, http |-> {"GET /metrics"}])
=============================================================================
