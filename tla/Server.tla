------------------------------- MODULE Server -------------------------------
(***************************************************************************)
(* The server process: its lifecycle, the REST controllers and the gRPC      *)
(* service.  The services share no state with the shutdown protocol (Crow    *)
(* and gRPC finish or cut their calls themselves), so a behaviour follows    *)
(* one of the three while the others rest: starting and stopping, REST       *)
(* clients of a running server, or a gRPC call to a running server.          *)
(***************************************************************************)
EXTENDS ServerLifecycle, RestApi, GrpcService

VARIABLE focus  \* which of the three the behaviour follows

serverVars == <<lifeVars, restVars, call, focus>>

Init == /\ focus \in {"lifecycle", "rest", "grpc"}
        /\ LifeInit
        /\ RestInit
        /\ call = NoCall

Next == \/ focus = "lifecycle" /\ LifeNext /\ UNCHANGED <<restVars, call, focus>>
        \/ focus = "rest" /\ RestNext /\ UNCHANGED <<lifeVars, call, focus>>
        \/ focus = "grpc" /\ GrpcCallNext /\ UNCHANGED <<lifeVars, restVars, focus>>

Spec == Init /\ [][Next]_serverVars /\ LifeFairness
-----------------------------------------------------------------------------
(* For TLC: numbers at the edges of the clamps and beyond the range of int.  *)
EdgeNumbers == {-1, 0, 1, 99, 100, 1000, 1001, 2^(IntBits - 1), 2^IntBits + 5}
=============================================================================
