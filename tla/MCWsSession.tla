----------------------------- MODULE MCWsSession -----------------------------
(***************************************************************************)
(* WsSession with one device that connects over two sockets: the second    *)
(* may resume the stream while the first has not ended.                    *)
(***************************************************************************)
EXTENDS WsSession, TLC

MCTasks == Sockets \X {"main", "forward"}
SocketSymmetry == Permutations(Sockets)
MCUserOf == [d \in Devices |-> CHOOSE u \in Users : TRUE]
=============================================================================
