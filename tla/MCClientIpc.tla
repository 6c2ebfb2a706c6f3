----------------------------- MODULE MCClientIpc -----------------------------
(* A small instance of ClientIpc: the requests the clients of the run make. *)
EXTENDS ClientIpc

MCRequests == {Subscribe(StreamFlags), Subscribe({"GPIO_EVENTS"}), Ping, GetStats, Bad}
==============================================================================
