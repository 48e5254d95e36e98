-------------------------- MODULE MCTcpServerTask --------------------------
(* Small instances of TcpServerTask. *)
EXTENDS TcpServerTask
=============================================================================
