-------------------------- MODULE MCTcpClientTask --------------------------
(* Small instances of TcpClientTask. *)
EXTENDS TcpClientTask
=============================================================================
