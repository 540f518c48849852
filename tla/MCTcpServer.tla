---------------------------- MODULE MCTcpServer ----------------------------
(* TcpServer on two ports. *)
EXTENDS TcpServer
=============================================================================
