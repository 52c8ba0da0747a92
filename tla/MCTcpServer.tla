---------------------------- MODULE MCTcpServer ----------------------------
(* TcpServer with two pids, which the system gives out again.              *)
EXTENDS TcpServer
=============================================================================
