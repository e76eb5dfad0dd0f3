----------------------------- MODULE MCRpcServer -----------------------------
(* RpcServer with two clients and a request id.                             *)
EXTENDS RpcServer

CONSTANTS c1, c2, i1
=============================================================================
