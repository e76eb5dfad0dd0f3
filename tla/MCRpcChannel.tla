---------------------------- MODULE MCRpcChannel ----------------------------
(* RpcChannel with up to two calls of each kind.                           *)
EXTENDS RpcChannel

CONSTANTS a1, a2, b1, b2, n1, n2
=============================================================================
