---------------------------- MODULE MCThreadPool ----------------------------
(* ThreadPool with three workers.                                    *)
EXTENDS ThreadPool

CONSTANTS w1, w2, w3
=============================================================================
